-------------------------------- MODULE History ------------------------------
(****************************************************************************)
(* Loading a recording: handleLoad of HistoryPlayer pages through           *)
(* GET /positions/history, tag by tag, while the consumer keeps inserting   *)
(* into position_events.  A request runs two statements, the page of rows   *)
(* and the count, each of which sees its own state of the table.            *)
(*                                                                          *)
(* Two invocations of handleLoad share nothing but the table, so one at a   *)
(* time is modelled.  The player that gets the points, at any moment, is in *)
(* Player.tla; the error text of the panel is display only and left out.    *)
(*                                                                          *)
(* A message stands for one row of position_events.                         *)
(****************************************************************************)
EXTENDS Positions, Sequences, FiniteSets

CONSTANTS
    PageSize,   \* PAGE_SIZE, the limit of every request
    Ranges      \* the time ranges [from, to] the user may enter

ASSUME HistoryAssumption ==
    /\ PageSize \in Nat \ {0}
    /\ Ranges \subseteq [from : Int \cup {None}, to : Int \cup {None}]
    /\ None \notin Int

VARIABLES
    table,    \* position_events
    load,     \* the invocation of handleLoad
    loading   \* the panel's `loading`

vars == <<table, load, loading>>

Stages == {"none", "rows", "count", "reply"}
TimeRange == [from : Int \cup {None}, to : Int \cup {None}]

(* The local variables of handleLoad, the answer of the request it waits for *)
(* and, for the properties, the table when Load was clicked.                 *)
NoLoad == [stage |-> "none", range |-> [from |-> None, to |-> None], wanted |-> {},
           before |-> {}, todo |-> {}, tag |-> None, offset |-> 0,
           items |-> <<>>, total |-> 0, allPoints |-> <<>>]

(* Types; no answer has more than PageSize rows.                             *)
TypeOK ==
    /\ table \subseteq Msg
    /\ load \in [stage : Stages, range : TimeRange, wanted : SUBSET Tag,
                 before : SUBSET Msg, todo : SUBSET Tag, tag : Tag \cup {None},
                 offset : Nat, items : Seq(Msg), total : Nat, allPoints : Seq(Msg)]
    /\ load.todo \subseteq load.wanted /\ load.before \subseteq table
    /\ Len(load.items) <= PageSize
    /\ loading \in BOOLEAN

Init ==
    /\ table = {}
    /\ load = NoLoad
    /\ loading = FALSE

(* The consumer commits a row.                                               *)
Insert(m) ==
    /\ m \notin table
    /\ table' = table \cup {m}
    /\ UNCHANGED <<load, loading>>
------------------------------------------------------------------------------
(* GET /positions/history.                                                   *)

(* _build_time_filters; None leaves the side open.                           *)
InRange(m, r) ==
    /\ r.from = None \/ TsOf[m] >= r.from
    /\ r.to = None \/ TsOf[m] <= r.to

(* Mutant: the time range is not applied.                                    *)
AnyTime(S) == {m \in S : TagOf[m] = load.tag}

(* WHERE tag_id = ... and the time filters.                                  *)
Matching(S) == {m \in S : TagOf[m] = load.tag /\ InRange(m, load.range)}

(* S by descending timestamp: PostgreSQL may order ties anew each time.      *)
Descending(S) ==
    {f \in [1..Cardinality(S) -> S] :
        \A i, j \in 1..Cardinality(S) : i < j => f[i] # f[j] /\ TsOf[f[i]] >= TsOf[f[j]]}

LowerOf(a, b) == IF a < b THEN a ELSE b

(* Mutant: no LIMIT.                                                         *)
PageToTheEnd(all, offset) == SubSeq(all, offset + 1, Len(all))

(* LIMIT PageSize OFFSET offset                                              *)
Page(all, offset) == SubSeq(all, offset + 1, LowerOf(offset + PageSize, Len(all)))

(* get_position_history                                                      *)
SelectRows ==
    /\ load.stage = "rows"
    /\ \E all \in Descending(Matching(table)) :
          load' = [load EXCEPT !.items = Page(all, load.offset), !.stage = "count"]
    /\ UNCHANGED <<table, loading>>

(* count_position_history, a statement of its own.                           *)
CountRows ==
    /\ load.stage = "count"
    /\ load' = [load EXCEPT !.total = Cardinality(Matching(table)), !.stage = "reply"]
    /\ UNCHANGED <<table, loading>>

------------------------------------------------------------------------------
(* The panel and handleLoad.                                                 *)

(* disabled={selectedTags.size === 0 || loading}                             *)
LoadEnabled(S) == S # {} /\ ~loading

(* The request for the first page of a tag.                                  *)
FirstPage(rec, t) ==
    [rec EXCEPT !.tag = t, !.todo = @ \ {t}, !.offset = 0, !.stage = "rows"]

ClickLoad(S, r, t) ==
    /\ LoadEnabled(S) /\ t \in S
    /\ loading' = TRUE
    /\ load' = FirstPage([NoLoad EXCEPT !.range = r, !.wanted = S, !.before = table,
                                       !.todo = S], t)
    /\ UNCHANGED table

(* Mutant: a page that is just full ends the loop.                           *)
UpToFull(items) == Len(items) <= PageSize

(* if (body.items.length < PAGE_SIZE) break                                  *)
IsShort(items) == Len(items) < PageSize

(* await res.json(): the page is added and the offset moves.                 *)
WithPage ==
    [load EXCEPT !.allPoints = @ \o load.items, !.offset = @ + Len(load.items),
                    !.items = <<>>]

(* Mutant: the total is not looked at.                                       *)
WhileFull == ~IsShort(load.items)

(* while (offset < total), evaluated after the page was added.               *)
MorePages == ~IsShort(load.items) /\ WithPage.offset < load.total

NextPage ==
    /\ load.stage = "reply" /\ MorePages
    /\ load' = [WithPage EXCEPT !.stage = "rows"]
    /\ UNCHANGED <<table, loading>>

(* for (const tagId of selectedTags)                                         *)
NextTag(t) ==
    /\ load.stage = "reply" /\ ~MorePages /\ t \in load.todo
    /\ load' = FirstPage(WithPage, t)
    /\ UNCHANGED <<table, loading>>

(* Mutant: the last page is asked for again.                                 *)
Retried == load' = [load EXCEPT !.stage = "rows"] /\ UNCHANGED <<table, loading>>

(* finally: setLoading(false); handleLoad returns, its local variables go.   *)
Ended == load' = NoLoad /\ loading' = FALSE /\ UNCHANGED table

(* onLoad(allPoints), finally: the player gets WithPage.allPoints.           *)
Deliver ==
    /\ load.stage = "reply" /\ ~MorePages /\ load.todo = {}
    /\ Ended

(* No connection, a statement fails, the network does: not res.ok or a throw *)
LoadFails ==
    /\ load.stage # "none"
    /\ Ended

Step ==
    \/ SelectRows \/ CountRows \/ NextPage \/ Deliver
    \/ \E t \in Tag : NextTag(t)

Next ==
    \/ \E m \in Msg : Insert(m)
    \/ \E S \in SUBSET Tag, r \in Ranges, t \in Tag : ClickLoad(S, r, t)
    \/ Step
    \/ LoadFails

Spec == Init /\ [][Next]_vars

(* The server answers and the browser runs what was awaited.                 *)
FairSpec == Spec /\ WF_vars(Step)
------------------------------------------------------------------------------
Requested(S) == {m \in S : TagOf[m] \in load.wanted /\ InRange(m, load.range)}
Alike(m, n) == TagOf[m] = TagOf[n] /\ TsOf[m] = TsOf[n]

(* However many rows are inserted between the pages, the player gets, for    *)
(* every tag and timestamp, at least as many points as rows matched when     *)
(* Load was clicked: an insert pushes rows to later offsets, never to        *)
(* earlier ones, and the count is taken after the page.  Which of the rows   *)
(* with equal timestamps they are is left to PostgreSQL.                     *)
IsComplete ==
    LET S == Requested(load.before)
        p == WithPage.allPoints
    IN  \A m \in S : Cardinality({n \in S : Alike(m, n)})
                        <= Cardinality({i \in DOMAIN p : Alike(m, p[i])})

LoadIsComplete == [][Deliver => IsComplete]_vars

(* Nothing else reaches it, and if the table did not change, nothing more.   *)
IsExact ==
    LET p == WithPage.allPoints IN
    /\ {p[i] : i \in DOMAIN p} \subseteq Requested(table)
    /\ load.before = table => Len(p) = Cardinality(Requested(table))

LoadIsExact == [][Deliver => IsExact]_vars

(* Every request after the first of a tag still has a row to read that no    *)
(* earlier one reached: however inserts move the rows and the total changes  *)
(* between the statements, a tag with n rows takes at most n requests after  *)
(* its first, and handleLoad does not turn on empty pages.                   *)
PagesAreDue ==
    load.stage = "rows" /\ load.offset > 0 => load.offset < Cardinality(Matching(table))

(* Once rows stop coming in, a load ends and the button is offered again,    *)
(* however it goes.  While rows of the tag keep coming, a page at least for  *)
(* every request, `while (offset < total)` has no end: hence the premise.    *)
LoadEnds == <>[][table' = table]_vars => (loading ~> ~loading)
==============================================================================
