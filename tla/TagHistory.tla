----------------------------- MODULE TagHistory ------------------------------
(****************************************************************************)
(* The useTagHistory hook: the history of one tag, requested whenever tagId *)
(* (or the range, which is left out) changes.  Nothing cancels a request    *)
(* whose query is no longer the current one, and its answer is applied      *)
(* whenever it comes.                                                       *)
(****************************************************************************)
EXTENDS Integers

CONSTANTS
    Tag,         \* the tag_ids
    None,        \* tagId = null, data = []; not one of the tags
    MaxRequests  \* bound on the requests of a behaviour

VARIABLES
    tagId,    \* the hook's parameter
    waiting,  \* requests without an answer: number -> tag
    sent,     \* requests so far
    data,     \* whose items are shown (with their total)
    loading,  \* loading
    error     \* error is set

vars == <<tagId, waiting, sent, data, loading, error>>

Init ==
    /\ tagId = None /\ data = None
    /\ waiting = [r \in {} |-> None] /\ sent = 0
    /\ loading = FALSE /\ error = FALSE

(* fetchHistory without a tag.                                               *)
Clear ==
    /\ tagId # None
    /\ tagId' = None
    /\ data' = None
    /\ UNCHANGED <<waiting, sent, loading, error>>

(* fetchHistory up to its first await.                                       *)
Select(t) ==
    /\ tagId # t /\ sent < MaxRequests
    /\ tagId' = t
    /\ loading' = TRUE /\ error' = FALSE
    /\ sent' = sent + 1
    /\ waiting' = [r \in DOMAIN waiting \cup {sent'} |-> IF r = sent' THEN t ELSE waiting[r]]
    /\ UNCHANGED data

Done(r) ==
    /\ waiting' = [q \in DOMAIN waiting \ {r} |-> waiting[q]]
    /\ loading' = FALSE
    /\ UNCHANGED <<tagId, sent>>

(* The rest of fetchHistory, when the answer of request r has come.          *)
Answer(r) ==
    /\ data' = waiting[r]
    /\ Done(r)
    /\ UNCHANGED error

(* HTTP error, network error or a body that is not JSON.                     *)
Failure(r) ==
    /\ data' = None /\ error' = TRUE
    /\ Done(r)

Next ==
    \/ Clear
    \/ \E t \in Tag : Select(t)
    \/ \E r \in DOMAIN waiting : Answer(r) \/ Failure(r)

Spec == Init /\ [][Next]_vars
------------------------------------------------------------------------------
(* Without a tag there is no data (the test "returns empty data when tagId   *)
(* is null" of useTagHistory.test.ts), whatever was requested before.        *)
ClearedIsEmpty == tagId = None => data = None
==============================================================================
