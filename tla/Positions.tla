------------------------------ MODULE Positions ------------------------------
(****************************************************************************)
(* Position events and the three rules that decide which of two events of a *)
(* tag wins: the UPSERT of the database, the stale filter of the WebSocket  *)
(* endpoint and the merge in the browser.  An event is a model value (a     *)
(* number, in publish order); only its tag and its timestamp matter here.   *)
(****************************************************************************)
EXTENDS Integers

CONSTANTS
    Tag,    \* the tag_ids
    Msg,    \* the envelopes
    TagOf,  \* payload.tag_id of an envelope
    TsOf,   \* payload.ts_utc_ms of an envelope
    None    \* "no row", "no envelope"

ASSUME PositionsAssumption ==
    /\ TagOf \in [Msg -> Tag]
    /\ TsOf \in [Msg -> Int]
    /\ None \notin Msg

Row == Msg \cup {None}

(* Mutants: the UPSERT without its WHERE clause, the merge without its guard.*)
UpsertBlind(row, m) == m

MergeBlind(row, m) == m

(* The row of a tag after `INSERT ... ON CONFLICT (tag_id) DO UPDATE ...     *)
(* WHERE EXCLUDED.ts_utc_ms >= current_positions.ts_utc_ms`.                 *)
Upsert(row, m) == IF row = None \/ TsOf[m] >= TsOf[row] THEN m ELSE row

(* `ts < snapshot_ts.get(tag_id, 0)`: a tag the snapshot does not list       *)
(* counts as seen at time 0.                                                 *)
IsStale(m, snapshot) ==
    LET row == snapshot[TagOf[m]]
    IN  TsOf[m] < IF row = None THEN 0 ELSE TsOf[row]

(* The browser keeps what it shows only when that is strictly newer.         *)
Merge(row, m) == IF row # None /\ TsOf[row] > TsOf[m] THEN row ELSE m

(* Row r is at least as new as row q (a missing row is older than any).      *)
AtLeast(r, q) == q = None \/ (r # None /\ TsOf[r] >= TsOf[q])
==============================================================================
