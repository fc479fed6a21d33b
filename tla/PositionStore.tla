---------------------------- MODULE PositionStore ----------------------------
(****************************************************************************)
(* What the ingest side of the backend promises the serving side: a table   *)
(* with one row per tag that a commit moves forward atomically, and a set   *)
(* of committed events whose handler still has to hand them to the          *)
(* broadcast.  Consumer.tla implements this specification; WsFeed.tla and   *)
(* LiveMap.tla are built on it.                                             *)
(****************************************************************************)
EXTENDS Positions

VARIABLES
    current,  \* current_positions: tag -> row
    pending   \* committed events that a live handler will broadcast next

storeVars == <<current, pending>>

StoreInit ==
    /\ current = [t \in Tag |-> None]
    /\ pending = {}

Committed(m) == current' = [current EXCEPT ![TagOf[m]] = Upsert(@, m)]

(* Mutant: the broadcast is told before the transaction commits.             *)
StoreAnnounceOnly(m) ==
    /\ pending' = pending \cup {m}
    /\ UNCHANGED current

(* persist_envelope returned: the handler goes on to broadcast.publish.      *)
StoreCommit(m) ==
    /\ Committed(m)
    /\ pending' = pending \cup {m}

(* The commit took effect but the handler saw an error or died: the event    *)
(* is in the table and nobody will broadcast it for this delivery.           *)
StoreCommitUnannounced(m) ==
    /\ Committed(m)
    /\ UNCHANGED pending

(* broadcast.publish; another handler may hold a second delivery of m.       *)
StoreAnnounce(m) ==
    /\ m \in pending
    /\ pending' \in {pending, pending \ {m}}
    /\ UNCHANGED current

(* The backend process ends: its handlers are gone, the table is not.        *)
StoreForget ==
    /\ pending' = {}
    /\ UNCHANGED current

StoreNext ==
    \/ \E m \in Msg : StoreCommit(m) \/ StoreCommitUnannounced(m) \/ StoreAnnounce(m)
    \/ StoreForget

StoreSpec == StoreInit /\ [][StoreNext]_storeVars
==============================================================================
