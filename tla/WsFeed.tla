------------------------------- MODULE WsFeed --------------------------------
(****************************************************************************)
(* The serving side of the backend: the in-process Broadcast and the        *)
(* /ws/positions endpoint, on top of the store that the consumer maintains. *)
(* Every connection has a coroutine positions_ws of its own: subscribe,     *)
(* read the snapshot in an executor thread, send it, then forward the       *)
(* queue.  All of them share the event loop with the handlers that publish, *)
(* so a step here is what runs between two awaits.                          *)
(****************************************************************************)
EXTENDS PositionStore, Sequences, FiniteSets

CONSTANTS
    Conn,      \* WebSocket connections
    QueueMax,  \* Broadcast(maxsize=256)
    WireMax,   \* frames the transport buffers before send_json waits
    MaxFaults  \* bound on the faults of a behaviour

ASSUME FeedAssumption ==
    /\ QueueMax \in Nat \ {0}
    /\ WireMax \in Nat \ {0}
    /\ MaxFaults \in Nat
    /\ None \notin Conn

VARIABLES
    up,      \* the backend process runs
    phase,   \* where positions_ws is, per connection
    queue,   \* the subscriber's asyncio.Queue
    snap,    \* the snapshot read for the connection (ts_map)
    wire,    \* frames sent and not yet handled by the browser
    open,    \* the connection is not broken or closed
    missed,  \* events committed since the snapshot that no queue will carry
    faults   \* faults so far

connVars == <<phase, queue, snap, wire, open, missed>>
feedVars == <<up, connVars, faults>>

Table == [Tag -> Row]
NoRows == [t \in Tag |-> None]

OpenFrame        == [type |-> "open"]
SnapshotFrame(r) == [type |-> "snapshot", rows |-> r]
EnvelopeFrame(m) == [type |-> "envelope", msg |-> m]
Frame == {OpenFrame} \cup [type : {"snapshot"}, rows : Table]
                     \cup [type : {"envelope"}, msg : Msg]

FeedTypeOK ==
    /\ current \in Table
    /\ pending \subseteq Msg
    /\ up \in BOOLEAN
    /\ phase \in [Conn -> {"idle", "requested", "subscribed", "snapped", "live"}]
    /\ queue \in [Conn -> Seq(Msg)] /\ \A s \in Conn : Len(queue[s]) <= QueueMax
    /\ snap \in [Conn -> Table]
    /\ wire \in [Conn -> Seq(Frame)]
    /\ open \in [Conn -> BOOLEAN]
    /\ missed \in [Conn -> SUBSET Msg]
    /\ faults \in 0..MaxFaults

FeedInit ==
    /\ StoreInit
    /\ up = TRUE
    /\ phase = [s \in Conn |-> "idle"]
    /\ queue = [s \in Conn |-> <<>>]
    /\ snap = [s \in Conn |-> NoRows]
    /\ wire = [s \in Conn |-> <<>>]
    /\ open = [s \in Conn |-> FALSE]
    /\ missed = [s \in Conn |-> {}]
    /\ faults = 0

FeedFault == faults < MaxFaults /\ faults' = faults + 1

(* Mutant: subscribe only after the snapshot was sent.                       *)
LiveSubscribers == {s \in Conn : phase[s] = "live"}

(* The queues in Broadcast._subscribers.                                     *)
Subscribers == {s \in Conn : phase[s] \in {"subscribed", "snapped", "live"}}
------------------------------------------------------------------------------
(* The store, as the handlers of the consumer change it.                     *)

(* A handler's persist_envelope returned.                                    *)
EventCommitted(m) ==
    /\ up
    /\ StoreCommit(m)
    /\ UNCHANGED feedVars

(* A commit nobody will broadcast: its outcome was unclear to the handler,   *)
(* or the standalone consumer (which has no broadcast) made it.              *)
EventCommittedSilently(m) ==
    /\ FeedFault
    /\ StoreCommitUnannounced(m)
    /\ missed' = [s \in Conn |-> IF s \in Subscribers THEN missed[s] \cup {m} ELSE missed[s]]
    /\ UNCHANGED <<up, phase, queue, snap, wire, open>>

(* Mutant: an unbounded queue.                                               *)
AlwaysRoom(s) == TRUE

HasRoom(s) == Len(queue[s]) < QueueMax

(* put_nowait on every subscriber's queue; a full queue drops the event.     *)
Publish(m) ==
    /\ up
    /\ StoreAnnounce(m)
    /\ queue' = [s \in Conn |-> IF s \in Subscribers /\ HasRoom(s)
                                  THEN Append(queue[s], m) ELSE queue[s]]
    /\ missed' = [s \in Conn |-> IF s \in Subscribers /\ ~HasRoom(s)
                                   THEN missed[s] \cup {m} ELSE missed[s]]
    /\ UNCHANGED <<up, phase, snap, wire, open, faults>>

(* The process dies or is stopped: subscriptions and open sockets with it.   *)
ServerDown ==
    /\ up
    /\ FeedFault
    /\ up' = FALSE
    /\ StoreForget
    /\ phase' = [s \in Conn |-> "idle"]
    /\ queue' = [s \in Conn |-> <<>>]
    /\ snap' = [s \in Conn |-> NoRows]
    /\ open' = [s \in Conn |-> FALSE]
    /\ missed' = [s \in Conn |-> {}]
    /\ UNCHANGED wire

ServerUp ==
    /\ ~up
    /\ up' = TRUE
    /\ UNCHANGED <<storeVars, connVars, faults>>
------------------------------------------------------------------------------
(* positions_ws.                                                             *)

(* websocket.accept(), then broadcast.subscribe() without an await between.  *)
Accept(s) ==
    /\ up
    /\ phase[s] = "requested"
    /\ phase' = [phase EXCEPT ![s] = "subscribed"]
    /\ wire' = [wire EXCEPT ![s] = <<OpenFrame>>]
    /\ UNCHANGED <<storeVars, up, queue, snap, open, missed, faults>>

(* _snapshot in the executor: one SELECT.  What was committed before it is   *)
(* in the snapshot, however it was or will be announced.                     *)
ReadSnapshot(s) ==
    /\ phase[s] = "subscribed"
    /\ phase' = [phase EXCEPT ![s] = "snapped"]
    /\ snap' = [snap EXCEPT ![s] = current]
    /\ missed' = [missed EXCEPT ![s] = {}]
    /\ UNCHANGED <<storeVars, up, queue, wire, open, faults>>

(* finally: broadcast.unsubscribe(queue); the coroutine's state goes.        *)
Unsubscribe(s) ==
    /\ phase' = [phase EXCEPT ![s] = "idle"]
    /\ queue' = [queue EXCEPT ![s] = <<>>]
    /\ snap' = [snap EXCEPT ![s] = NoRows]
    /\ missed' = [missed EXCEPT ![s] = {}]

(* No database connection in time: the exception leaves positions_ws and the *)
(* server closes the socket.                                                 *)
SnapshotFails(s) ==
    /\ phase[s] = "subscribed"
    /\ FeedFault
    /\ Unsubscribe(s)
    /\ open' = [open EXCEPT ![s] = FALSE]
    /\ UNCHANGED <<storeVars, up, wire>>

Send(s, frame) ==
    /\ open[s] /\ Len(wire[s]) < WireMax
    /\ wire' = [wire EXCEPT ![s] = Append(@, frame)]

SendSnapshot(s) ==
    /\ phase[s] = "snapped"
    /\ Send(s, SnapshotFrame(snap[s]))
    /\ phase' = [phase EXCEPT ![s] = "live"]
    /\ UNCHANGED <<storeVars, up, queue, snap, open, missed, faults>>

(* send_json raises WebSocketDisconnect: only a send notices a gone client.  *)
SendFails(s) ==
    /\ ~open[s]
    /\ \/ phase[s] = "snapped"
       \/ phase[s] = "live" /\ queue[s] # <<>> /\ ~IsStale(Head(queue[s]), snap[s])
    /\ Unsubscribe(s)
    /\ UNCHANGED <<storeVars, up, wire, open, faults>>

(* queue.get(), _is_stale: continue.                                         *)
SkipStale(s) ==
    /\ phase[s] = "live" /\ queue[s] # <<>>
    /\ IsStale(Head(queue[s]), snap[s])
    /\ queue' = [queue EXCEPT ![s] = Tail(@)]
    /\ UNCHANGED <<storeVars, up, phase, snap, wire, open, missed, faults>>

(* queue.get(), send_json(envelope).                                         *)
Forward(s) ==
    /\ phase[s] = "live" /\ queue[s] # <<>>
    /\ ~IsStale(Head(queue[s]), snap[s])
    /\ Send(s, EnvelopeFrame(Head(queue[s])))
    /\ queue' = [queue EXCEPT ![s] = Tail(@)]
    /\ UNCHANGED <<storeVars, up, phase, snap, open, missed, faults>>

FeedNext ==
    \/ \E m \in Msg : EventCommitted(m) \/ EventCommittedSilently(m) \/ Publish(m)
    \/ ServerDown \/ ServerUp
    \/ \E s \in Conn :
          \/ Accept(s) \/ ReadSnapshot(s) \/ SnapshotFails(s)
          \/ SendSnapshot(s) \/ SendFails(s) \/ SkipStale(s) \/ Forward(s)
==============================================================================
