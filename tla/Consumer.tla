------------------------------ MODULE Consumer -------------------------------
(****************************************************************************)
(* The consumers of the queue (the one embedded in the backend, app.py, and *)
(* any number of standalone ones, consumer.py), the transaction they run    *)
(* (backend/repository/positions.py) and the parts of RabbitMQ, PostgreSQL  *)
(* and the connection pool they rely on.                                    *)
(*                                                                          *)
(* Each delivery is handled by a task of its own: `prefetch_count=10` lets  *)
(* ten of them run at once in each process, their database writes in        *)
(* executor threads.  The tasks keep running when the connection to the     *)
(* broker is lost, while the broker delivers the same messages again, to    *)
(* the same process or to another one.                                      *)
(****************************************************************************)
EXTENDS Positions, FiniteSets

CONSTANTS
    Process,    \* the processes that consume the queue
    Backend,    \* the one of app.py; the others run consumer.py
    Handler,    \* the tasks that can be alive at once
    Owner,      \* the process of a task
    Prefetch,   \* prefetch_count, per process
    PoolSize,   \* max_size of a process's connection pool
    Kind,       \* what the body of a message is
    MaxFaults   \* bound on the faults of a behaviour

Kinds == {"event",       \* a complete envelope
          "malformed",   \* not JSON
          "no_tag_id",   \* JSON object without payload.tag_id
          "not_object",  \* JSON, but not an object: envelope.get raises
          "unstorable"}  \* a key is missing or a value does not fit its column

(* Messages are numbered in the order the publisher sends them; there are    *)
(* finitely many processes, and tasks in them.                               *)
ASSUME ConsumerAssumption ==
    /\ Msg \subseteq Nat
    /\ IsFiniteSet(Process) /\ IsFiniteSet(Handler)
    /\ Kind \in [Msg -> Kinds]
    /\ Backend \in Process
    /\ Owner \in [Handler -> Process]
    /\ Prefetch \in Nat \ {0}
    /\ PoolSize \in Nat \ {0}
    /\ MaxFaults \in Nat
    /\ None \notin Handler

VARIABLES
    unsent,    \* messages the publisher has not sent yet
    ready,     \* messages in the queue, ready for delivery
    acked,     \* messages acknowledged and so forgotten by the broker
    lost,      \* messages unroutable or gone with a broker restart
    bound,     \* the durable queue exists and is bound to the exchange
    conn,      \* where _run_consumer, or main, of each process is
    stopping,  \* stop_event.is_set() of each process
    poolOpen,  \* its connection pool accepts requests
    pc,        \* where each handler task is
    job,       \* the message it handles
    live,      \* the broker still waits for this delivery's ack
    row,       \* the row its open transaction has written
    stored,    \* committed rows of position_events, per message
    current,   \* committed current_positions
    faults     \* faults so far

brokerVars  == <<unsent, ready, acked, lost, bound>>
processVars == <<conn, stopping, poolOpen>>
handlerVars == <<pc, job, live, row>>
dbVars      == <<stored, current>>
vars == <<brokerVars, processVars, handlerVars, dbVars, faults>>

Stages == {"idle", "writing", "inserted", "upserted", "committed", "done",
           "dropped", "failed"}
ConnStates == {"down", "connecting", "backoff", "consuming", "lost", "closed"}

(* Types; a task that is not idle has a message, a live delivery has a task, *)
(* and only the backend's tasks have something to broadcast.                 *)
TypeOK ==
    /\ unsent \subseteq Msg /\ ready \subseteq Msg
    /\ acked \subseteq Msg /\ lost \subseteq Msg
    /\ bound \in BOOLEAN
    /\ conn \in [Process -> ConnStates]
    /\ stopping \in [Process -> BOOLEAN]
    /\ poolOpen \in [Process -> BOOLEAN]
    /\ pc \in [Handler -> Stages]
    /\ job \in [Handler -> Row]
    /\ live \in [Handler -> BOOLEAN]
    /\ row \in [Handler -> Row]
    /\ stored \in [Msg -> Nat]
    /\ current \in [Tag -> Row]
    /\ faults \in 0..MaxFaults
    /\ \A h \in Handler : pc[h] # "idle" => job[h] \in Msg
    /\ \A h \in Handler : pc[h] = "upserted" => row[h] \in Msg
    /\ \A h \in Handler : live[h] => pc[h] # "idle"
    /\ \A h \in Handler : pc[h] = "committed" => Owner[h] = Backend

Init ==
    /\ unsent = Msg /\ ready = {} /\ acked = {} /\ lost = {}
    /\ bound = FALSE
    /\ conn = [p \in Process |-> "connecting"]
    /\ stopping = [p \in Process |-> FALSE]
    /\ poolOpen = [p \in Process |-> TRUE]
    /\ pc = [h \in Handler |-> "idle"]
    /\ job = [h \in Handler |-> None]
    /\ live = [h \in Handler |-> FALSE]
    /\ row = [h \in Handler |-> None]
    /\ stored = [m \in Msg |-> 0]
    /\ current = [t \in Tag |-> None]
    /\ faults = 0

Fault == faults < MaxFaults /\ faults' = faults + 1

(* Deliveries the broker waits for, of a process and of all.                 *)
InFlightOf(p) == {h \in Handler : live[h] /\ Owner[h] = p}
InFlight == {h \in Handler : live[h]}
Unacked  == {job[h] : h \in InFlight}

IsOldest(m, S) == m \in S /\ \A n \in S : m <= n
------------------------------------------------------------------------------
(* RabbitMQ.                                                                 *)

(* RabbitMQPublisher._publish: a message without a bound queue is dropped.   *)
Arrive(m) ==
    /\ IsOldest(m, unsent)
    /\ unsent' = unsent \ {m}
    /\ IF bound THEN ready' = ready \cup {m} /\ UNCHANGED lost
                ELSE lost' = lost \cup {m} /\ UNCHANGED ready
    /\ UNCHANGED <<acked, bound, processVars, handlerVars, dbVars, faults>>

(* The queue is durable, the messages (delivery_mode left at its default)    *)
(* are not: a restart loses the waiting and the unacknowledged ones.         *)
BrokerRestart ==
    /\ Fault
    /\ lost' = lost \cup ready \cup Unacked
    /\ ready' = {}
    /\ live' = [h \in Handler |-> FALSE]
    /\ conn' = [p \in Process |-> IF conn[p] = "consuming" THEN "lost" ELSE conn[p]]
    /\ UNCHANGED <<unsent, acked, bound, stopping, poolOpen, pc, job, row, dbVars>>

(* Mutant: the old deliveries stay outstanding.                              *)
OutstandingKept(p) == live

(* The deliveries that are still owed once the channel of p is gone.         *)
Outstanding(p) == [h \in Handler |-> live[h] /\ Owner[h] # p]

(* The broker takes back what was not acknowledged on a channel that is gone *)
ChannelGone(p) ==
    /\ ready' = ready \cup {job[h] : h \in InFlightOf(p)}
    /\ live' = Outstanding(p)
------------------------------------------------------------------------------
(* _run_consumer and _lifespan of app.py; main of consumer.py.               *)

Conn(p, from, to) == conn[p] \in from /\ conn' = [conn EXCEPT ![p] = to]

(* connect_robust .. queue.consume: the queue is declared and bound.         *)
ConnectOk(p) ==
    /\ Conn(p, {"connecting"}, "consuming")
    /\ bound' = TRUE
    /\ UNCHANGED <<unsent, ready, acked, lost, stopping, poolOpen, handlerVars,
                   dbVars, faults>>

(* Any of those calls raises, the binding made or not: the task waits        *)
(* _CONSUMER_RETRY_DELAY, and only then closes what it had opened; the       *)
(* exception ends a standalone consumer, whose handlers have not begun.      *)
ConnectFails(p) ==
    /\ Conn(p, {"connecting"}, IF p = Backend THEN "backoff" ELSE "down")
    /\ Fault
    /\ bound' \in {bound, TRUE}
    /\ UNCHANGED <<unsent, ready, acked, lost, stopping, poolOpen, handlerVars,
                   dbVars>>

(* Mutant: the loop waits again instead of connecting again.                 *)
WaitsAgain(p) == IF stopping[p] THEN "closed" ELSE "backoff"

(* stop_event was set: break; TimeoutError: continue.                        *)
AfterDelay(p) == IF stopping[p] THEN "closed" ELSE "connecting"

RetryDelayOver(p) ==
    /\ Conn(p, {"backoff"}, AfterDelay(p))
    /\ UNCHANGED <<brokerVars, stopping, poolOpen, handlerVars, dbVars, faults>>

ConnectionLost(p) ==
    /\ Conn(p, {"consuming"}, "lost")
    /\ Fault
    /\ ChannelGone(p)
    /\ UNCHANGED <<unsent, acked, lost, bound, stopping, poolOpen, pc, job, row,
                   dbVars>>

(* connect_robust restores the channel, the queue and its consumer.          *)
Reconnect(p) ==
    /\ Conn(p, {"lost"}, "consuming")
    /\ UNCHANGED <<brokerVars, stopping, poolOpen, handlerVars, dbVars, faults>>

(* stop_event.set()                                                          *)
Shutdown(p) ==
    /\ conn[p] # "down" /\ ~stopping[p]
    /\ Fault
    /\ stopping' = [stopping EXCEPT ![p] = TRUE]
    /\ UNCHANGED <<brokerVars, conn, poolOpen, handlerVars, dbVars>>

(* stop_event.wait() returned: break, and finally (or the end of `async with *)
(* connection`) closes the connection without waiting for the handlers.      *)
CloseConsumer(p) ==
    /\ Conn(p, {"consuming", "lost"}, "closed")
    /\ stopping[p]
    /\ ChannelGone(p)
    /\ UNCHANGED <<unsent, acked, lost, bound, stopping, poolOpen, pc, job, row,
                   dbVars, faults>>

(* `await consumer_task` returned; pool.close().                             *)
ClosePool(p) ==
    /\ conn[p] = "closed" /\ poolOpen[p]
    /\ poolOpen' = [poolOpen EXCEPT ![p] = FALSE]
    /\ UNCHANGED <<brokerVars, conn, stopping, handlerVars, dbVars, faults>>

Cleared(f, p, empty) == [h \in Handler |-> IF Owner[h] = p THEN empty ELSE f[h]]

ProcessEnds(p) ==
    /\ conn' = [conn EXCEPT ![p] = "down"]
    /\ ChannelGone(p)
    /\ pc' = Cleared(pc, p, "idle")
    /\ job' = Cleared(job, p, None)
    /\ row' = Cleared(row, p, None)
    /\ UNCHANGED <<unsent, acked, lost, bound, stopping, poolOpen, dbVars>>

(* The event loop ends once the executor threads have: tasks still waiting   *)
(* to broadcast or to acknowledge are cancelled.                             *)
Exit(p) ==
    /\ conn[p] = "closed" /\ ~poolOpen[p]
    /\ \A h \in Handler :
          Owner[h] = p => pc[h] \notin {"writing", "inserted", "upserted"}
    /\ ProcessEnds(p)
    /\ UNCHANGED faults

(* The process dies; PostgreSQL rolls its open transactions back.            *)
Crash(p) ==
    /\ conn[p] # "down"
    /\ Fault
    /\ ProcessEnds(p)

(* The operator starts the process again.                                    *)
Start(p) ==
    /\ Conn(p, {"down"}, "connecting")
    /\ stopping' = [stopping EXCEPT ![p] = FALSE]
    /\ poolOpen' = [poolOpen EXCEPT ![p] = TRUE]
    /\ UNCHANGED <<brokerVars, handlerVars, dbVars, faults>>
------------------------------------------------------------------------------
(* _on_message, one task per delivery.                                       *)

(* Where json.loads, envelope.get("payload") and the tag_id check lead.      *)
Decoded(m) ==
    CASE Kind[m] \in {"malformed", "no_tag_id"}   -> "dropped"
      [] Kind[m] = "not_object"                   -> "failed"
      [] OTHER                                    -> "writing"

(* The broker pushes the oldest ready message while the channel has room     *)
(* under set_qos (a requeued message returns to its old place in the queue). *)
Deliver(h, m) ==
    /\ conn[Owner[h]] = "consuming"
    /\ pc[h] = "idle"
    /\ Cardinality(InFlightOf(Owner[h])) < Prefetch
    /\ IsOldest(m, ready)
    /\ ready' = ready \ {m}
    /\ pc' = [pc EXCEPT ![h] = Decoded(m)]
    /\ job' = [job EXCEPT ![h] = m]
    /\ live' = [live EXCEPT ![h] = TRUE]
    /\ UNCHANGED <<unsent, acked, lost, bound, processVars, row, dbVars, faults>>

To(h, stage) ==
    /\ pc' = [pc EXCEPT ![h] = stage]
    /\ UNCHANGED <<brokerVars, processVars, job, live>>

(* Mutant: the exception of the write is logged and not raised again.        *)
ExceptSwallows(h) == To(h, "done")

(* `except Exception: ... raise`                                             *)
ExceptRaises(h) == To(h, "failed")

(* The connections of its pool that process p has borrowed.                  *)
Borrowed(p) == {h \in Handler : Owner[h] = p /\ pc[h] \in {"inserted", "upserted"}}

(* get_connection and insert_position_event: seen by nobody until commit.    *)
Insert(h) ==
    /\ pc[h] = "writing" /\ poolOpen[Owner[h]]
    /\ Cardinality(Borrowed(Owner[h])) < PoolSize
    /\ Kind[job[h]] # "unstorable"
    /\ To(h, "inserted")
    /\ UNCHANGED <<row, dbVars, faults>>

(* _extract_params or PostgreSQL refuses the values, or the pool is closed.  *)
WriteRefused(h) ==
    /\ pc[h] = "writing"
    /\ Kind[job[h]] = "unstorable" \/ ~poolOpen[Owner[h]]
    /\ ExceptRaises(h)
    /\ UNCHANGED <<row, dbVars, faults>>

(* Mutant: the row is written without a lock.                                *)
RowUnlocked(t) == TRUE

(* No other transaction has written the row of this tag.                     *)
RowFree(t) == \A g \in Handler : pc[g] = "upserted" => TagOf[job[g]] # t

(* upsert_current_position waits for the row lock of any other transaction   *)
(* that has written this tag, then sees its committed row.                   *)
UpsertRow(h) ==
    LET t == TagOf[job[h]] IN
    /\ pc[h] = "inserted"
    /\ RowFree(t)
    /\ row' = [row EXCEPT ![h] = Upsert(current[t], job[h])]
    /\ To(h, "upserted")
    /\ UNCHANGED <<dbVars, faults>>

(* Both tables change at once and the row lock is released.                  *)
CommitApplied(h) ==
    LET m == job[h] IN
    /\ pc[h] = "upserted"
    /\ stored' = [stored EXCEPT ![m] = @ + 1]
    /\ current' = [current EXCEPT ![TagOf[m]] = row[h]]
    /\ row' = [row EXCEPT ![h] = None]

(* The backend's task goes on to the broadcast, a standalone one is done.    *)
Commit(h) ==
    /\ CommitApplied(h)
    /\ To(h, IF Owner[h] = Backend THEN "committed" ELSE "done")
    /\ UNCHANGED faults

(* connection.commit() raises although the server committed.                 *)
CommitUnknown(h) ==
    /\ CommitApplied(h)
    /\ ExceptRaises(h)
    /\ Fault

(* No connection within _POOL_TIMEOUT, or the transaction is rolled back.    *)
WriteFails(h) ==
    /\ pc[h] \in {"writing", "inserted", "upserted"}
    /\ Fault
    /\ row' = [row EXCEPT ![h] = None]
    /\ ExceptRaises(h)
    /\ UNCHANGED dbVars

(* broadcast.publish has no await inside: one step.                          *)
Publish(h) ==
    /\ pc[h] = "committed"
    /\ To(h, "done")
    /\ UNCHANGED <<row, dbVars, faults>>

(* Mutants: nack on success; the delivery is not settled; requeue=False.     *)
AckRequeues(h) ==
    /\ ready' = IF live[h] THEN ready \cup {job[h]} ELSE ready
    /\ live' = [live EXCEPT ![h] = FALSE]
    /\ UNCHANGED acked

AckForgotten(h) == UNCHANGED <<acked, ready, live>>

(* What ack and reject mean to the broker: nothing if the channel is gone.   *)
BrokerAck(h) ==
    /\ acked' = IF live[h] THEN acked \cup {job[h]} ELSE acked
    /\ live' = [live EXCEPT ![h] = FALSE]
    /\ UNCHANGED ready

RequeueDrops(h) == BrokerAck(h)

BrokerRequeue(h) ==
    /\ ready' = IF live[h] THEN ready \cup {job[h]} ELSE ready
    /\ live' = [live EXCEPT ![h] = FALSE]
    /\ UNCHANGED acked

Finished(h) ==
    /\ pc' = [pc EXCEPT ![h] = "idle"]
    /\ job' = [job EXCEPT ![h] = None]
    /\ UNCHANGED <<unsent, lost, bound, processVars, row, dbVars, faults>>

(* message.process exits normally.                                           *)
Ack(h) ==
    /\ pc[h] \in {"done", "dropped"}
    /\ BrokerAck(h)
    /\ Finished(h)

(* message.process(requeue=True) exits with an exception: reject.            *)
Reject(h) ==
    /\ pc[h] = "failed"
    /\ BrokerRequeue(h)
    /\ Finished(h)
------------------------------------------------------------------------------
Lifecycle(p) ==
    \/ ConnectOk(p) \/ ConnectFails(p) \/ RetryDelayOver(p)
    \/ ConnectionLost(p) \/ Reconnect(p)
    \/ Shutdown(p) \/ CloseConsumer(p) \/ ClosePool(p)
    \/ Exit(p) \/ Crash(p) \/ Start(p)

Task(h) ==
    \/ Insert(h) \/ WriteRefused(h) \/ UpsertRow(h)
    \/ Commit(h) \/ CommitUnknown(h) \/ WriteFails(h)
    \/ Publish(h) \/ Ack(h) \/ Reject(h)

Next ==
    \/ \E m \in Msg : Arrive(m)
    \/ BrokerRestart
    \/ \E p \in Process : Lifecycle(p)
    \/ \E h \in Handler, m \in Msg : Deliver(h, m)
    \/ \E h \in Handler : Task(h)

Spec == Init /\ [][Next]_vars

(* Started work is finished: the event loop runs ready tasks, a robust       *)
(* connection keeps reconnecting, PostgreSQL answers.  The broker pushes     *)
(* every message it has room for without waiting for the consumer, so a      *)
(* message that is deliverable again and again is delivered (strong          *)
(* fairness).  Faults, shutdown and restart are never forced.                *)
Progress(h) ==
    \/ Insert(h) \/ WriteRefused(h) \/ UpsertRow(h) \/ Commit(h)
    \/ Publish(h) \/ Ack(h) \/ Reject(h)

Fairness ==
    /\ \A p \in Process :
          /\ WF_vars(ConnectOk(p) \/ RetryDelayOver(p) \/ Reconnect(p) \/ CloseConsumer(p))
          /\ WF_vars(ClosePool(p)) /\ WF_vars(Exit(p))
    /\ \A h \in Handler : WF_vars(Progress(h))
    /\ \A m \in Msg : SF_vars(\E h \in Handler : Deliver(h, m))

FairSpec == Spec /\ Fairness
------------------------------------------------------------------------------
(* Recency.  The two tables agree: the row of a tag is one of the committed  *)
(* events with the newest timestamp, whatever the order in which concurrent  *)
(* handlers insert, update and commit (upsert_current_position.sql).         *)
Stored == {m \in Msg : stored[m] > 0}

CurrentIsLatest ==
    \A t \in Tag :
        LET S == {m \in Stored : TagOf[m] = t} IN
        IF current[t] = None
          THEN S = {}
          ELSE current[t] \in S /\ \A m \in S : TsOf[m] <= TsOf[current[t]]

(* No loss on the consumer's side.  An event the broker has forgotten by an  *)
(* ack is in the database (_on_message acks only after commit).              *)
AckedIsStored == \A m \in acked : Kind[m] \in {"event", "unstorable"} => m \in Stored

(* Why the two invariants above are inductive.  The row an open transaction  *)
(* has written is the one the UPSERT would write at its commit, because the  *)
(* row lock keeps every other transaction off its tag; and a task that will  *)
(* ack an event has committed it.                                            *)
RowLocks ==
    /\ \A h \in Handler :
          pc[h] = "upserted" => row[h] = Upsert(current[TagOf[job[h]]], job[h])
    /\ \A g, h \in Handler :
          pc[g] = "upserted" /\ pc[h] = "upserted" /\ g # h =>
              TagOf[job[g]] # TagOf[job[h]]

CommitBeforeAck ==
    \A h \in Handler :
        /\ pc[h] \in {"committed", "done"} => job[h] \in Stored
        /\ pc[h] = "dropped" => Kind[job[h]] \notin {"event", "unstorable"}

(* What is neither acked nor lost by the broker is unsent, queued or owed to *)
(* exactly one delivery: requeueing (message.process) neither forgets nor    *)
(* doubles a message, whatever happens to the connection meanwhile.          *)
OneHolder ==
    /\ \A m \in Msg :
          /\ m \in unsent => m \notin ready \cup acked \cup lost \cup Unacked
          /\ m \in ready  => m \notin acked \cup lost \cup Unacked
          /\ m \in acked  => m \notin lost \cup Unacked
          /\ m \in lost   => m \notin Unacked
          /\ m \in unsent \cup ready \cup acked \cup lost \cup Unacked
    /\ \A g, h \in InFlight : job[g] = job[h] => g = h

(* At-least-once, and no worse than the faults make it: each crash, lost     *)
(* connection, shutdown or unclear commit adds at most one more row for the  *)
(* message in position_events.                                               *)
DuplicatesNeedFaults == \A m \in Msg : stored[m] <= 1 + faults

(* A row of current_positions never goes away and never moves back in time.  *)
CurrentMovesForward ==
    [][\A t \in Tag : AtLeast(current'[t], current[t])]_vars

(* The consumer implements the abstract store: a transaction that computed   *)
(* its row before another one committed still takes effect atomically.       *)
Store == INSTANCE PositionStore
            WITH pending <- {job[h] : h \in {g \in Handler : pc[g] = "committed"}}
ImplementsStore == Store!StoreSpec

(* As long as fewer messages than Prefetch are refused forever, every event  *)
(* that reaches the queue is handled, unless the broker loses it or no       *)
(* consumer runs: tasks that hold a pooled connection and wait for a row     *)
(* never wait for tasks that wait for a connection, and any one of the       *)
(* processes is enough.                                                      *)
EventsSettle ==
    \A m \in Msg :
        (m \in ready /\ Kind[m] = "event") ~> 
            (m \in acked \cup lost \/ \A p \in Process : conn[p] = "down")
==============================================================================
