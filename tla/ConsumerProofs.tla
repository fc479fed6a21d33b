---------------------------- MODULE ConsumerProofs ---------------------------
(****************************************************************************)
(* Theorems about Consumer.tla for every number of processes, messages,     *)
(* tags, tasks and faults.                                                  *)
(****************************************************************************)
EXTENDS Consumer, FiniteSetTheorems, TLAPS

(* What the broker takes back when a channel goes is messages, never None.   *)
LEMMA UnackedAreMessages == ASSUME TypeOK PROVE Unacked \subseteq Msg
BY DEF TypeOK, Unacked, InFlight, Row

(* A channel that goes leaves fewer deliveries outstanding.                  *)
LEMMA ChannelGoneType ==
    ASSUME TypeOK, NEW p \in Process, ChannelGone(p)
    PROVE  /\ ready' \subseteq Msg
           /\ live' \in [Handler -> BOOLEAN]
           /\ \A h \in Handler : live'[h] <=> live[h] /\ Owner[h] # p
<1>1. \A h \in InFlightOf(p) : job[h] \in Msg
  BY DEF TypeOK, InFlightOf
<1>2. ready' \subseteq Msg
  BY <1>1 DEF ChannelGone, TypeOK
<1>3. live' = [h \in Handler |-> live[h] /\ Owner[h] # p]
  BY DEF ChannelGone, Outstanding
<1>4. \A h \in Handler : (live[h] /\ Owner[h] # p) \in BOOLEAN
  OBVIOUS
<1>5. live' \in [Handler -> BOOLEAN]
  BY <1>3, <1>4
<1>6. \A h \in Handler : live'[h] <=> live[h] /\ Owner[h] # p
  BY <1>3
<1> QED BY <1>2, <1>5, <1>6

(* A row after the UPSERT is the old row or the new event.                   *)
LEMMA UpsertType ==
    ASSUME NEW r \in Row, NEW m \in Msg PROVE Upsert(r, m) \in Msg
BY DEF Upsert, Row

(* The fault budget is never exceeded.                                       *)
LEMMA FaultType == ASSUME TypeOK, Fault PROVE faults' \in 0..MaxFaults
BY ConsumerAssumption DEF TypeOK, Fault

(* Every step of the consumer keeps every variable in its type.              *)
LEMMA TypeStep == ASSUME TypeOK, [Next]_vars PROVE TypeOK'
<1> USE PositionsAssumption, ConsumerAssumption
<1> USE DEF TypeOK, brokerVars, processVars, handlerVars, dbVars
<1>1. ASSUME NEW m \in Msg, Arrive(m) PROVE TypeOK'
  BY <1>1 DEF Arrive, IsOldest
<1>2. CASE BrokerRestart
  BY <1>2, UnackedAreMessages, FaultType DEF BrokerRestart, ConnStates
<1>3. ASSUME NEW p \in Process,
             ConnectOk(p) \/ ConnectFails(p) \/ RetryDelayOver(p) \/ Reconnect(p) PROVE TypeOK'
  BY <1>3, FaultType 
  DEF ConnectOk, ConnectFails, RetryDelayOver, AfterDelay, Reconnect, Conn, ConnStates
<1>4. ASSUME NEW p \in Process, Shutdown(p) \/ ClosePool(p) \/ Start(p) PROVE TypeOK'
  BY <1>4, FaultType DEF Shutdown, ClosePool, Start, Conn, ConnStates
<1>5. ASSUME NEW p \in Process, ConnectionLost(p) \/ CloseConsumer(p) PROVE TypeOK'
  <2>1. ChannelGone(p)
    BY <1>5 DEF ConnectionLost, CloseConsumer
  <2>2. conn' \in [Process -> ConnStates] /\ faults' \in 0..MaxFaults
    BY <1>5, FaultType DEF ConnectionLost, CloseConsumer, Conn, ConnStates
  <2> QED BY <1>5, <2>1, <2>2, ChannelGoneType, ZenonT(60) DEF ConnectionLost, CloseConsumer
<1>6. ASSUME NEW p \in Process, Exit(p) \/ Crash(p) PROVE TypeOK'
  <2>1. ProcessEnds(p) /\ ChannelGone(p)
    BY <1>6 DEF Exit, Crash, ProcessEnds, Cleared
  <2>2. /\ pc' \in [Handler -> Stages] /\ job' \in [Handler -> Row]
        /\ row' \in [Handler -> Row]
    BY <2>1 DEF ProcessEnds, Cleared, Stages, Row
  <2>3. \A h \in Handler :
           /\ Owner[h] = p => pc'[h] = "idle"
           /\ Owner[h] # p => pc'[h] = pc[h] /\ job'[h] = job[h] /\ row'[h] = row[h]
    BY <2>1 DEF ProcessEnds, Cleared
  <2>4. conn' \in [Process -> ConnStates] /\ faults' \in 0..MaxFaults
    BY <1>6, <2>1, FaultType DEF Exit, Crash, ProcessEnds, ConnStates
  <2> QED BY <2>1, <2>2, <2>3, <2>4, ChannelGoneType DEF ProcessEnds
<1>7. ASSUME NEW h \in Handler, NEW m \in Msg, Deliver(h, m) PROVE TypeOK'
  BY <1>7 DEF Deliver, Decoded, Stages, Kinds, Row
<1>8. ASSUME NEW h \in Handler, Insert(h) \/ WriteRefused(h) \/ Publish(h) PROVE TypeOK'
  BY <1>8, ZenonT(60) DEF Insert, WriteRefused, ExceptRaises, Publish, To, Stages
<1>9. ASSUME NEW h \in Handler, UpsertRow(h) PROVE TypeOK'
  <2>1. /\ job[h] \in Msg
        /\ current[TagOf[job[h]]] \in Row
    BY <1>9 DEF UpsertRow
  <2>2. Upsert(current[TagOf[job[h]]], job[h]) \in Msg
    BY <2>1, UpsertType
  <2> QED BY <1>9, <2>2 DEF UpsertRow, To, Stages, Row
<1>10. ASSUME NEW h \in Handler, Commit(h) \/ CommitUnknown(h) PROVE TypeOK'
  <2>1. /\ job[h] \in Msg
        /\ row[h] \in Msg
        /\ CommitApplied(h)
    BY <1>10 DEF Commit, CommitUnknown, CommitApplied
  <2>2. /\ current' \in [Tag -> Row]
        /\ row' \in [Handler -> Row]
    BY <2>1 DEF CommitApplied, Row
  <2>3. stored' \in [Msg -> Nat]
    <3>1. \A n \in Nat : n + 1 \in Nat
      OBVIOUS
    <3>2. stored[job[h]] \in Nat
      BY <2>1
    <3> QED BY <2>1, <3>1, <3>2 DEF CommitApplied
  <2>4. \A g \in Handler : pc'[g] = "upserted" => row'[g] \in Msg
    BY <1>10, <2>1 DEF Commit, CommitUnknown, CommitApplied, ExceptRaises, To, Stages
  <2> QED BY <1>10, <2>1, <2>2, <2>3, <2>4, FaultType, ZenonT(60)
          DEF Commit, CommitUnknown, ExceptRaises, To, Stages
<1>11. ASSUME NEW h \in Handler, WriteFails(h) PROVE TypeOK'
  BY <1>11, FaultType DEF WriteFails, ExceptRaises, To, Stages, Row
<1>12. ASSUME NEW h \in Handler, Ack(h) \/ Reject(h) PROVE TypeOK'
  <2>1. job[h] \in Msg
    BY <1>12 DEF Ack, Reject
  <2>2. acked' \subseteq Msg /\ ready' \subseteq Msg
    BY <1>12, <2>1 DEF Ack, Reject, BrokerAck, BrokerRequeue
  <2>3. Finished(h)
    BY <1>12 DEF Ack, Reject
  <2>4. /\ pc' \in [Handler -> Stages] /\ job' \in [Handler -> Row]
        /\ live' = [live EXCEPT ![h] = FALSE]
    BY <1>12, <2>3 DEF Finished, Ack, Reject, BrokerAck, BrokerRequeue, Stages, Row
  <2>5. \A g \in Handler : /\ pc'[g] # "idle" => job'[g] \in Msg
                           /\ pc'[g] = "upserted" => row'[g] \in Msg
                           /\ live'[g] => pc'[g] # "idle"
                           /\ pc'[g] = "committed" => pc[g] = "committed"
    BY <2>3, <2>4 DEF Finished
  <2> QED BY <2>2, <2>3, <2>4, <2>5 DEF Finished
<1>13. CASE UNCHANGED vars
  BY <1>13 DEF vars
<1> QED
  BY <1>1, <1>2, <1>3, <1>4, <1>5, <1>6, <1>7, <1>8, <1>9, <1>10, <1>11, <1>12, <1>13
  DEF Next, Lifecycle, Task

(* Type correctness, for every instance.                                     *)
THEOREM TypeCorrect == Spec => []TypeOK
<1>1. 0 \in 0..MaxFaults
  BY ConsumerAssumption
<1>2. Init => TypeOK
  <2> SUFFICES ASSUME Init PROVE TypeOK
    OBVIOUS
  <2>1. stored \in [Msg -> Nat]
    BY DEF Init
  <2>2. /\ pc \in [Handler -> Stages]
        /\ live \in [Handler -> BOOLEAN]
        /\ job \in [Handler -> Row] /\ row \in [Handler -> Row]
        /\ current \in [Tag -> Row]
    BY DEF Init, Stages, Row
  <2>3. /\ conn \in [Process -> ConnStates]
        /\ stopping \in [Process -> BOOLEAN]
        /\ poolOpen \in [Process -> BOOLEAN]
    BY DEF Init, ConnStates
  <2>4. \A h \in Handler : pc[h] = "idle" /\ ~live[h]
    BY DEF Init
  <2> QED BY <1>1, <2>1, <2>2, <2>3, <2>4 DEF Init, TypeOK
<1> QED
  BY <1>2, TypeStep, PTL DEF Spec
------------------------------------------------------------------------------
(* The open transactions, their rows and their locks.                        *)
TxUnchanged ==
    \A h \in Handler :
        pc'[h] = "upserted" => pc[h] = "upserted" /\ job'[h] = job[h] /\ row'[h] = row[h]

(* A step takes a row lock, commits, or leaves both tables alone and opens   *)
(* or changes no transaction.                                                *)
LEMMA DatabaseSteps ==
    ASSUME TypeOK, [Next]_vars
    PROVE  \/ UNCHANGED dbVars /\ TxUnchanged
           \/ \E h \in Handler : UpsertRow(h)
           \/ \E h \in Handler : Commit(h) \/ CommitUnknown(h)
<1> USE DEF TypeOK, TxUnchanged, brokerVars, processVars, handlerVars
<1>1. ASSUME NEW m \in Msg, Arrive(m) PROVE UNCHANGED dbVars /\ TxUnchanged
  BY <1>1 DEF Arrive
<1>2. CASE BrokerRestart
  BY <1>2 DEF BrokerRestart
<1>3. ASSUME NEW p \in Process,
             ConnectOk(p) \/ ConnectFails(p) \/ RetryDelayOver(p) \/ Reconnect(p) PROVE UNCHANGED dbVars /\ TxUnchanged
  BY <1>3 DEF ConnectOk, ConnectFails, RetryDelayOver, Reconnect, Conn
<1>4. ASSUME NEW p \in Process, Shutdown(p) \/ ClosePool(p) \/ Start(p) PROVE UNCHANGED dbVars /\ TxUnchanged
  BY <1>4 DEF Shutdown, ClosePool, Start, Conn
<1>5. ASSUME NEW p \in Process, ConnectionLost(p) \/ CloseConsumer(p) PROVE UNCHANGED dbVars /\ TxUnchanged
  BY <1>5 DEF ConnectionLost, CloseConsumer
<1>6. ASSUME NEW p \in Process, Exit(p) \/ Crash(p) PROVE UNCHANGED dbVars /\ TxUnchanged
  BY <1>6 DEF Exit, Crash, ProcessEnds, Cleared
<1>7. ASSUME NEW h \in Handler, NEW m \in Msg, Deliver(h, m)
      PROVE  UNCHANGED dbVars /\ TxUnchanged
  BY <1>7 DEF Deliver, Decoded
<1>8. ASSUME NEW h \in Handler, Insert(h) \/ WriteRefused(h) \/ Publish(h) \/ WriteFails(h)
      PROVE  UNCHANGED dbVars /\ TxUnchanged
  BY <1>8 DEF Insert, WriteRefused, ExceptRaises, Publish, WriteFails, To
<1>9. ASSUME NEW h \in Handler, Ack(h) \/ Reject(h)
      PROVE  UNCHANGED dbVars /\ TxUnchanged
  BY <1>9 DEF Ack, Reject, Finished, BrokerAck, BrokerRequeue
<1>10. CASE UNCHANGED vars
  BY <1>10 DEF vars
<1> QED
  BY <1>1, <1>2, <1>3, <1>4, <1>5, <1>6, <1>7, <1>8, <1>9, <1>10
  DEF Next, Lifecycle, Task

(* Both kinds of commit, with the effect on the transactions spelled out.    *)
LEMMA CommitEffect ==
    ASSUME TypeOK, RowLocks, NEW h \in Handler, Commit(h) \/ CommitUnknown(h)
    PROVE  /\ job[h] \in Msg
           /\ TagOf[job[h]] \in Tag
           /\ Stored' = Stored \cup {job[h]}
           /\ current' = [current EXCEPT ![TagOf[job[h]]] = Upsert(@, job[h])]
           /\ pc'[h] # "upserted"
           /\ \A g \in Handler \ {h} :
                 pc'[g] = pc[g] /\ job'[g] = job[g] /\ row'[g] = row[g]
<1>1. /\ job[h] \in Msg
      /\ TagOf[job[h]] \in Tag
      /\ CommitApplied(h)
  BY PositionsAssumption DEF TypeOK, Commit, CommitUnknown, CommitApplied
<1>2. Stored' = Stored \cup {job[h]}
  <2>1. stored' = [stored EXCEPT ![job[h]] = stored[job[h]] + 1]
    BY <1>1 DEF CommitApplied
  <2>2. \A n \in Nat : n + 1 > 0
    OBVIOUS
  <2>3. \A m \in Msg : stored'[m] > 0 <=> (m = job[h] \/ stored[m] > 0)
    BY <1>1, <2>1, <2>2 DEF TypeOK
  <2> QED BY <1>1, <2>3 DEF Stored
<1>3. current' = [current EXCEPT ![TagOf[job[h]]] = Upsert(@, job[h])]
  BY <1>1 DEF CommitApplied, RowLocks, TypeOK
<1>4. /\ pc'[h] # "upserted"
      /\ \A g \in Handler \ {h} :
            pc'[g] = pc[g] /\ job'[g] = job[g] /\ row'[g] = row[g]
  BY <1>1 DEF Commit, CommitUnknown, CommitApplied, ExceptRaises, To, TypeOK
<1> QED BY <1>1, <1>2, <1>3, <1>4

(* The row lock argument is inductive.                                       *)
LEMMA RowLocksStep ==
    ASSUME TypeOK, RowLocks, [Next]_vars PROVE RowLocks'
<1>1. CASE UNCHANGED dbVars /\ TxUnchanged
  BY <1>1 DEF RowLocks, TxUnchanged, dbVars, TypeOK, Upsert
<1>2. ASSUME NEW h \in Handler, UpsertRow(h) PROVE RowLocks'
  BY <1>2 DEF RowLocks, UpsertRow, RowFree, To, dbVars, TypeOK, Upsert
<1>3. ASSUME NEW h \in Handler, Commit(h) \/ CommitUnknown(h) PROVE RowLocks'
  <2>1. pc[h] = "upserted"
    BY <1>3 DEF Commit, CommitUnknown, CommitApplied
  <2>2. ASSUME NEW g \in Handler, pc'[g] = "upserted"
        PROVE  /\ g # h /\ pc[g] = "upserted" /\ job'[g] = job[g] /\ row'[g] = row[g]
               /\ TagOf[job[g]] # TagOf[job[h]]
               /\ TagOf[job[g]] \in Tag
    BY <1>3, <2>1, <2>2, CommitEffect, PositionsAssumption DEF RowLocks, TypeOK
  <2>3. ASSUME NEW g \in Handler, pc'[g] = "upserted"
        PROVE  row'[g] = Upsert(current[TagOf[job[g]]], job[g])'
    <3>1. current'[TagOf[job[g]]] = current[TagOf[job[g]]]
      BY <1>3, <2>2, <2>3, CommitEffect DEF TypeOK
    <3> QED BY <2>2, <2>3, <3>1 DEF RowLocks, Upsert
  <2> QED BY <2>2, <2>3 DEF RowLocks
<1> QED BY <1>1, <1>2, <1>3, DatabaseSteps

(* The UPSERT keeps the newest committed event.                              *)
LEMMA LatestStep ==
    ASSUME TypeOK, RowLocks, CurrentIsLatest, [Next]_vars PROVE CurrentIsLatest'
<1>1. CASE UNCHANGED dbVars
  BY <1>1 DEF CurrentIsLatest, Stored, dbVars
<1>2. ASSUME NEW h \in Handler, Commit(h) \/ CommitUnknown(h) PROVE CurrentIsLatest'
  <2> DEFINE m == job[h]
  <2>1. /\ m \in Msg /\ TagOf[m] \in Tag
        /\ Stored' = Stored \cup {m}
        /\ current' = [current EXCEPT ![TagOf[m]] = Upsert(@, m)]
    BY <1>2, CommitEffect
  <2>2. Stored \subseteq Msg
    BY DEF Stored
  <2> HIDE DEF m
  <2> SUFFICES ASSUME NEW t \in Tag
               PROVE  LET S == {n \in Stored' : TagOf[n] = t} IN
                      IF current'[t] = None
                        THEN S = {}
                        ELSE current'[t] \in S /\ \A n \in S : TsOf[n] <= TsOf[current'[t]]
    BY DEF CurrentIsLatest
  <2>3. CASE t # TagOf[m]
    BY <2>1, <2>3 DEF CurrentIsLatest, TypeOK
  <2>4. CASE t = TagOf[m]
    <3>1. current'[t] = Upsert(current[t], m)
      BY <2>1, <2>4 DEF TypeOK
    <3>2. current[t] \in Row
      BY DEF TypeOK
    <3>3. \A n \in Msg : TsOf[n] \in Int
      BY PositionsAssumption
    <3>4. CASE current[t] = None
      BY <2>1, <2>2, <2>4, <3>1, <3>3, <3>4, PositionsAssumption DEF Upsert, CurrentIsLatest
    <3>5. CASE current[t] # None
      BY <2>1, <2>2, <2>4, <3>1, <3>2, <3>3, <3>5, PositionsAssumption
      DEF Upsert, CurrentIsLatest, Row
    <3> QED BY <3>4, <3>5
  <2> QED BY <2>3, <2>4
<1>3. ASSUME NEW h \in Handler, UpsertRow(h) PROVE UNCHANGED dbVars
  BY <1>3 DEF UpsertRow
<1> QED BY <1>1, <1>2, <1>3, DatabaseSteps

(* current_positions holds, for every tag, a committed event with the newest *)
(* timestamp of all committed events of the tag (the recency guard of        *)
(* upsert_current_position.sql under concurrent handlers).                   *)
THEOREM RecencyTheorem == Spec => []CurrentIsLatest
<1>1. Init => RowLocks /\ CurrentIsLatest
  BY DEF Init, RowLocks, CurrentIsLatest, Stored
<1>2. TypeOK /\ RowLocks /\ CurrentIsLatest /\ [Next]_vars => (RowLocks /\ CurrentIsLatest)'
  BY RowLocksStep, LatestStep
<1> QED
  BY <1>1, <1>2, TypeCorrect, PTL DEF Spec

(* An open transaction holds the row its UPSERT would write at its commit,   *)
(* and no two open transactions hold a row of the same tag: the lock that    *)
(* PostgreSQL keeps until commit makes a row computed early still current.   *)
THEOREM RowLocksTheorem == Spec => []RowLocks
<1>1. Init => RowLocks
  BY DEF Init, RowLocks
<1> QED
  BY <1>1, RowLocksStep, TypeCorrect, PTL DEF Spec
------------------------------------------------------------------------------
(* Committed events stay committed.                                          *)
LEMMA StoredGrows ==
    ASSUME TypeOK, RowLocks, [Next]_vars PROVE Stored \subseteq Stored'
<1>1. CASE UNCHANGED dbVars
  BY <1>1 DEF Stored, dbVars
<1>2. ASSUME NEW h \in Handler, Commit(h) \/ CommitUnknown(h)
      PROVE  Stored \subseteq Stored'
  BY <1>2, CommitEffect
<1>3. ASSUME NEW h \in Handler, UpsertRow(h) PROVE UNCHANGED dbVars
  BY <1>3 DEF UpsertRow
<1> QED BY <1>1, <1>2, <1>3, DatabaseSteps

(* Only an ack adds to acked, and it adds the message of the task.           *)
LEMMA CommitBeforeAckStep ==
    ASSUME TypeOK, RowLocks, CommitBeforeAck, AckedIsStored, [Next]_vars
    PROVE  CommitBeforeAck' /\ AckedIsStored'
<1>0. Stored \subseteq Stored'
  BY StoredGrows
<1> USE <1>0 DEF TypeOK, CommitBeforeAck, AckedIsStored, brokerVars, processVars, handlerVars
<1> DEFINE Goal == CommitBeforeAck' /\ AckedIsStored'
<1>1. ASSUME NEW m \in Msg, Arrive(m) PROVE Goal
  BY <1>1 DEF Arrive
<1>2. CASE BrokerRestart
  BY <1>2 DEF BrokerRestart
<1>3. ASSUME NEW p \in Process,
             ConnectOk(p) \/ ConnectFails(p) \/ RetryDelayOver(p) \/ Reconnect(p) PROVE Goal
  BY <1>3 DEF ConnectOk, ConnectFails, RetryDelayOver, Reconnect, Conn
<1>4. ASSUME NEW p \in Process, Shutdown(p) \/ ClosePool(p) \/ Start(p) PROVE Goal
  BY <1>4 DEF Shutdown, ClosePool, Start, Conn
<1>5. ASSUME NEW p \in Process, ConnectionLost(p) \/ CloseConsumer(p) PROVE Goal
  BY <1>5 DEF ConnectionLost, CloseConsumer
<1>6. ASSUME NEW p \in Process, Exit(p) \/ Crash(p) PROVE Goal
  BY <1>6 DEF Exit, Crash, ProcessEnds, Cleared
<1>7. ASSUME NEW h \in Handler, NEW m \in Msg, Deliver(h, m) PROVE Goal
  BY <1>7 DEF Deliver, Decoded
<1>8. ASSUME NEW h \in Handler,
             Insert(h) \/ WriteRefused(h) \/ WriteFails(h) \/ UpsertRow(h) PROVE Goal
  BY <1>8 DEF Insert, WriteRefused, WriteFails, ExceptRaises, UpsertRow, To
<1>9. ASSUME NEW h \in Handler, Publish(h) PROVE Goal
  BY <1>9 DEF Publish, To
<1>10. ASSUME NEW h \in Handler, Commit(h) \/ CommitUnknown(h) PROVE Goal
  <2>1. job[h] \in Stored'
    BY <1>10, CommitEffect
  <2> QED BY <1>10, <2>1 DEF Commit, CommitUnknown, ExceptRaises, To
<1>11. ASSUME NEW h \in Handler, Ack(h) \/ Reject(h) PROVE Goal
  BY <1>11 DEF Ack, Reject, Finished, BrokerAck, BrokerRequeue
<1>12. CASE UNCHANGED vars
  BY <1>12 DEF vars
<1> QED
  BY <1>1, <1>2, <1>3, <1>4, <1>5, <1>6, <1>7, <1>8, <1>9, <1>10, <1>11, <1>12
  DEF Next, Lifecycle, Task

(* An event the broker was told to forget is in the database: a crash, lost  *)
(* connection or failed transaction at any point of _on_message costs at     *)
(* most a second delivery, never the event.                                  *)
THEOREM NoLossTheorem == Spec => []AckedIsStored
<1>1. Init => RowLocks /\ CommitBeforeAck /\ AckedIsStored
  BY DEF Init, RowLocks, CommitBeforeAck, AckedIsStored
<1>2. TypeOK /\ RowLocks /\ CommitBeforeAck /\ AckedIsStored /\ [Next]_vars
        => (RowLocks /\ CommitBeforeAck /\ AckedIsStored)'
  BY RowLocksStep, CommitBeforeAckStep
<1> QED
  BY <1>1, <1>2, TypeCorrect, PTL DEF Spec

(* A task about to broadcast or to acknowledge has committed its event, and  *)
(* what is acknowledged without a write is no event (the order of            *)
(* _on_message: commit, broadcast, ack).                                     *)
THEOREM CommitBeforeAckTheorem == Spec => []CommitBeforeAck
<1>1. Init => RowLocks /\ CommitBeforeAck /\ AckedIsStored
  BY DEF Init, RowLocks, CommitBeforeAck, AckedIsStored
<1>2. TypeOK /\ RowLocks /\ CommitBeforeAck /\ AckedIsStored /\ [Next]_vars
        => (RowLocks /\ CommitBeforeAck /\ AckedIsStored)'
  BY RowLocksStep, CommitBeforeAckStep
<1> QED
  BY <1>1, <1>2, TypeCorrect, PTL DEF Spec
------------------------------------------------------------------------------
(* A row of current_positions is only replaced by one at least as new.       *)
LEMMA ForwardStep ==
    ASSUME TypeOK, RowLocks, [Next]_vars
    PROVE  \A t \in Tag : AtLeast(current'[t], current[t])
<1>0. \A n \in Msg : TsOf[n] \in Int
  BY PositionsAssumption
<1>1. CASE UNCHANGED dbVars
  BY <1>0, <1>1 DEF AtLeast, dbVars, TypeOK, Row
<1>2. ASSUME NEW h \in Handler, Commit(h) \/ CommitUnknown(h), NEW t \in Tag
      PROVE  AtLeast(current'[t], current[t])
  <2>1. /\ job[h] \in Msg
        /\ current' = [current EXCEPT ![TagOf[job[h]]] = Upsert(@, job[h])]
    BY <1>2, CommitEffect
  <2>2. current[t] \in Row
    BY DEF TypeOK
  <2>3. current'[t] = current[t] \/ current'[t] = Upsert(current[t], job[h])
    BY <2>1 DEF TypeOK
  <2> QED BY <1>0, <2>1, <2>2, <2>3, PositionsAssumption DEF AtLeast, Upsert, Row
<1>3. ASSUME NEW h \in Handler, UpsertRow(h) PROVE UNCHANGED dbVars
  BY <1>3 DEF UpsertRow
<1> QED BY <1>1, <1>2, <1>3, DatabaseSteps

(* current_positions never moves back in time.                               *)
THEOREM ForwardTheorem == Spec => CurrentMovesForward
<1>1. Init => RowLocks
  BY DEF Init, RowLocks
<1>2. TypeOK /\ RowLocks /\ [Next]_vars => RowLocks'
  BY RowLocksStep
<1>3. TypeOK /\ RowLocks /\ [Next]_vars
        => [\A t \in Tag : AtLeast(current'[t], current[t])]_vars
  BY ForwardStep
<1> QED
  BY <1>1, <1>2, <1>3, TypeCorrect, PTL DEF Spec, CurrentMovesForward
------------------------------------------------------------------------------
(* A channel that goes moves exactly its unacknowledged messages to ready.   *)
LEMMA ChannelGoneHolder ==
    ASSUME TypeOK, OneHolder, NEW p \in Process, ChannelGone(p),
           UNCHANGED <<unsent, acked, lost>>,
           \A h \in Handler : Owner[h] # p => job'[h] = job[h]
    PROVE  OneHolder'
<1> DEFINE Back == {job[h] : h \in InFlightOf(p)}
<1>1. InFlight' = InFlight \ InFlightOf(p)
  BY ChannelGoneType DEF InFlight, InFlightOf
<1>2. \A h \in InFlight' : h \in InFlight /\ h \notin InFlightOf(p) /\ job'[h] = job[h]
  BY <1>1 DEF InFlight, InFlightOf
<1>3. InFlightOf(p) \subseteq InFlight
  BY DEF InFlight, InFlightOf
<1>4. \A h \in InFlight', g \in InFlightOf(p) : job[h] # job[g]
  BY <1>2, <1>3 DEF OneHolder
<1>5. Unacked' = Unacked \ Back
  <2>1. \A n : n \in Unacked' <=> \E h \in InFlight \ InFlightOf(p) : n = job[h]
    BY <1>1, <1>2 DEF Unacked
  <2>2. \A n : n \in Unacked <=> \E h \in InFlight : n = job[h]
    BY DEF Unacked
  <2>3. \A n : n \in Back <=> \E h \in InFlightOf(p) : n = job[h]
    OBVIOUS
  <2> HIDE DEF Back
  <2>4. \A n : n \in Unacked' <=> n \in Unacked /\ n \notin Back
    BY <1>1, <1>3, <1>4, <2>1, <2>2, <2>3
  <2> QED BY <2>4
<1>6. Back \subseteq Unacked
  BY <1>3 DEF Unacked
<1>7. ready' = ready \cup Back
  BY DEF ChannelGone
<1>8. \A g, h \in InFlight' : job'[g] = job'[h] => g = h
  BY <1>2 DEF OneHolder
<1> HIDE DEF Back
<1> QED BY <1>5, <1>6, <1>7, <1>8 DEF OneHolder

(* The delivery bookkeeping is untouched.                                    *)
LEMMA SameHolder ==
    ASSUME OneHolder, UNCHANGED <<unsent, ready, acked, lost, job, live>>
    PROVE  OneHolder'
BY DEF OneHolder, Unacked, InFlight

(* A task that ends hands its message on, or had lost it before.             *)
LEMMA FinishedHolder ==
    ASSUME TypeOK, OneHolder, NEW h \in Handler, pc[h] # "idle",
           job' = [job EXCEPT ![h] = None], live' = [live EXCEPT ![h] = FALSE],
           UNCHANGED <<unsent, lost>>,
           \/ acked' = (IF live[h] THEN acked \cup {job[h]} ELSE acked) /\ UNCHANGED ready
           \/ ready' = (IF live[h] THEN ready \cup {job[h]} ELSE ready) /\ UNCHANGED acked
    PROVE  OneHolder'
<1>0. job[h] \in Msg
  BY DEF TypeOK
<1>1. InFlight' = InFlight \ {h}
  BY DEF InFlight, TypeOK
<1>2. \A g \in InFlight \ {h} : job'[g] = job[g] /\ g \in Handler
  BY DEF InFlight, TypeOK
<1>3. CASE ~live[h]
  <2>1. h \notin InFlight
    BY <1>3 DEF InFlight
  <2>2. Unacked' = Unacked
    BY <1>1, <1>2, <2>1 DEF Unacked
  <2>3. UNCHANGED <<ready, acked>>
    BY <1>3
  <2> QED BY <1>1, <1>2, <2>1, <2>2, <2>3 DEF OneHolder
<1>4. CASE live[h]
  <2>1. h \in InFlight /\ job[h] \in Unacked
    BY <1>4 DEF InFlight, Unacked
  <2>2. \A g \in InFlight \ {h} : job[g] # job[h]
    BY <2>1 DEF OneHolder
  <2>3. Unacked' = Unacked \ {job[h]}
    BY <1>1, <1>2, <2>1, <2>2 DEF Unacked
  <2>4. \/ acked' = acked \cup {job[h]} /\ ready' = ready
        \/ ready' = ready \cup {job[h]} /\ acked' = acked
    BY <1>4
  <2>5. \A g, k \in InFlight' : job'[g] = job'[k] => g = k
    BY <1>1, <1>2 DEF OneHolder
  <2> QED BY <1>0, <2>1, <2>3, <2>4, <2>5 DEF OneHolder
<1> QED BY <1>3, <1>4

(* One delivery takes one message out of the queue.                          *)
LEMMA DeliverHolder ==
    ASSUME TypeOK, OneHolder, NEW h \in Handler, NEW m \in Msg, Deliver(h, m)
    PROVE  OneHolder'
<1>1. h \notin InFlight /\ m \in ready /\ m \notin Unacked
  BY DEF Deliver, IsOldest, OneHolder, TypeOK, InFlight
<1>2. InFlight' = InFlight \cup {h}
  BY DEF Deliver, InFlight, TypeOK
<1>3. job'[h] = m /\ \A g \in InFlight : job'[g] = job[g] /\ job[g] \in Unacked
  BY <1>1 DEF Deliver, InFlight, TypeOK, Unacked
<1>4. Unacked' = Unacked \cup {m}
  BY <1>1, <1>2, <1>3 DEF Unacked
<1>5. UNCHANGED <<unsent, acked, lost>> /\ ready' = ready \ {m}
  BY DEF Deliver
<1>6. \A g, k \in InFlight' : job'[g] = job'[k] => g = k
  BY <1>1, <1>2, <1>3 DEF OneHolder
<1> QED BY <1>1, <1>4, <1>5, <1>6 DEF OneHolder

(* Every step keeps each message in exactly one place.                       *)
LEMMA HolderStep == ASSUME TypeOK, OneHolder, [Next]_vars PROVE OneHolder'
<1> USE DEF brokerVars, processVars, handlerVars
<1>1. ASSUME NEW m \in Msg, Arrive(m) PROVE OneHolder'
  <2>1. Unacked' = Unacked /\ InFlight' = InFlight /\ job' = job
    BY <1>1 DEF Arrive, Unacked, InFlight
  <2> QED BY <1>1, <2>1 DEF Arrive, IsOldest, OneHolder
<1>2. CASE BrokerRestart
  <2>1. InFlight' = {} /\ Unacked' = {}
    BY <1>2 DEF BrokerRestart, InFlight, Unacked
  <2> QED BY <1>2, <2>1 DEF BrokerRestart, OneHolder
<1>3. ASSUME NEW p \in Process,
             ConnectOk(p) \/ ConnectFails(p) \/ RetryDelayOver(p) \/ Reconnect(p) PROVE OneHolder'
  BY <1>3, SameHolder DEF ConnectOk, ConnectFails, RetryDelayOver, Reconnect, Conn
<1>4. ASSUME NEW p \in Process, Shutdown(p) \/ ClosePool(p) \/ Start(p) PROVE OneHolder'
  BY <1>4, SameHolder DEF Shutdown, ClosePool, Start, Conn
<1>5. ASSUME NEW p \in Process,
             ConnectionLost(p) \/ CloseConsumer(p) \/ Exit(p) \/ Crash(p)
      PROVE  OneHolder'
  <2>1. ChannelGone(p) /\ UNCHANGED <<unsent, acked, lost>>
    BY <1>5 DEF ConnectionLost, CloseConsumer, Exit, Crash, ProcessEnds
  <2>2. \A h \in Handler : Owner[h] # p => job'[h] = job[h]
    BY <1>5 DEF ConnectionLost, CloseConsumer, Exit, Crash, ProcessEnds, Cleared
  <2> QED BY <2>1, <2>2, ChannelGoneHolder
<1>6. ASSUME NEW h \in Handler, Task(h) PROVE OneHolder'
  <2>1. CASE Ack(h) \/ Reject(h)
    BY <2>1, FinishedHolder DEF Ack, Reject, Finished, BrokerAck, BrokerRequeue
  <2>2. CASE Insert(h) \/ WriteRefused(h) \/ UpsertRow(h) \/ WriteFails(h) \/ Publish(h)
    BY <2>2, SameHolder DEF Insert, WriteRefused, UpsertRow, WriteFails, Publish, ExceptRaises, To
  <2>3. CASE Commit(h) \/ CommitUnknown(h)
    BY <2>3, SameHolder DEF Commit, CommitUnknown, ExceptRaises, To
  <2> QED BY <1>6, <2>1, <2>2, <2>3 DEF Task
<1>7. CASE UNCHANGED vars
  BY <1>7, SameHolder DEF vars
<1> QED
  BY <1>1, <1>2, <1>3, <1>4, <1>5, <1>6, <1>7, DeliverHolder DEF Next, Lifecycle

(* Requeueing neither forgets nor doubles a message: it is always unsent,    *)
(* queued, acknowledged, lost by the broker or owed to exactly one delivery. *)
THEOREM HolderTheorem == Spec => []OneHolder
<1>1. Init => OneHolder
  BY DEF Init, OneHolder, Unacked, InFlight
<1> QED
  BY <1>1, HolderStep, TypeCorrect, PTL DEF Spec
------------------------------------------------------------------------------
(* The abstract `pending`.                                                   *)
Announcing == {job[h] : h \in {g \in Handler : pc[g] = "committed"}}

(* Every step of the consumer is a step of the abstract store.               *)
LEMMA StoreStep ==
    ASSUME TypeOK, RowLocks, [Next]_vars
    PROVE  [Store!StoreNext]_(Store!storeVars)
<1> USE DEF TypeOK, brokerVars, processVars, handlerVars, dbVars
<1> DEFINE Same == UNCHANGED <<current, Announcing>>
<1> HIDE DEF Same
<1>0. Same => UNCHANGED Store!storeVars
  BY DEF Same, Store!storeVars, Announcing
<1>1. ASSUME UNCHANGED <<current, pc, job>> PROVE Same
  BY <1>1 DEF Same, Announcing
<1>2. ASSUME NEW h \in Handler, pc[h] # "committed", UNCHANGED current,
             pc'[h] # "committed",
             \A g \in Handler \ {h} : pc'[g] = pc[g] /\ job'[g] = job[g]
      PROVE  Same
  BY <1>2 DEF Same, Announcing
<1>3. ASSUME NEW p \in Process, Exit(p) \/ Crash(p)
      PROVE  Same \/ Store!StoreNext
  <2>1. /\ UNCHANGED current
        /\ \A h \in Handler :
              /\ Owner[h] = p => pc'[h] = "idle"
              /\ Owner[h] # p => pc'[h] = pc[h] /\ job'[h] = job[h]
    BY <1>3 DEF Exit, Crash, ProcessEnds, Cleared
  <2>2. CASE p = Backend
    <3>1. Announcing' = {}
      BY <2>1, <2>2 DEF Announcing
    <3> QED BY <2>1, <3>1 DEF Announcing, Store!StoreNext, Store!StoreForget
  <2>3. CASE p # Backend
    <3>1. \A h \in Handler : pc[h] = "committed" => Owner[h] # p
      BY <2>3
    <3>2. \A h \in Handler : /\ pc'[h] = "committed" <=> pc[h] = "committed"
                             /\ pc[h] = "committed" => job'[h] = job[h]
      BY <2>1, <3>1
    <3> QED BY <2>1, <3>2 DEF Same, Announcing
  <2> QED BY <2>2, <2>3
<1>4. ASSUME NEW h \in Handler, Commit(h), Owner[h] = Backend PROVE Store!StoreNext
  <2>1. /\ job[h] \in Msg
        /\ current' = [current EXCEPT ![TagOf[job[h]]] = Upsert(@, job[h])]
    BY <1>4, CommitEffect
  <2>2. Announcing' = Announcing \cup {job[h]}
    BY <1>4 DEF Commit, CommitApplied, To, Announcing
  <2>3. PICK n \in Msg : n = job[h]
    BY <2>1
  <2>4. Store!StoreCommit(n)
    BY <2>1, <2>2, <2>3 DEF Store!StoreCommit, Store!Committed, Store!Upsert, Upsert, Announcing
  <2> QED BY <2>4 DEF Store!StoreNext
<1>5. ASSUME NEW h \in Handler, CommitUnknown(h) \/ (Commit(h) /\ Owner[h] # Backend)
      PROVE  Store!StoreNext
  <2>1. /\ job[h] \in Msg
        /\ current' = [current EXCEPT ![TagOf[job[h]]] = Upsert(@, job[h])]
    BY <1>5, CommitEffect
  <2>2. /\ pc[h] # "committed" /\ pc'[h] # "committed"
        /\ \A g \in Handler \ {h} : pc'[g] = pc[g] /\ job'[g] = job[g]
    BY <1>5 DEF CommitUnknown, Commit, CommitApplied, ExceptRaises, To
  <2>3. Announcing' = Announcing
    BY <2>2 DEF Announcing
  <2>4. PICK n \in Msg : n = job[h]
    BY <2>1
  <2>5. Store!StoreCommitUnannounced(n)
    BY <2>1, <2>3, <2>4
    DEF Store!StoreCommitUnannounced, Store!Committed, Store!Upsert, Upsert, Announcing
  <2> QED BY <2>5 DEF Store!StoreNext
<1>6. ASSUME NEW h \in Handler, Publish(h) PROVE Store!StoreNext
  <2>1. job[h] \in Msg /\ job[h] \in Announcing /\ UNCHANGED current
    BY <1>6 DEF Publish, Announcing
  <2>2. Announcing' \in {Announcing, Announcing \ {job[h]}}
    <3>1. \A n : n \in Announcing' <=>
            \E g \in Handler \ {h} : pc[g] = "committed" /\ job[g] = n
      BY <1>6 DEF Publish, To, Announcing
    <3>2. \A n : n \in Announcing <=>
            n = job[h] \/ \E g \in Handler \ {h} : pc[g] = "committed" /\ job[g] = n
      BY <1>6 DEF Publish, Announcing
    <3> DEFINE Again == \E g \in Handler \ {h} : pc[g] = "committed" /\ job[g] = job[h]
    <3>3. CASE Again
      <4>1. \A n : n \in Announcing' <=> n \in Announcing
        BY <3>1, <3>2, <3>3
      <4> QED BY <4>1
    <3>4. CASE ~Again
      <4>1. \A n : n \in Announcing' <=> n \in Announcing /\ n # job[h]
        BY <3>1, <3>2, <3>4
      <4>2. \A n : n \in Announcing' <=> n \in Announcing \ {job[h]}
        BY <4>1
      <4> QED BY <4>2
    <3> QED BY <3>3, <3>4
  <2>3. PICK n \in Msg : n = job[h]
    BY <2>1
  <2>4. Store!StoreAnnounce(n)
    BY <2>1, <2>2, <2>3 DEF Store!StoreAnnounce, Announcing
  <2> QED BY <2>4 DEF Store!StoreNext
<1>7. ASSUME NEW m \in Msg, Arrive(m) PROVE Same
  BY <1>1, <1>7 DEF Arrive
<1>8. CASE BrokerRestart
  BY <1>0, <1>1, <1>8 DEF BrokerRestart
<1>15. ASSUME NEW p \in Process, ConnectionLost(p) \/ CloseConsumer(p) PROVE Same
  BY <1>1, <1>15 DEF ConnectionLost, CloseConsumer
<1>9. ASSUME NEW p \in Process,
             ConnectOk(p) \/ ConnectFails(p) \/ RetryDelayOver(p) \/ Reconnect(p) PROVE Same
  BY <1>0, <1>1, <1>9 DEF ConnectOk, ConnectFails, RetryDelayOver, Reconnect, Conn
<1>10. ASSUME NEW p \in Process, Shutdown(p) \/ ClosePool(p) \/ Start(p) PROVE Same
  BY <1>0, <1>1, <1>10 DEF Shutdown, ClosePool, Start, Conn
<1>11. ASSUME NEW h \in Handler, NEW m \in Msg, Deliver(h, m) PROVE Same
  BY <1>2, <1>11 DEF Deliver, Decoded
<1>12. ASSUME NEW h \in Handler,
              Insert(h) \/ WriteRefused(h) \/ WriteFails(h) \/ UpsertRow(h) PROVE Same
  BY <1>2, <1>12 DEF Insert, WriteRefused, WriteFails, ExceptRaises, UpsertRow, To
<1>13. ASSUME NEW h \in Handler, Ack(h) \/ Reject(h) PROVE Same
  BY <1>2, <1>13 DEF Ack, Reject, Finished, BrokerAck, BrokerRequeue
<1>14. CASE UNCHANGED vars
  BY <1>0, <1>1, <1>14 DEF vars
<1> QED
  BY <1>0, <1>3, <1>4, <1>5, <1>6, <1>7, <1>8, <1>9, <1>10, <1>11, <1>12, <1>13, <1>14, <1>15
  DEF Next, Lifecycle, Task

(* The consumer implements the abstract store: whatever the interleaving of  *)
(* its tasks and the failures, the serving side sees atomic commits.         *)
THEOREM StoreRefinement == Spec => ImplementsStore
<1>1. Init => RowLocks /\ Store!StoreInit
  BY DEF Init, RowLocks, Store!StoreInit
<1>2. TypeOK /\ RowLocks /\ [Next]_vars => RowLocks'
  BY RowLocksStep
<1>3. TypeOK /\ RowLocks /\ [Next]_vars => [Store!StoreNext]_(Store!storeVars)
  BY StoreStep
<1> QED
  BY <1>1, <1>2, <1>3, TypeCorrect, PTL DEF Spec, ImplementsStore, Store!StoreSpec
------------------------------------------------------------------------------
(* How many rows one message can leave in position_events: at most one, and  *)
(* one more per fault.  The bound alone is not inductive: what has to be     *)
(* counted beside the rows already committed is every place from which       *)
(* another row may still come.                                               *)

Writing == {"writing", "inserted", "upserted"}

(* The tasks that may still commit a row for m, with a delivery or without.  *)
Writers(m) == {h \in Handler : job[h] = m /\ pc[h] \in Writing}

(* The broker has m to deliver, or a failed task is about to give it back.   *)
Returning(m) ==
    \/ m \in unsent \cup ready
    \/ \E h \in InFlight : job[h] = m /\ pc[h] = "failed"

(* The processes that will close their channel, handlers running or not.     *)
Stopping == {p \in Process : stopping[p] /\ conn[p] \notin {"closed", "down"}}

(* Only an open channel has unacknowledged deliveries.                       *)
LiveNeedsChannel == \A h \in Handler : live[h] => conn[Owner[h]] = "consuming"

Rows(m) == stored[m] + Cardinality(Writers(m)) + (IF Returning(m) THEN 1 ELSE 0)
                     + Cardinality(Stopping)

DuplicateBudget == \A m \in Msg : Rows(m) <= 1 + faults

(* The two sets that are counted are finite.                                 *)
LEMMA Counted ==
    ASSUME NEW m
    PROVE  /\ IsFiniteSet(Writers(m)) /\ Cardinality(Writers(m)) \in Nat
           /\ IsFiniteSet(Stopping) /\ Cardinality(Stopping) \in Nat
           /\ IsFiniteSet(Writers(m)') /\ Cardinality(Writers(m)') \in Nat
           /\ IsFiniteSet(Stopping') /\ Cardinality(Stopping') \in Nat
<1>1. /\ Writers(m) \in SUBSET Handler /\ Writers(m)' \in SUBSET Handler
      /\ Stopping \in SUBSET Process /\ Stopping' \in SUBSET Process
  BY DEF Writers, Stopping
<1>2. /\ IsFiniteSet(Writers(m)) /\ IsFiniteSet(Writers(m)')
      /\ IsFiniteSet(Stopping) /\ IsFiniteSet(Stopping')
  BY <1>1, ConsumerAssumption, FS_Subset
<1> QED BY <1>2, FS_CardinalityType

(* A step that commits nothing and puts nobody in a position to commit.      *)
LEMMA QuietKeepsBudget ==
    ASSUME TypeOK, TypeOK', NEW m \in Msg, Rows(m) <= 1 + faults,
           stored'[m] = stored[m], Writers(m)' \subseteq Writers(m),
           Stopping' \subseteq Stopping,
           \/ faults' = faults /\ (Returning(m)' => Returning(m))
           \/ faults' = faults + 1
    PROVE  Rows(m)' <= 1 + faults'
<1>1. /\ Cardinality(Writers(m)') <= Cardinality(Writers(m))
      /\ Cardinality(Stopping') <= Cardinality(Stopping)
  BY Counted, FS_Subset
<1>2. stored[m] \in Nat /\ faults \in Nat
  BY ConsumerAssumption DEF TypeOK
<1>3. Rows(m) = stored[m] + Cardinality(Writers(m)) + (IF Returning(m) THEN 1 ELSE 0)
                + Cardinality(Stopping)
  BY DEF Rows
<1>4. Rows(m)' = stored'[m] + Cardinality(Writers(m)') + (IF Returning(m)' THEN 1 ELSE 0)
                + Cardinality(Stopping')
  BY DEF Rows
<1> HIDE DEF Rows
<1> QED BY <1>1, <1>2, <1>3, <1>4, Counted

(* A task that stops writing pays for the row it committed, or for the       *)
(* delivery that its failure brings; if it brings both, a fault pays.        *)
LEMMA LeavingKeepsBudget ==
    ASSUME TypeOK, TypeOK', NEW m \in Msg, Rows(m) <= 1 + faults,
           NEW h \in Writers(m), Writers(m)' = Writers(m) \ {h},
           Stopping' \subseteq Stopping,
           \/ /\ stored'[m] = stored[m] + 1 /\ faults' = faults
              /\ Returning(m)' => Returning(m)
           \/ stored'[m] = stored[m] + 1 /\ faults' = faults + 1
           \/ stored'[m] = stored[m] /\ faults' = faults
    PROVE  Rows(m)' <= 1 + faults'
<1>1. /\ Cardinality(Writers(m)') = Cardinality(Writers(m)) - 1
      /\ Cardinality(Stopping') <= Cardinality(Stopping)
  BY Counted, FS_RemoveElement, FS_Subset
<1>2. stored[m] \in Nat /\ faults \in Nat
  BY ConsumerAssumption DEF TypeOK
<1>3. Rows(m) = stored[m] + Cardinality(Writers(m)) + (IF Returning(m) THEN 1 ELSE 0)
                + Cardinality(Stopping)
  BY DEF Rows
<1>4. Rows(m)' = stored'[m] + Cardinality(Writers(m)') + (IF Returning(m)' THEN 1 ELSE 0)
                + Cardinality(Stopping')
  BY DEF Rows
<1> QED BY <1>1, <1>2, <1>3, <1>4, Counted

(* A delivery turns the queued message into at most one writer.              *)
LEMMA StartingKeepsBudget ==
    ASSUME TypeOK, TypeOK', NEW m \in Msg, Rows(m) <= 1 + faults, NEW h,
           stored'[m] = stored[m], faults' = faults,
           Writers(m)' = Writers(m) \cup {h}, Stopping' \subseteq Stopping,
           Returning(m), ~Returning(m)'
    PROVE  Rows(m)' <= 1 + faults'
<1>0. Cardinality(Writers(m)') = IF h \in Writers(m) THEN Cardinality(Writers(m))
                                                    ELSE Cardinality(Writers(m)) + 1
  BY Counted, FS_AddElement
<1>1. /\ Cardinality(Writers(m)') <= Cardinality(Writers(m)) + 1
      /\ Cardinality(Stopping') <= Cardinality(Stopping)
  BY <1>0, Counted, FS_Subset
<1>2. stored[m] \in Nat /\ faults \in Nat
  BY ConsumerAssumption DEF TypeOK
<1>3. Rows(m) = stored[m] + Cardinality(Writers(m)) + 1 + Cardinality(Stopping)
  BY DEF Rows
<1>4. Rows(m)' = stored'[m] + Cardinality(Writers(m)') + 0 + Cardinality(Stopping')
  BY DEF Rows
<1> QED BY <1>1, <1>2, <1>3, <1>4, Counted

(* A shutdown is a fault; closing the channel spends what it added.          *)
LEMMA StoppingKeepsBudget ==
    ASSUME TypeOK, TypeOK', NEW m \in Msg, Rows(m) <= 1 + faults, NEW p,
           stored'[m] = stored[m], Writers(m)' \subseteq Writers(m),
           \/ /\ faults' = faults + 1 /\ Stopping' = Stopping \cup {p}
              /\ Returning(m)' => Returning(m)
           \/ faults' = faults /\ p \in Stopping /\ Stopping' = Stopping \ {p}
    PROVE  Rows(m)' <= 1 + faults'
<1>1. Cardinality(Writers(m)') <= Cardinality(Writers(m))
  BY Counted, FS_Subset
<1>2. /\ Stopping' = Stopping \cup {p} => Cardinality(Stopping') <= Cardinality(Stopping) + 1
      /\ p \in Stopping /\ Stopping' = Stopping \ {p}
            => Cardinality(Stopping') = Cardinality(Stopping) - 1
  BY Counted, FS_AddElement, FS_RemoveElement
<1>3. stored[m] \in Nat /\ faults \in Nat
  BY ConsumerAssumption DEF TypeOK
<1>4. Rows(m) = stored[m] + Cardinality(Writers(m)) + (IF Returning(m) THEN 1 ELSE 0)
                + Cardinality(Stopping)
  BY DEF Rows
<1>5. Rows(m)' = stored'[m] + Cardinality(Writers(m)') + (IF Returning(m)' THEN 1 ELSE 0)
                + Cardinality(Stopping')
  BY DEF Rows
<1> QED BY <1>1, <1>2, <1>3, <1>4, <1>5, Counted
------------------------------------------------------------------------------
(* A delivery is made on an open channel, and no step that leaves            *)
(* "consuming" keeps a delivery of the channel.                              *)
LEMMA ChannelStep ==
    ASSUME TypeOK, LiveNeedsChannel, [Next]_vars PROVE LiveNeedsChannel'
<1> USE ConsumerAssumption DEF TypeOK, LiveNeedsChannel, brokerVars, processVars, handlerVars
<1>1. ASSUME NEW m \in Msg, Arrive(m) PROVE LiveNeedsChannel'
  BY <1>1 DEF Arrive
<1>2. CASE BrokerRestart
  BY <1>2 DEF BrokerRestart
<1>3. ASSUME NEW p \in Process,
             ConnectOk(p) \/ ConnectFails(p) \/ RetryDelayOver(p) \/ Reconnect(p) \/ Start(p)
      PROVE  LiveNeedsChannel'
  <2>1. /\ UNCHANGED live /\ conn[p] # "consuming"
        /\ \A q \in Process \ {p} : conn'[q] = conn[q]
    BY <1>3 DEF ConnectOk, ConnectFails, RetryDelayOver, Reconnect, Start, Conn
  <2>2. \A h \in Handler : live'[h] => live[h] /\ Owner[h] \in Process \ {p}
    BY <2>1
  <2> QED BY <2>1, <2>2
<1>4. ASSUME NEW p \in Process, Shutdown(p) \/ ClosePool(p) PROVE LiveNeedsChannel'
  BY <1>4 DEF Shutdown, ClosePool
<1>5. ASSUME NEW p \in Process,
             ConnectionLost(p) \/ CloseConsumer(p) \/ Exit(p) \/ Crash(p)
      PROVE  LiveNeedsChannel'
  <2>1. ChannelGone(p) /\ \A q \in Process \ {p} : conn'[q] = conn[q]
    BY <1>5 DEF ConnectionLost, CloseConsumer, Conn, Exit, Crash, ProcessEnds
  <2>2. ASSUME NEW h \in Handler, live'[h] PROVE conn'[Owner[h]] = "consuming"
    <3>1. live[h] /\ Owner[h] # p /\ Owner[h] \in Process
      BY <2>1, <2>2, ChannelGoneType
    <3> QED BY <2>1, <3>1
  <2> QED BY <2>2
<1>6. ASSUME NEW h \in Handler, NEW m \in Msg, Deliver(h, m) PROVE LiveNeedsChannel'
  BY <1>6 DEF Deliver
<1>7. ASSUME NEW h \in Handler, Task(h)
      PROVE  conn' = conn /\ \A g \in Handler : live'[g] => live[g]
  BY <1>7 DEF Task, Insert, WriteRefused, UpsertRow, Commit, CommitUnknown, WriteFails,
     Publish, ExceptRaises, To, Ack, Reject, BrokerAck, BrokerRequeue, Finished
<1>8. CASE UNCHANGED vars
  BY <1>8 DEF vars
<1> QED BY <1>1, <1>2, <1>3, <1>4, <1>5, <1>6, <1>7, <1>8 DEF Next, Lifecycle

(* Every step keeps the budget of every message.                             *)
LEMMA BudgetStep ==
    ASSUME TypeOK, TypeOK', OneHolder, LiveNeedsChannel, DuplicateBudget, [Next]_vars
    PROVE  DuplicateBudget'
<1> SUFFICES ASSUME NEW m \in Msg PROVE Rows(m)' <= 1 + faults'
  BY DEF DuplicateBudget
<1>0. Rows(m) <= 1 + faults
  BY DEF DuplicateBudget
<1> DEFINE Goal == Rows(m)' <= 1 + faults'
<1>a. UNCHANGED <<pc, job>> => Writers(m)' = Writers(m)
  BY DEF Writers
<1>b. UNCHANGED <<stopping, conn>> => Stopping' = Stopping
  BY DEF Stopping
<1>c. UNCHANGED <<unsent, ready, job, pc, live>> => (Returning(m)' => Returning(m))
  BY DEF Returning, InFlight
<1> USE DEF brokerVars, processVars, handlerVars, dbVars
<1>1. ASSUME NEW n \in Msg, Arrive(n) PROVE Goal
  <2>1. Returning(m)' => Returning(m)
    BY <1>1 DEF Arrive, IsOldest, Returning, InFlight
  <2> QED BY <1>0, <1>a, <1>b, <1>1, <2>1, QuietKeepsBudget DEF Arrive
<1>2. CASE BrokerRestart
  <2>1. Stopping' \subseteq Stopping
    BY <1>2 DEF BrokerRestart, Stopping, TypeOK
  <2>2. UNCHANGED <<pc, job, stored>> /\ faults' = faults + 1
    BY <1>2 DEF BrokerRestart, Fault
  <2> QED BY <1>0, <1>a, <2>1, <2>2, QuietKeepsBudget
<1>3. ASSUME NEW p \in Process,
             ConnectOk(p) \/ ConnectFails(p) \/ RetryDelayOver(p) \/ Reconnect(p)
                \/ Start(p) \/ ClosePool(p)
      PROVE  Goal
  <2>1. Stopping' \subseteq Stopping
    BY <1>3 DEF ConnectOk, ConnectFails, RetryDelayOver, Reconnect, Start, ClosePool,
       Conn, Stopping, TypeOK
  <2>2. /\ UNCHANGED <<unsent, ready, job, pc, live, stored>>
        /\ faults' = faults \/ faults' = faults + 1
    BY <1>3 DEF ConnectOk, ConnectFails, RetryDelayOver, Reconnect, Start, ClosePool, Fault
  <2> QED BY <1>0, <1>a, <1>c, <2>1, <2>2, QuietKeepsBudget
<1>4. ASSUME NEW p \in Process, Shutdown(p) PROVE Goal
  <2>1. UNCHANGED <<unsent, ready, job, pc, live, stored>> /\ faults' = faults + 1
    BY <1>4 DEF Shutdown, Fault
  <2>2. Stopping' \subseteq Stopping \cup {p}
    BY <1>4 DEF Shutdown, Stopping, TypeOK
  <2>3. CASE conn[p] = "closed"
    <3>1. Stopping' \subseteq Stopping
      BY <1>4, <2>3 DEF Shutdown, Stopping, TypeOK
    <3> QED BY <1>0, <1>a, <2>1, <3>1, QuietKeepsBudget
  <2>4. CASE conn[p] # "closed"
    <3>1. Stopping' = Stopping \cup {p}
      BY <1>4, <2>4 DEF Shutdown, Stopping, TypeOK
    <3> QED BY <1>0, <1>a, <1>c, <2>1, <3>1, StoppingKeepsBudget
  <2> QED BY <2>3, <2>4
<1>5. ASSUME NEW p \in Process, ConnectionLost(p) PROVE Goal
  <2>1. Stopping' \subseteq Stopping
    BY <1>5 DEF ConnectionLost, Conn, Stopping, TypeOK
  <2>2. UNCHANGED <<pc, job, stored>> /\ faults' = faults + 1
    BY <1>5 DEF ConnectionLost, Fault
  <2> QED BY <1>0, <1>a, <2>1, <2>2, QuietKeepsBudget
<1>6. ASSUME NEW p \in Process, CloseConsumer(p) PROVE Goal
  <2>1. p \in Stopping /\ Stopping' = Stopping \ {p}
    BY <1>6 DEF CloseConsumer, Conn, Stopping, TypeOK
  <2>2. UNCHANGED <<pc, job, stored, faults>>
    BY <1>6 DEF CloseConsumer
  <2> QED BY <1>0, <1>a, <2>1, <2>2, StoppingKeepsBudget
<1>7. ASSUME NEW p \in Process, Exit(p) \/ Crash(p) PROVE Goal
  <2>1. ProcessEnds(p)
    BY <1>7 DEF Exit, Crash
  <2>2. Writers(m)' \subseteq Writers(m)
    BY <2>1 DEF ProcessEnds, Cleared, Writers, Writing
  <2>3. Stopping' \subseteq Stopping
    BY <2>1 DEF ProcessEnds, Stopping, TypeOK
  <2>4. UNCHANGED stored
    BY <2>1 DEF ProcessEnds
  <2>5. CASE Crash(p)
    BY <1>0, <2>2, <2>3, <2>4, <2>5, QuietKeepsBudget DEF Crash, Fault
  <2>6. CASE Exit(p)
    <3>1. InFlightOf(p) = {}
      BY <2>6 DEF Exit, LiveNeedsChannel, InFlightOf
    <3>2. UNCHANGED <<unsent, ready>>
      BY <2>1, <3>1 DEF ProcessEnds, ChannelGone
    <3>3. \A h \in InFlight' : h \in InFlight /\ Owner[h] # p
      BY <2>1, ChannelGoneType DEF ProcessEnds, InFlight
    <3>4. \A h \in InFlight' : pc'[h] = pc[h] /\ job'[h] = job[h]
      BY <2>1, <3>3 DEF ProcessEnds, Cleared, InFlight
    <3>5. Returning(m)' => Returning(m)
      BY <3>2, <3>3, <3>4 DEF Returning
    <3> QED BY <1>0, <2>2, <2>3, <2>4, <2>6, <3>5, QuietKeepsBudget DEF Exit
  <2> QED BY <1>7, <2>5, <2>6
<1>8. ASSUME NEW h \in Handler, NEW n \in Msg, Deliver(h, n) PROVE Goal
  <2>1. /\ UNCHANGED <<unsent, stored, faults, stopping, conn>>
        /\ ready' = ready \ {n} /\ n \in ready /\ pc[h] = "idle" /\ ~live[h]
        /\ pc' = [pc EXCEPT ![h] = Decoded(n)]
        /\ job' = [job EXCEPT ![h] = n]
        /\ live' = [live EXCEPT ![h] = TRUE]
    BY <1>8 DEF Deliver, IsOldest, TypeOK
  <2>2. /\ pc'[h] = Decoded(n) /\ job'[h] = n
        /\ \A g \in Handler \ {h} : pc'[g] = pc[g] /\ job'[g] = job[g] /\ live'[g] = live[g]
    BY <2>1 DEF TypeOK
  <2>3. Decoded(n) \in {"writing", "dropped", "failed"}
    BY DEF Decoded
  <2>4. CASE m # n
    <3>1. Writers(m)' \subseteq Writers(m)
      BY <2>2, <2>4 DEF Writers
    <3>2. Returning(m)' => Returning(m)
      BY <2>1, <2>2, <2>4 DEF Returning, InFlight
    <3> QED BY <1>0, <1>b, <2>1, <3>1, <3>2, QuietKeepsBudget
  <2>5. CASE m = n /\ Decoded(n) # "writing"
    <3>1. Writers(m)' \subseteq Writers(m)
      BY <2>2, <2>3, <2>5 DEF Writers, Writing
    <3>2. Returning(m)
      BY <2>1, <2>5 DEF Returning
    <3> QED BY <1>0, <1>b, <2>1, <3>1, <3>2, QuietKeepsBudget
  <2>6. CASE m = n /\ Decoded(n) = "writing"
    <3>1. Writers(m)' = Writers(m) \cup {h}
      BY <2>1, <2>2, <2>6 DEF Writers, Writing
    <3>2. Returning(m)
      BY <2>1, <2>6 DEF Returning
    <3>3. m \notin unsent \cup Unacked
      BY <2>1, <2>6 DEF OneHolder
    <3>4. ~Returning(m)'
      BY <2>1, <2>2, <2>6, <3>3 DEF Returning, InFlight, Unacked
    <3> QED BY <1>0, <1>b, <2>1, <3>1, <3>2, <3>4, StartingKeepsBudget
  <2> QED BY <2>4, <2>5, <2>6
<1>9. ASSUME NEW h \in Handler, Insert(h) \/ UpsertRow(h) \/ Publish(h) PROVE Goal
  <2>1. /\ UNCHANGED <<unsent, ready, job, live, stored, faults, stopping, conn>>
        /\ \A g \in Handler \ {h} : pc'[g] = pc[g]
        /\ pc'[h] \in Writing => pc[h] \in Writing
        /\ pc'[h] # "failed"
    BY <1>9 DEF Insert, UpsertRow, Publish, To, Writing, TypeOK
  <2>2. Writers(m)' \subseteq Writers(m)
    BY <2>1 DEF Writers
  <2>3. Returning(m)' => Returning(m)
    BY <2>1 DEF Returning, InFlight
  <2> QED BY <1>0, <1>b, <2>1, <2>2, <2>3, QuietKeepsBudget
<1>10. ASSUME NEW h \in Handler,
              WriteRefused(h) \/ WriteFails(h) \/ Commit(h) \/ CommitUnknown(h)
       PROVE  Goal
  <2>1. /\ UNCHANGED <<unsent, ready, job, live, stopping, conn>>
        /\ \A g \in Handler \ {h} : pc'[g] = pc[g]
        /\ pc[h] \in Writing /\ pc'[h] \notin Writing
    BY <1>10 DEF WriteRefused, WriteFails, Commit, CommitUnknown, CommitApplied,
       ExceptRaises, To, Writing, TypeOK
  <2>2. job[h] \in Msg
    BY <2>1 DEF TypeOK, Writing
  <2>3. CASE m # job[h]
    <3>1. Writers(m)' = Writers(m)
      BY <2>1, <2>3 DEF Writers
    <3>2. Returning(m)' => Returning(m)
      BY <2>1, <2>3 DEF Returning, InFlight
    <3>3. stored'[m] = stored[m]
      BY <1>10, <2>2, <2>3 DEF WriteRefused, WriteFails, Commit, CommitUnknown,
         CommitApplied, TypeOK
    <3>4. faults' = faults \/ faults' = faults + 1
      BY <1>10 DEF WriteRefused, WriteFails, Commit, CommitUnknown, Fault
    <3> QED BY <1>0, <1>b, <2>1, <3>1, <3>2, <3>3, <3>4, QuietKeepsBudget
  <2>4. CASE m = job[h]
    <3>1. h \in Writers(m) /\ Writers(m)' = Writers(m) \ {h}
      BY <2>1, <2>4 DEF Writers
    <3>2. CASE WriteRefused(h)
      BY <1>0, <1>b, <2>1, <3>1, <3>2, LeavingKeepsBudget DEF WriteRefused
    <3>3. CASE WriteFails(h)
      BY <1>0, <1>b, <2>1, <3>1, <3>3, QuietKeepsBudget DEF WriteFails, Fault
    <3>4. CASE CommitUnknown(h)
      <4>1. stored'[m] = stored[m] + 1 /\ faults' = faults + 1
        BY <2>4, <3>4 DEF CommitUnknown, CommitApplied, Fault, TypeOK
      <4> QED BY <1>0, <1>b, <2>1, <3>1, <4>1, LeavingKeepsBudget
    <3>5. CASE Commit(h)
      <4>1. stored'[m] = stored[m] + 1 /\ faults' = faults
        BY <2>4, <3>5 DEF Commit, CommitApplied, TypeOK
      <4>2. pc'[h] # "failed"
        BY <3>5 DEF Commit, To, TypeOK
      <4>3. Returning(m)' => Returning(m)
        BY <2>1, <4>2 DEF Returning, InFlight
      <4> QED BY <1>0, <1>b, <2>1, <3>1, <4>1, <4>3, LeavingKeepsBudget
    <3> QED BY <1>10, <3>2, <3>3, <3>4, <3>5
  <2> QED BY <2>3, <2>4
<1>11. ASSUME NEW h \in Handler, Ack(h) \/ Reject(h) PROVE Goal
  <2>1. /\ UNCHANGED <<unsent, stored, faults, stopping, conn>>
        /\ live' = [live EXCEPT ![h] = FALSE]
        /\ pc' = [pc EXCEPT ![h] = "idle"] /\ job' = [job EXCEPT ![h] = None]
    BY <1>11 DEF Ack, Reject, BrokerAck, BrokerRequeue, Finished
  <2>2. /\ pc'[h] = "idle" /\ ~live'[h]
        /\ \A g \in Handler \ {h} : pc'[g] = pc[g] /\ job'[g] = job[g] /\ live'[g] = live[g]
    BY <2>1 DEF TypeOK
  <2>3. Writers(m)' \subseteq Writers(m)
    BY <2>2 DEF Writers, Writing
  <2>4. m \in ready' => m \in ready \/ (live[h] /\ job[h] = m /\ pc[h] = "failed")
    BY <1>11 DEF Ack, Reject, BrokerAck, BrokerRequeue
  <2>5. Returning(m)' => Returning(m)
    BY <2>1, <2>2, <2>4 DEF Returning, InFlight
  <2> QED BY <1>0, <1>b, <2>1, <2>3, <2>5, QuietKeepsBudget
<1>12. CASE UNCHANGED vars
  BY <1>0, <1>a, <1>b, <1>c, <1>12, QuietKeepsBudget DEF vars
<1> QED
  BY <1>1, <1>2, <1>3, <1>4, <1>5, <1>6, <1>7, <1>8, <1>9, <1>10, <1>11, <1>12
  DEF Next, Lifecycle, Task

(* A message leaves at most one row in position_events, and one more for     *)
(* each fault: reconnects, requeues and overlapping handlers of the same     *)
(* message (app.py, consumer.py) never duplicate it for free.                *)
THEOREM DuplicatesTheorem == Spec => []DuplicatesNeedFaults
<1>1. Init => LiveNeedsChannel /\ DuplicateBudget /\ OneHolder
  <2> SUFFICES ASSUME Init PROVE LiveNeedsChannel /\ DuplicateBudget /\ OneHolder
    OBVIOUS
  <2>1. LiveNeedsChannel /\ OneHolder
    BY DEF Init, LiveNeedsChannel, OneHolder, Unacked, InFlight
  <2>2. ASSUME NEW m \in Msg PROVE Rows(m) <= 1 + faults
    <3>1. Writers(m) = {} /\ Stopping = {}
      BY DEF Init, Writers, Writing, Stopping
    <3>2. Cardinality(Writers(m)) = 0 /\ Cardinality(Stopping) = 0
      BY <3>1, FS_EmptySet
    <3>3. stored[m] = 0 /\ faults = 0
      BY DEF Init
    <3> QED BY <3>2, <3>3 DEF Rows
  <2> QED BY <2>1, <2>2 DEF DuplicateBudget
<1>2. TypeOK /\ TypeOK' /\ OneHolder /\ LiveNeedsChannel /\ DuplicateBudget /\ [Next]_vars
        => (LiveNeedsChannel /\ DuplicateBudget)'
  BY ChannelStep, BudgetStep
<1>3. TypeOK /\ DuplicateBudget => DuplicatesNeedFaults
  <2> SUFFICES ASSUME TypeOK, DuplicateBudget, NEW m \in Msg PROVE stored[m] <= 1 + faults
    BY DEF DuplicatesNeedFaults
  <2>1. Rows(m) <= 1 + faults
    BY DEF DuplicateBudget
  <2>2. stored[m] \in Nat /\ faults \in Nat
    BY ConsumerAssumption DEF TypeOK
  <2> QED BY <2>1, <2>2, Counted DEF Rows
<1> QED
  BY <1>1, <1>2, <1>3, TypeCorrect, HolderTheorem, PTL DEF Spec
==============================================================================
