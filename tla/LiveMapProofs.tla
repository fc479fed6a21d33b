---------------------------- MODULE LiveMapProofs ----------------------------
(****************************************************************************)
(* Theorems about the feed and the browser (WsFeed.tla, LiveMap.tla) for    *)
(* every number of connections, tags, events, faults and queue sizes.       *)
(****************************************************************************)
EXTENDS LiveMap, TLAPS

(* The frames of positions_ws and what can be read off them.                 *)
LEMMA FrameTypes ==
    /\ OpenFrame \in Frame
    /\ \A r \in Table : SnapshotFrame(r) \in Frame
    /\ \A m \in Msg : EnvelopeFrame(m) \in Frame
    /\ \A f \in Frame : /\ f.type \in {"open", "snapshot", "envelope"}
                        /\ f.type = "snapshot" => f.rows \in Table
                        /\ f.type = "envelope" => f.msg \in Msg
BY DEF Frame, OpenFrame, SnapshotFrame, EnvelopeFrame

(* What the three kinds of frames carry.                                     *)
LEMMA FrameFields ==
    /\ OpenFrame.type = "open"
    /\ \A r : SnapshotFrame(r).type = "snapshot" /\ SnapshotFrame(r).rows = r
    /\ \A m : EnvelopeFrame(m).type = "envelope" /\ EnvelopeFrame(m).msg = m
BY DEF OpenFrame, SnapshotFrame, EnvelopeFrame

(* What a queue or a wire holds.                                             *)
LEMMA ElemsType == ASSUME NEW X, NEW q \in Seq(X) PROVE Elems(q) \subseteq X
BY DEF Elems

(* A queue or a wire after put and get.                                      *)
LEMMA AppendElems ==
    ASSUME NEW X, NEW q \in Seq(X), NEW x \in X
    PROVE  /\ Append(q, x) \in Seq(X) /\ Len(Append(q, x)) = Len(q) + 1
           /\ Elems(Append(q, x)) = Elems(q) \cup {x}
<1>1. /\ Append(q, x) \in Seq(X) /\ Len(Append(q, x)) = Len(q) + 1
      /\ \A i \in 1..Len(q) : Append(q, x)[i] = q[i]
      /\ Append(q, x)[Len(q) + 1] = x
      /\ DOMAIN q = 1..Len(q) /\ DOMAIN Append(q, x) = 1..(Len(q) + 1)
      /\ Len(q) \in Nat
  OBVIOUS
<1>2. \A y : y \in Elems(Append(q, x)) <=> y \in Elems(q) \cup {x}
  BY <1>1 DEF Elems
<1> QED BY <1>1, <1>2

(* Taking the first frame from a wire leaves the others.                     *)
LEMMA TailElems ==
    ASSUME NEW X, NEW q \in Seq(X), q # <<>>
    PROVE  /\ Head(q) \in X /\ Tail(q) \in Seq(X) /\ Len(Tail(q)) = Len(q) - 1
           /\ Elems(q) = Elems(Tail(q)) \cup {Head(q)}
<1>1. /\ Head(q) \in X /\ Tail(q) \in Seq(X) /\ Len(Tail(q)) = Len(q) - 1
      /\ Len(q) \in Nat \ {0} /\ Head(q) = q[1]
      /\ \A i \in 1..(Len(q) - 1) : Tail(q)[i] = q[i + 1]
      /\ DOMAIN q = 1..Len(q) /\ DOMAIN Tail(q) = 1..(Len(q) - 1)
  OBVIOUS
<1>2. ASSUME NEW i \in 1..Len(q) PROVE q[i] \in Elems(Tail(q)) \cup {Head(q)}
  <2>1. CASE i = 1
    BY <1>1, <2>1
  <2>2. CASE i # 1
    <3>1. i - 1 \in 1..(Len(q) - 1) /\ q[i] = Tail(q)[i - 1]
      BY <1>1, <2>2
    <3> QED BY <1>1, <3>1 DEF Elems
  <2> QED BY <2>1, <2>2
<1>3. ASSUME NEW i \in 1..(Len(q) - 1) PROVE Tail(q)[i] \in Elems(q)
  <2>1. i + 1 \in 1..Len(q)
    BY <1>1
  <2> QED BY <1>1, <2>1 DEF Elems
<1>4. Head(q) \in Elems(q)
  BY <1>1 DEF Elems
<1>5. Elems(q) \subseteq Elems(Tail(q)) \cup {Head(q)}
  BY <1>1, <1>2 DEF Elems
<1>6. Elems(Tail(q)) \subseteq Elems(q)
  BY <1>1, <1>3 DEF Elems
<1> QED BY <1>1, <1>4, <1>5, <1>6

(* Both row rules keep a row a row.                                          *)
LEMMA RowTypes ==
    ASSUME NEW r \in Row, NEW m \in Msg PROVE Upsert(r, m) \in Msg /\ Merge(r, m) \in Msg
BY DEF Upsert, Merge, Row

(* A step of the feed keeps its variables in their types.                    *)
LEMMA FeedTypeStep == ASSUME FeedTypeOK, FeedNext PROVE FeedTypeOK'
<1> USE PositionsAssumption, FeedAssumption
<1> USE DEF FeedTypeOK, storeVars, connVars, feedVars
<1>1. FeedFault => faults' \in 0..MaxFaults
  BY DEF FeedFault
<1>2. ASSUME NEW m \in Msg, Committed(m) PROVE current' \in Table
  BY <1>2, RowTypes DEF Committed, Table, Row
<1>3. ASSUME NEW m \in Msg, EventCommitted(m) \/ EventCommittedSilently(m) PROVE FeedTypeOK'
  <2>1. current' \in Table /\ pending' \subseteq Msg
    BY <1>2, <1>3
    DEF EventCommitted, EventCommittedSilently, StoreCommit, StoreCommitUnannounced
  <2>2. missed' \in [Conn -> SUBSET Msg] /\ faults' \in 0..MaxFaults
    <3>1. CASE EventCommitted(m)
      BY <3>1 DEF EventCommitted
    <3>2. CASE EventCommittedSilently(m)
      <4>1. \A s \in Conn : missed[s] \cup {m} \in SUBSET Msg /\ missed[s] \in SUBSET Msg
        OBVIOUS
      <4>2. missed' \in [Conn -> SUBSET Msg]
        BY <3>2, <4>1 DEF EventCommittedSilently
      <4> QED BY <1>1, <3>2, <4>2 DEF EventCommittedSilently
    <3> QED BY <1>3, <3>1, <3>2
  <2> QED BY <1>3, <2>1, <2>2 DEF EventCommitted, EventCommittedSilently
<1>4. ASSUME NEW m \in Msg, Publish(m) PROVE FeedTypeOK'
  <2>1. \A s \in Conn : HasRoom(s) => /\ Append(queue[s], m) \in Seq(Msg)
                                      /\ Len(Append(queue[s], m)) <= QueueMax
    BY AppendElems DEF HasRoom
  <2>2. queue' \in [Conn -> Seq(Msg)] /\ \A s \in Conn : Len(queue'[s]) <= QueueMax
    BY <1>4, <2>1 DEF Publish
  <2>3. missed' \in [Conn -> SUBSET Msg]
    BY <1>4 DEF Publish
  <2> QED BY <1>4, <2>2, <2>3 DEF Publish, StoreAnnounce
<1>5. NoRows \in Table
  BY DEF NoRows, Table, Row
<1>6. CASE ServerDown
  <2>1. /\ phase' \in [Conn -> {"idle", "requested", "subscribed", "snapped", "live"}]
        /\ queue' \in [Conn -> Seq(Msg)] /\ \A s \in Conn : Len(queue'[s]) <= QueueMax
        /\ snap' \in [Conn -> Table] /\ open' \in [Conn -> BOOLEAN]
        /\ missed' \in [Conn -> SUBSET Msg]
    BY <1>5, <1>6 DEF ServerDown
  <2> QED BY <1>1, <1>6, <2>1 DEF ServerDown, StoreForget
<1>7. CASE ServerUp
  BY <1>7 DEF ServerUp
<1>8. ASSUME NEW s \in Conn, Accept(s) PROVE FeedTypeOK'
  <2>1. <<OpenFrame>> \in Seq(Frame)
    BY FrameTypes
  <2> QED BY <1>8, <2>1 DEF Accept
<1>9. ASSUME NEW s \in Conn, ReadSnapshot(s) PROVE FeedTypeOK'
  BY <1>9 DEF ReadSnapshot
<1>10. ASSUME NEW s \in Conn, SnapshotFails(s) \/ SendFails(s) PROVE FeedTypeOK'
  <2>1. Unsubscribe(s)
    BY <1>10 DEF SnapshotFails, SendFails
  <2>2. queue' \in [Conn -> Seq(Msg)] /\ \A c \in Conn : Len(queue'[c]) <= QueueMax
    BY <2>1 DEF Unsubscribe
  <2> QED BY <1>1, <1>5, <1>10, <2>1, <2>2 DEF SnapshotFails, SendFails, Unsubscribe
<1>11. ASSUME NEW s \in Conn, SendSnapshot(s) \/ SkipStale(s) \/ Forward(s) PROVE FeedTypeOK'
  <2>1. queue[s] # <<>> => /\ Head(queue[s]) \in Msg /\ Tail(queue[s]) \in Seq(Msg)
                           /\ Len(Tail(queue[s])) <= QueueMax
    BY TailElems
  <2>2. SnapshotFrame(snap[s]) \in Frame
    BY FrameTypes
  <2>3. queue[s] # <<>> => EnvelopeFrame(Head(queue[s])) \in Frame
    BY <2>1, FrameTypes
  <2>4. \A f \in Frame : Append(wire[s], f) \in Seq(Frame)
    OBVIOUS
  <2>5. CASE SendSnapshot(s)
    BY <2>2, <2>4, <2>5 DEF SendSnapshot, Send
  <2>6. CASE SkipStale(s)
    BY <2>1, <2>6 DEF SkipStale
  <2>7. CASE Forward(s)
    BY <2>1, <2>3, <2>4, <2>7 DEF Forward, Send
  <2> QED BY <1>11, <2>5, <2>6, <2>7
<1> QED
  BY <1>3, <1>4, <1>6, <1>7, <1>8, <1>9, <1>10, <1>11 DEF FeedNext

(* A step of the browser keeps every variable in its type.                   *)
LEMMA ClientTypeStep == ASSUME TypeOK, ClientNext PROVE TypeOK'
<1> USE PositionsAssumption, FeedAssumption, ClientAssumption
<1> USE DEF TypeOK, FeedTypeOK, storeVars, connVars, feedVars, clientVars, socketVars
<1>1. FeedFault => faults' \in 0..MaxFaults
  BY DEF FeedFault
<1>2. <<>> \in Seq(Frame)
  OBVIOUS
<1>a. ASSUME NEW s \in Conn, NewSocket(s)
      PROVE  /\ sock' \in Conn /\ attached' \subseteq Conn /\ gotSnapshot' \in BOOLEAN
             /\ wsState' \in {"disconnected", "connecting", "reconnecting", "connected"}
  <2>1. gotSnapshot' \in BOOLEAN
    BY <1>a DEF NewSocket, ResetSnapshotFlag
  <2> QED BY <1>a, <2>1 DEF NewSocket
<1>3. ASSUME NEW s \in Conn, Connect(s) PROVE TypeOK'
  <2>1. due' \in Nat /\ NewSocket(s)
    BY <1>3 DEF Connect
  <2>2. /\ phase' \in [Conn -> {"idle", "requested", "subscribed", "snapped", "live"}]
        /\ open' \in [Conn -> BOOLEAN]
    BY <1>3 DEF Connect
  <2> QED BY <1>3, <1>a, <2>1, <2>2 DEF Connect, NewSocket
<1>4. ASSUME NEW s \in Conn, Remount(s) PROVE TypeOK'
  <2>1. sock \in Conn
    BY <1>4 DEF Remount
  <2>2. wire' \in [Conn -> Seq(Frame)]
    BY <1>2, <1>4, <2>1 DEF Remount
  <2>3. phase' \in [Conn -> {"idle", "requested", "subscribed", "snapped", "live"}]
    BY <1>4, <2>1 DEF Remount
  <2>4. open' \in [Conn -> BOOLEAN]
    BY <1>4, <2>1 DEF Remount
  <2>5. remounts' \in 0..MaxRemounts /\ faults' \in 0..MaxFaults /\ NewSocket(s)
    BY <1>1, <1>4 DEF Remount
  <2> QED BY <1>4, <1>a, <2>2, <2>3, <2>4, <2>5 DEF Remount, NewSocket
<1>5. ASSUME NEW s \in Conn, ConnectionBreaks(s) \/ ConnectionRefused(s) PROVE TypeOK'
  BY <1>1, <1>5 DEF ConnectionBreaks, ConnectionRefused, Broken
<1>6. ASSUME NEW s \in Conn, OnClose(s) PROVE TypeOK'
  <2>1. wire' \in [Conn -> Seq(Frame)]
    BY <1>2, <1>6 DEF OnClose
  <2> QED BY <1>6, <2>1 DEF OnClose, ScheduleReconnect
<1>7. ASSUME NEW s \in Conn,
             OnOpen(s) \/ OnSnapshot(s) \/ OnStraySnapshot(s) \/ OnEnvelope(s)
      PROVE  TypeOK'
  <2>1. wire[s] # <<>> /\ Handled(s)
    BY <1>7 DEF OnOpen, OnSnapshot, OnStraySnapshot, OnEnvelope, NextFrame
  <2>2. Head(wire[s]) \in Frame /\ Tail(wire[s]) \in Seq(Frame)
    BY <2>1, TailElems
  <2>3. wire' \in [Conn -> Seq(Frame)]
    BY <2>1, <2>2 DEF Handled
  <2>4. view' \in Table
    <3>1. CASE OnSnapshot(s)
      BY <2>2, <3>1, FrameTypes DEF OnSnapshot, NextFrame
    <3>2. CASE OnEnvelope(s)
      <4>1. Head(wire[s]).msg \in Msg
        BY <2>2, <3>2, FrameTypes DEF OnEnvelope, NextFrame
      <4>2. \A r \in Row : Merge(r, Head(wire[s]).msg) \in Row
        BY <4>1, RowTypes DEF Row
      <4>3. view' = [view EXCEPT ![TagOf[Head(wire[s]).msg]] = Merge(@, Head(wire[s]).msg)]
        BY <3>2 DEF OnEnvelope
      <4> QED BY <4>1, <4>2, <4>3 DEF Table
    <3> QED BY <1>7, <3>1, <3>2 DEF OnOpen, OnStraySnapshot
  <2>5. /\ retries' \in 0..MaxRetries
        /\ wsState' \in {"disconnected", "connecting", "reconnecting", "connected"}
    BY <1>7 DEF OnOpen, OnSnapshot, OnStraySnapshot, OnEnvelope
  <2>6. gotSnapshot' = gotSnapshot \/ gotSnapshot' = TRUE
    BY <1>7 DEF OnOpen, OnSnapshot, OnStraySnapshot, OnEnvelope
  <2> QED BY <2>1, <2>3, <2>4, <2>5, <2>6 DEF Handled
<1> QED BY <1>3, <1>4, <1>5, <1>6, <1>7 DEF ClientNext

(* Every step keeps the types.                                               *)
LEMMA TypeStep == ASSUME TypeOK, [Next]_vars PROVE TypeOK'
<1>1. CASE FeedNext /\ UNCHANGED clientVars
  BY <1>1, FeedTypeStep DEF TypeOK, clientVars, socketVars
<1>2. CASE UNCHANGED vars
  BY <1>2 DEF vars, TypeOK, FeedTypeOK, storeVars, connVars, feedVars, clientVars, socketVars
<1> QED BY <1>1, <1>2, ClientTypeStep DEF Next

(* Type correctness for every instance: no subscriber's queue exceeds the    *)
(* maxsize of Broadcast, and every frame is one the client knows.            *)
THEOREM LiveMapTypeCorrect == Spec => []TypeOK
<1>1. Init => TypeOK
  <2> SUFFICES ASSUME Init PROVE TypeOK
    OBVIOUS
  <2>1. NoRows \in Table
    BY DEF NoRows, Table, Row
  <2>2. \A s \in Conn : Len(queue[s]) <= QueueMax
    BY FeedAssumption DEF Init, FeedInit
  <2>3. /\ queue \in [Conn -> Seq(Msg)] /\ wire \in [Conn -> Seq(Frame)]
        /\ missed \in [Conn -> SUBSET Msg] /\ open \in [Conn -> BOOLEAN]
        /\ phase \in [Conn -> {"idle", "requested", "subscribed", "snapped", "live"}]
    BY DEF Init, FeedInit
  <2>4. current \in Table /\ view \in Table /\ snap \in [Conn -> Table]
    BY <2>1 DEF Init, FeedInit, StoreInit, NoRows
  <2>5. up \in BOOLEAN /\ gotSnapshot \in BOOLEAN
    BY DEF Init, FeedInit
  <2>6. faults \in 0..MaxFaults /\ retries \in 0..MaxRetries /\ remounts \in 0..MaxRemounts
    BY FeedAssumption, ClientAssumption DEF Init, FeedInit
  <2> QED
    BY <2>2, <2>3, <2>4, <2>5, <2>6
    DEF Init, FeedInit, StoreInit, TypeOK, FeedTypeOK
<1> QED BY <1>1, TypeStep, PTL DEF Spec
------------------------------------------------------------------------------
(* An event, the rows of a table and a frame are covered by table c when it  *)
(* has, for each of their tags, a row at least as new.                       *)
Covers(c, m) == AtLeast(c[TagOf[m]], m)
CoversRows(c, r) == \A t \in Tag : AtLeast(c[t], r[t])
CoversFrame(c, f) ==
    /\ f.type = "snapshot" => CoversRows(c, f.rows)
    /\ f.type = "envelope" => Covers(c, f.msg)

(* Why ViewIsCommitted is inductive: the table covers everything that is on  *)
(* its way from a commit to the screen.                                      *)
EverythingCommitted ==
    /\ \A m \in pending : Covers(current, m)
    /\ \A s \in Conn : /\ \A m \in Elems(queue[s]) : Covers(current, m)
                       /\ CoversRows(current, snap[s])
                       /\ \A f \in Elems(wire[s]) : CoversFrame(current, f)
    /\ CoversRows(current, view)

(* At least as new is a preorder on rows.                                    *)
LEMMA AtLeastOrder ==
    /\ \A a \in Row : AtLeast(a, a) /\ AtLeast(a, None)
    /\ \A a, b, c \in Row : AtLeast(a, b) /\ AtLeast(b, c) => AtLeast(a, c)
BY PositionsAssumption DEF AtLeast, Row

(* The UPSERT and the merge keep the newer of the two.                       *)
LEMMA RowRules ==
    ASSUME NEW r \in Row, NEW m \in Msg
    PROVE  /\ AtLeast(Upsert(r, m), r) /\ AtLeast(Upsert(r, m), m)
           /\ AtLeast(Merge(r, m), r) /\ AtLeast(Merge(r, m), m)
           /\ Merge(r, m) \in {r, m} /\ Upsert(r, m) \in {r, m}
BY PositionsAssumption DEF AtLeast, Upsert, Merge, Row

(* What a table covers, every newer table covers.                            *)
LEMMA NewerCovers ==
    ASSUME NEW c \in Table, NEW d \in Table, CoversRows(d, c)
    PROVE  /\ \A m \in Msg : Covers(c, m) => Covers(d, m)
           /\ \A r \in Table : CoversRows(c, r) => CoversRows(d, r)
           /\ \A f \in Frame : CoversFrame(c, f) => CoversFrame(d, f)
<1>1. ASSUME NEW m \in Msg, Covers(c, m) PROVE Covers(d, m)
  <2>1. TagOf[m] \in Tag
    BY PositionsAssumption
  <2>2. c[TagOf[m]] \in Row /\ d[TagOf[m]] \in Row /\ m \in Row
    BY <2>1 DEF Table, Row
  <2> QED BY <1>1, <2>1, <2>2, AtLeastOrder DEF Covers, CoversRows
<1>2. ASSUME NEW r \in Table, CoversRows(c, r), NEW t \in Tag PROVE AtLeast(d[t], r[t])
  <2>1. c[t] \in Row /\ d[t] \in Row /\ r[t] \in Row
    BY DEF Table
  <2> QED BY <1>2, <2>1, AtLeastOrder DEF CoversRows
<1>3. \A r \in Table : CoversRows(c, r) => CoversRows(d, r)
  BY <1>2 DEF CoversRows
<1>4. ASSUME NEW f \in Frame, CoversFrame(c, f) PROVE CoversFrame(d, f)
  BY <1>1, <1>3, <1>4, FrameTypes DEF CoversFrame
<1> QED BY <1>1, <1>3, <1>4

(* A table covers itself; every table covers the empty one.                  *)
LEMMA SelfCovers ==
    ASSUME NEW c \in Table PROVE CoversRows(c, c) /\ CoversRows(c, NoRows)
<1>1. \A t \in Tag : c[t] \in Row /\ NoRows[t] = None
  BY DEF Table, NoRows
<1> QED BY <1>1, AtLeastOrder DEF CoversRows

(* A commit leaves a table that covers the old one and the event.            *)
LEMMA CommitCovers ==
    ASSUME TypeOK, NEW m \in Msg, Committed(m)
    PROVE  CoversRows(current', current) /\ Covers(current', m)
<1>1. TagOf[m] \in Tag /\ \A t \in Tag : current[t] \in Row
  BY PositionsAssumption DEF TypeOK, FeedTypeOK, Table
<1>2. /\ current'[TagOf[m]] = Upsert(current[TagOf[m]], m)
      /\ \A t \in Tag : t # TagOf[m] => current'[t] = current[t]
  BY <1>1 DEF Committed, TypeOK, FeedTypeOK, Table
<1>3. ASSUME NEW t \in Tag PROVE AtLeast(current'[t], current[t])
  <2>1. CASE t = TagOf[m]
    BY <1>1, <1>2, <2>1, RowRules
  <2>2. CASE t # TagOf[m]
    BY <1>1, <1>2, <2>2, AtLeastOrder
  <2> QED BY <2>1, <2>2
<1> QED BY <1>1, <1>2, <1>3, RowRules DEF CoversRows, Covers

(* Only a commit changes the table.                                          *)
LEMMA TableSteps ==
    ASSUME [Next]_vars PROVE UNCHANGED current \/ \E m \in Msg : Committed(m)
BY DEF Next, vars, FeedNext, EventCommitted, EventCommittedSilently, Publish, ServerDown,
   ServerUp, StoreCommit, StoreCommitUnannounced, StoreAnnounce, StoreForget,
   Accept, ReadSnapshot, SnapshotFails, SendSnapshot, SendFails, SkipStale, Forward,
   ClientNext, Connect, Remount, NewSocket, ConnectionBreaks, ConnectionRefused, Broken,
   OnClose, OnOpen, OnSnapshot, OnStraySnapshot, OnEnvelope, Handled, storeVars

(* The table only moves forward.                                             *)
LEMMA TableForward ==
    ASSUME TypeOK, [Next]_vars PROVE CoversRows(current', current)
<1>1. CASE UNCHANGED current
  BY <1>1, SelfCovers DEF TypeOK, FeedTypeOK
<1> QED BY <1>1, TableSteps, CommitCovers

(* What one step may move: an event from pending into a queue, a row of the  *)
(* table into a snapshot, a snapshot or the head of a queue onto a wire, and *)
(* a frame from a wire onto the screen.                                      *)
Moves ==
    /\ \A m \in pending' : m \in pending \/ Committed(m)
    /\ \A s \in Conn :
          /\ Elems(queue'[s]) \subseteq Elems(queue[s]) \cup pending
          /\ snap'[s] \in {snap[s], current, NoRows}
          /\ \A f \in Elems(wire'[s]) :
                \/ f \in Elems(wire[s])
                \/ f = OpenFrame
                \/ f = SnapshotFrame(snap[s])
                \/ \E m \in Elems(queue[s]) : f = EnvelopeFrame(m)
    /\ \/ view' = view
       \/ \E s \in Conn : \E f \in Elems(wire[s]) : f.type = "snapshot" /\ view' = f.rows
       \/ \E s \in Conn : \E f \in Elems(wire[s]) :
             f.type = "envelope" /\ view' = [view EXCEPT ![TagOf[f.msg]] = Merge(@, f.msg)]

(* Every step moves no more than that.                                       *)
LEMMA WhatMoves == ASSUME TypeOK, [Next]_vars PROVE Moves
<1> USE DEF storeVars, connVars, feedVars, clientVars, socketVars
<1>q. \A s \in Conn : queue[s] \in Seq(Msg) /\ wire[s] \in Seq(Frame)
  BY DEF TypeOK, FeedTypeOK
<1>e. Elems(<<>>) = {} /\ Elems(<<OpenFrame>>) = {OpenFrame}
  BY DEF Elems
<1>1. ASSUME NEW m \in Msg, EventCommitted(m) \/ EventCommittedSilently(m),
             UNCHANGED clientVars
      PROVE  Moves
  <2>1. Committed(m) /\ pending' \subseteq pending \cup {m} /\ UNCHANGED <<queue, snap, wire, view>>
    BY <1>1 DEF EventCommitted, EventCommittedSilently, StoreCommit, StoreCommitUnannounced
  <2> QED BY <2>1 DEF Moves
<1>2. ASSUME NEW m \in Msg, Publish(m), UNCHANGED clientVars PROVE Moves
  <2>1. m \in pending /\ pending' \subseteq pending /\ UNCHANGED <<snap, wire, view>>
    BY <1>2 DEF Publish, StoreAnnounce
  <2>2. ASSUME NEW s \in Conn PROVE Elems(queue'[s]) \subseteq Elems(queue[s]) \cup {m}
    <3>1. queue'[s] \in {queue[s], Append(queue[s], m)}
      BY <1>2 DEF Publish
    <3> QED BY <1>q, <3>1, AppendElems
  <2> QED BY <2>1, <2>2 DEF Moves
<1>3. ASSUME ServerDown \/ ServerUp, UNCHANGED clientVars PROVE Moves
  <2>1. /\ pending' \subseteq pending /\ UNCHANGED <<wire, view>>
        /\ \A s \in Conn : queue'[s] \in {queue[s], <<>>} /\ snap'[s] \in {snap[s], NoRows}
    BY <1>3 DEF ServerDown, ServerUp, StoreForget
  <2> QED BY <1>e, <2>1 DEF Moves
<1>4. ASSUME NEW s \in Conn, Accept(s) \/ ReadSnapshot(s), UNCHANGED clientVars PROVE Moves
  <2>1. /\ UNCHANGED <<pending, queue, view>>
        /\ \A c \in Conn : /\ snap'[c] \in {snap[c], current}
                           /\ wire'[c] \in {wire[c], <<OpenFrame>>}
    BY <1>4 DEF Accept, ReadSnapshot, TypeOK, FeedTypeOK
  <2> QED BY <1>e, <2>1 DEF Moves
<1>5. ASSUME NEW s \in Conn, SnapshotFails(s) \/ SendFails(s), UNCHANGED clientVars PROVE Moves
  <2>1. /\ UNCHANGED <<pending, wire, view>>
        /\ \A c \in Conn : queue'[c] \in {queue[c], <<>>} /\ snap'[c] \in {snap[c], NoRows}
    BY <1>5 DEF SnapshotFails, SendFails, Unsubscribe, TypeOK, FeedTypeOK
  <2> QED BY <1>e, <2>1 DEF Moves
<1>6. ASSUME NEW s \in Conn, NEW f \in Frame, Send(s, f), NEW c \in Conn, NEW g \in Elems(wire'[c])
      PROVE  g \in Elems(wire[c]) \/ (c = s /\ g = f)
  <2>1. wire'[c] = wire[c] \/ (c = s /\ wire'[c] = Append(wire[c], f))
    BY <1>6 DEF Send, TypeOK, FeedTypeOK
  <2>2. Elems(Append(wire[c], f)) = Elems(wire[c]) \cup {f}
    BY <1>q, AppendElems
  <2> QED BY <1>6, <2>1, <2>2
<1>7. ASSUME NEW s \in Conn, SendSnapshot(s), UNCHANGED clientVars PROVE Moves
  <2>1. /\ UNCHANGED <<pending, queue, snap, view>> /\ snap[s] \in Table
        /\ Send(s, SnapshotFrame(snap[s]))
    BY <1>7 DEF SendSnapshot, TypeOK, FeedTypeOK
  <2>2. SnapshotFrame(snap[s]) \in Frame
    BY <2>1, FrameTypes
  <2> QED BY <1>6, <2>1, <2>2 DEF Moves
<1>8. ASSUME NEW s \in Conn, SkipStale(s) \/ Forward(s), UNCHANGED clientVars PROVE Moves
  <2>1. /\ UNCHANGED <<pending, snap, view>> /\ queue[s] # <<>>
        /\ queue' = [queue EXCEPT ![s] = Tail(@)]
    BY <1>8 DEF SkipStale, Forward
  <2>2. /\ Head(queue[s]) \in Msg /\ Head(queue[s]) \in Elems(queue[s])
        /\ Elems(Tail(queue[s])) \subseteq Elems(queue[s])
    BY <1>q, <2>1, TailElems
  <2>3. \A c \in Conn : Elems(queue'[c]) \subseteq Elems(queue[c])
    BY <2>1, <2>2 DEF TypeOK, FeedTypeOK
  <2>4. CASE SkipStale(s)
    BY <2>1, <2>3, <2>4 DEF SkipStale, Moves
  <2>5. CASE Forward(s)
    <3>1. EnvelopeFrame(Head(queue[s])) \in Frame /\ Send(s, EnvelopeFrame(Head(queue[s])))
      BY <2>2, <2>5, FrameTypes DEF Forward
    <3> QED BY <1>6, <2>1, <2>2, <2>3, <3>1 DEF Moves
  <2> QED BY <1>8, <2>4, <2>5
<1>9. ASSUME NEW s \in Conn,
             Connect(s) \/ Remount(s) \/ ConnectionBreaks(s) \/ ConnectionRefused(s) \/ OnClose(s)
      PROVE  Moves
  <2>1. UNCHANGED <<pending, queue, snap, view>>
    BY <1>9 DEF Connect, Remount, NewSocket, ConnectionBreaks, ConnectionRefused, Broken, OnClose
  <2>2. \A c \in Conn : wire'[c] \in {wire[c], <<>>}
    BY <1>9 DEF Connect, Remount, ConnectionBreaks, ConnectionRefused, Broken, OnClose,
       TypeOK, FeedTypeOK
  <2> QED BY <1>e, <2>1, <2>2 DEF Moves
<1>10. ASSUME NEW s \in Conn,
              OnOpen(s) \/ OnSnapshot(s) \/ OnStraySnapshot(s) \/ OnEnvelope(s)
       PROVE  Moves
  <2>1. wire[s] # <<>> /\ Handled(s)
    BY <1>10 DEF OnOpen, OnSnapshot, OnStraySnapshot, OnEnvelope, NextFrame
  <2>2. /\ Head(wire[s]) \in Elems(wire[s])
        /\ Elems(Tail(wire[s])) \subseteq Elems(wire[s])
    BY <1>q, <2>1, TailElems
  <2>3. UNCHANGED <<pending, queue, snap>>
    BY <2>1 DEF Handled
  <2>4. \A c \in Conn : Elems(wire'[c]) \subseteq Elems(wire[c])
    BY <2>1, <2>2 DEF Handled, TypeOK, FeedTypeOK
  <2>5. CASE OnSnapshot(s)
    BY <2>2, <2>3, <2>4, <2>5 DEF OnSnapshot, NextFrame, Moves
  <2>6. CASE OnEnvelope(s)
    BY <2>2, <2>3, <2>4, <2>6 DEF OnEnvelope, NextFrame, Moves
  <2>7. CASE OnOpen(s) \/ OnStraySnapshot(s)
    BY <2>3, <2>4, <2>7 DEF OnOpen, OnStraySnapshot, Moves
  <2> QED BY <1>10, <2>5, <2>6, <2>7
<1>11. CASE UNCHANGED vars
  BY <1>11 DEF vars, Moves
<1> QED
  BY <1>1, <1>2, <1>3, <1>4, <1>5, <1>7, <1>8, <1>9, <1>10, <1>11
  DEF Next, FeedNext, ClientNext

(* Nothing overtakes its own commit.                                         *)
LEMMA CommittedStep ==
    ASSUME TypeOK, TypeOK', EverythingCommitted, [Next]_vars PROVE EverythingCommitted'
<1>0. CoversRows(current', current) /\ Moves
  BY TableForward, WhatMoves
<1>1. /\ \A m \in Msg : Covers(current, m) => Covers(current', m)
      /\ \A r \in Table : CoversRows(current, r) => CoversRows(current', r)
      /\ \A f \in Frame : CoversFrame(current, f) => CoversFrame(current', f)
  BY <1>0, NewerCovers DEF TypeOK, FeedTypeOK
<1>2. /\ pending \subseteq Msg /\ pending' \subseteq Msg /\ view \in Table /\ view' \in Table
      /\ \A s \in Conn : /\ Elems(queue[s]) \subseteq Msg
                         /\ Elems(wire[s]) \subseteq Frame /\ Elems(wire'[s]) \subseteq Frame
                         /\ snap'[s] \in Table
  BY ElemsType DEF TypeOK, FeedTypeOK
<1>3. CoversRows(current, current) /\ CoversRows(current, NoRows)
  BY SelfCovers DEF TypeOK, FeedTypeOK
<1>4. \A m \in pending' : Covers(current', m)
  BY <1>0, <1>1, <1>2, CommitCovers DEF EverythingCommitted, Moves
<1>5. ASSUME NEW s \in Conn
      PROVE  /\ \A m \in Elems(queue'[s]) : Covers(current', m)
             /\ CoversRows(current', snap'[s])
             /\ \A f \in Elems(wire'[s]) : CoversFrame(current', f)
  <2>1. \A m \in Elems(queue'[s]) : Covers(current', m)
    BY <1>0, <1>1, <1>2 DEF EverythingCommitted, Moves
  <2>2. CoversRows(current', snap'[s])
    BY <1>0, <1>1, <1>2, <1>3 DEF EverythingCommitted, Moves
  <2>3. /\ CoversFrame(current, OpenFrame)
        /\ CoversFrame(current, SnapshotFrame(snap[s]))
        /\ \A m \in Elems(queue[s]) : CoversFrame(current, EnvelopeFrame(m))
    BY FrameFields DEF CoversFrame, EverythingCommitted
  <2>4. \A f \in Elems(wire'[s]) : CoversFrame(current, f)
    BY <1>0, <2>3 DEF EverythingCommitted, Moves
  <2> QED BY <1>1, <1>2, <2>1, <2>2, <2>4
<1>6. CoversRows(current, view')
  <2>1. CASE view' = view
    BY <2>1 DEF EverythingCommitted
  <2>2. ASSUME NEW s \in Conn, NEW f \in Elems(wire[s]), f.type = "snapshot", view' = f.rows
        PROVE  CoversRows(current, view')
    BY <2>2 DEF EverythingCommitted, CoversFrame
  <2>3. ASSUME NEW s \in Conn, NEW f \in Elems(wire[s]), f.type = "envelope",
               view' = [view EXCEPT ![TagOf[f.msg]] = Merge(@, f.msg)]
        PROVE  CoversRows(current, view')
    <3> DEFINE m == f.msg
    <3>1. m \in Msg /\ TagOf[m] \in Tag /\ Covers(current, m)
      BY <1>2, <2>3, FrameTypes, PositionsAssumption DEF EverythingCommitted, CoversFrame
    <3>2. view' = [view EXCEPT ![TagOf[m]] = Merge(@, m)]
      BY <2>3
    <3> HIDE DEF m
    <3>3. ASSUME NEW t \in Tag PROVE AtLeast(current[t], view'[t])
      <4>1. view[t] \in Row
        BY <1>2 DEF Table
      <4>2. view'[t] = view[t] \/ (t = TagOf[m] /\ view'[t] \in {view[t], m})
        BY <1>2, <3>1, <3>2, <4>1, RowRules DEF Table
      <4> QED BY <3>1, <4>2 DEF EverythingCommitted, CoversRows, Covers
    <3> QED BY <3>3 DEF CoversRows
  <2> QED BY <1>0, <2>1, <2>2, <2>3 DEF Moves
<1> QED BY <1>1, <1>2, <1>4, <1>5, <1>6 DEF EverythingCommitted

(* The browser never shows a row newer than the table's: what reaches it was *)
(* committed before, whatever the order of commits, publishes and snapshots, *)
(* in development with its remounts as well.                                 *)
THEOREM CommittedTheorem == Spec => []ViewIsCommitted
<1>1. Init => EverythingCommitted
  <2> SUFFICES ASSUME Init PROVE EverythingCommitted
    OBVIOUS
  <2>1. pending = {} /\ view = NoRows /\ current = NoRows
    BY DEF Init, FeedInit, StoreInit, NoRows
  <2>2. \A s \in Conn : Elems(queue[s]) = {} /\ Elems(wire[s]) = {} /\ snap[s] = NoRows
    BY DEF Init, FeedInit, Elems
  <2>3. CoversRows(current, NoRows)
    BY <2>1, SelfCovers DEF NoRows, Table, Row
  <2> QED BY <2>1, <2>2, <2>3 DEF EverythingCommitted
<1>2. TypeOK /\ TypeOK' /\ EverythingCommitted /\ [Next]_vars => EverythingCommitted'
  BY CommittedStep
<1>3. EverythingCommitted => ViewIsCommitted
  BY DEF EverythingCommitted, ViewIsCommitted, CoversRows
<1> QED BY <1>1, <1>2, <1>3, LiveMapTypeCorrect, PTL DEF Spec
==============================================================================
