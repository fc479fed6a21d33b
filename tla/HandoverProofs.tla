---------------------------- MODULE HandoverProofs ---------------------------
(****************************************************************************)
(* What positions_ws and usePositions promise each other in a production    *)
(* build, where the hook is mounted once (MaxRemounts = 0): the snapshot is *)
(* the first thing a socket brings, the map never moves back in time and    *)
(* the handover from snapshot to feed loses nothing.  For every number of   *)
(* connections, tags, events, faults and queue sizes.                       *)
(****************************************************************************)
EXTENDS LiveMapProofs

(* The browser has one socket or one connect to come, never both; a socket   *)
(* that is open has its handlers; a closed one brings nothing more.          *)
OneSocket ==
    /\ due <= 1 /\ (attached # {} => due = 0)
    /\ \A a, b \in attached : a = b
    /\ \A s \in Conn : /\ open[s] => s \in attached
                       /\ phase[s] = "requested" => open[s]
                       /\ s \notin attached => wire[s] = <<>>

HasSnapshot(q) == \E f \in Elems(q) : f.type = "snapshot"

(* One snapshot, before every envelope, in what is left of a wire.           *)
InOrder(q, got) ==
    \A i \in DOMAIN q :
        LET seen == got \/ \E j \in 1..(i-1) : q[j].type = "snapshot"
        IN  /\ q[i].type = "snapshot" => ~seen
            /\ q[i].type = "envelope" => seen

(* The order in which positions_ws sends, seen from the client's side, and   *)
(* the snapshot on its way is at least as new as the map it will replace.    *)
SentInOrder ==
    \A s \in attached :
        /\ InOrder(wire[s], gotSnapshot)
        /\ phase[s] \in {"requested", "subscribed", "snapped"} =>
              ~gotSnapshot /\ \A f \in Elems(wire[s]) : f.type = "open"
        /\ phase[s] = "live" => gotSnapshot \/ HasSnapshot(wire[s])
        /\ phase[s] = "snapped" => CoversRows(snap[s], view)
        /\ \A f \in Elems(wire[s]) : f.type = "snapshot" => CoversRows(f.rows, view)
------------------------------------------------------------------------------
(* One frame more at the end of a wire.                                      *)
LEMMA OrderAppend ==
    ASSUME NEW q \in Seq(Frame), NEW f \in Frame, NEW got \in BOOLEAN, InOrder(q, got),
           f.type = "snapshot" => ~got /\ ~HasSnapshot(q),
           f.type = "envelope" => got \/ HasSnapshot(q)
    PROVE  InOrder(Append(q, f), got)
<1> DEFINE a == Append(q, f)
<1>1. /\ Len(q) \in Nat /\ DOMAIN q = 1..Len(q) /\ DOMAIN a = 1..(Len(q) + 1)
      /\ \A i \in 1..Len(q) : a[i] = q[i]
      /\ a[Len(q) + 1] = f
  OBVIOUS
<1>2. HasSnapshot(q) <=> \E i \in 1..Len(q) : q[i].type = "snapshot"
  BY <1>1 DEF HasSnapshot, Elems
<1> HIDE DEF a
<1> SUFFICES ASSUME NEW i \in 1..(Len(q) + 1)
             PROVE  LET seen == got \/ \E j \in 1..(i-1) : a[j].type = "snapshot"
                    IN  /\ a[i].type = "snapshot" => ~seen
                        /\ a[i].type = "envelope" => seen
  BY <1>1 DEF InOrder, a
<1>3. CASE i \in 1..Len(q)
  <2>1. \A j \in 1..(i-1) : j \in 1..Len(q) /\ a[j] = q[j]
    BY <1>1, <1>3
  <2>2. a[i] = q[i]
    BY <1>1, <1>3
  <2> QED BY <1>1, <1>3, <2>1, <2>2 DEF InOrder
<1>4. CASE i = Len(q) + 1
  <2>1. 1..(i-1) = 1..Len(q)
    BY <1>1, <1>4
  <2> QED BY <1>1, <1>2, <1>4, <2>1
<1> QED BY <1>1, <1>3, <1>4

(* One frame less at its front.                                              *)
LEMMA OrderTail ==
    ASSUME NEW q \in Seq(Frame), q # <<>>, NEW got \in BOOLEAN, InOrder(q, got)
    PROVE  /\ Head(q).type = "snapshot" => ~got /\ InOrder(Tail(q), TRUE)
           /\ Head(q).type = "envelope" => got
           /\ Head(q).type # "snapshot" => InOrder(Tail(q), got)
<1> DEFINE r == Tail(q)
<1>1. /\ Len(q) \in Nat \ {0} /\ DOMAIN q = 1..Len(q) /\ DOMAIN r = 1..(Len(q) - 1)
      /\ \A i \in 1..(Len(q) - 1) : r[i] = q[i + 1]
      /\ Head(q) = q[1]
  OBVIOUS
<1>2. /\ Head(q).type = "snapshot" => ~got
      /\ Head(q).type = "envelope" => got
  BY <1>1 DEF InOrder
<1> HIDE DEF r
<1>3. ASSUME NEW i \in 1..(Len(q) - 1)
      PROVE  /\ i + 1 \in DOMAIN q /\ r[i] = q[i + 1]
             /\ (\E j \in 1..i : q[j].type = "snapshot") <=>
                  \/ q[1].type = "snapshot"
                  \/ \E j \in 1..(i-1) : r[j].type = "snapshot"
  <2>1. i + 1 \in DOMAIN q /\ r[i] = q[i + 1]
    BY <1>1
  <2>2. ASSUME NEW j \in 1..i, q[j].type = "snapshot", j # 1
        PROVE  \E k \in 1..(i-1) : r[k].type = "snapshot"
    <3>1. j - 1 \in 1..(i-1) /\ r[j - 1] = q[j]
      BY <1>1, <2>2
    <3> QED BY <2>2, <3>1
  <2>3. ASSUME NEW j \in 1..(i-1), r[j].type = "snapshot"
        PROVE  \E k \in 1..i : q[k].type = "snapshot"
    <3>1. j + 1 \in 1..i /\ r[j] = q[j + 1]
      BY <1>1
    <3> QED BY <2>3, <3>1
  <2>4. 1 \in 1..i
    BY <1>1
  <2> QED BY <2>1, <2>2, <2>3, <2>4
<1>4. ASSUME NEW i \in 1..(Len(q) - 1)
      PROVE  LET seen == got \/ q[1].type = "snapshot"
                             \/ \E j \in 1..(i-1) : r[j].type = "snapshot"
             IN  /\ r[i].type = "snapshot" => ~seen
                 /\ r[i].type = "envelope" => seen
  <2>1. 1..((i + 1) - 1) = 1..i
    BY <1>1
  <2> QED BY <1>3, <2>1 DEF InOrder
<1>5. ASSUME q[1].type = "snapshot" PROVE InOrder(r, TRUE)
  BY <1>1, <1>4, <1>5 DEF InOrder
<1>6. ASSUME q[1].type # "snapshot" PROVE InOrder(r, got)
  BY <1>1, <1>4, <1>6 DEF InOrder
<1> QED BY <1>1, <1>2, <1>5, <1>6 DEF r

(* After the snapshot there is no other one.                                 *)
LEMMA OrderSeen ==
    ASSUME NEW q, InOrder(q, TRUE) PROVE ~HasSnapshot(q)
BY DEF InOrder, HasSnapshot, Elems

(* An empty wire, and the one Accept leaves.                                 *)
LEMMA OrderStart ==
    ASSUME NEW got \in BOOLEAN
    PROVE  /\ InOrder(<<>>, got) /\ Elems(<<>>) = {}
           /\ InOrder(<<OpenFrame>>, got) /\ Elems(<<OpenFrame>>) = {OpenFrame}
<1>1. InOrder(<<>>, got) /\ Elems(<<>>) = {}
  BY DEF InOrder, Elems
<1>2. InOrder(<<OpenFrame>>, got)
  BY FrameFields DEF InOrder
<1>3. Elems(<<OpenFrame>>) = {OpenFrame}
  BY DEF Elems
<1> QED BY <1>1, <1>2, <1>3
------------------------------------------------------------------------------
(* The sockets of a hook that is mounted once.                               *)
LEMMA SocketStep ==
    ASSUME MaxRemounts = 0, TypeOK, OneSocket, [Next]_vars PROVE OneSocket'
<1> USE DEF TypeOK, FeedTypeOK, OneSocket, storeVars, connVars, feedVars, clientVars, socketVars
<1>1. CASE UNCHANGED <<attached, due, open, phase, wire>>
  BY <1>1
<1>2. ASSUME ServerDown, UNCHANGED clientVars PROVE OneSocket'
  BY <1>2 DEF ServerDown
<1>3. ASSUME NEW s \in Conn, UNCHANGED <<attached, due, open>>,
             phase[s] = "requested" \/ open[s],
             phase' = phase \/ (phase' = [phase EXCEPT ![s] = phase'[s]] /\ phase'[s] # "requested"),
             \A c \in Conn \ {s} : wire'[c] = wire[c]
      PROVE  OneSocket'
  BY <1>3
<1>4. ASSUME NEW s \in Conn, Accept(s) \/ SendSnapshot(s) \/ Forward(s), UNCHANGED clientVars
      PROVE  OneSocket'
  BY <1>3, <1>4 DEF Accept, SendSnapshot, Forward, Send
<1>5. ASSUME NEW s \in Conn, ReadSnapshot(s) \/ SnapshotFails(s) \/ SendFails(s),
             UNCHANGED clientVars
      PROVE  OneSocket'
  BY <1>5 DEF ReadSnapshot, SnapshotFails, SendFails, Unsubscribe
<1>6. ASSUME NEW s \in Conn, Connect(s) PROVE OneSocket'
  <2>1. attached = {} /\ due = 1 /\ due' = 0 /\ attached' = {s}
    BY <1>6 DEF Connect, NewSocket
  <2> QED BY <1>6, <2>1 DEF Connect
<1>7. ASSUME NEW s \in Conn, Remount(s) PROVE FALSE
  BY <1>7 DEF Remount
<1>8. ASSUME NEW s \in Conn, ConnectionBreaks(s) \/ ConnectionRefused(s) PROVE OneSocket'
  BY <1>8 DEF ConnectionBreaks, ConnectionRefused, Broken
<1>9. ASSUME NEW s \in Conn, OnClose(s) PROVE OneSocket'
  <2>1. attached = {s} /\ due = 0 /\ due' = 1 /\ attached' = {}
    BY <1>9 DEF OnClose, ScheduleReconnect
  <2> QED BY <1>9, <2>1 DEF OnClose
<1>10. ASSUME NEW s \in Conn,
              OnOpen(s) \/ OnSnapshot(s) \/ OnStraySnapshot(s) \/ OnEnvelope(s)
       PROVE  OneSocket'
  BY <1>10 DEF OnOpen, OnSnapshot, OnStraySnapshot, OnEnvelope, Handled, NextFrame
<1>11. ASSUME NEW m \in Msg, EventCommitted(m) \/ EventCommittedSilently(m) \/ Publish(m),
              UNCHANGED clientVars
       PROVE  OneSocket'
  BY <1>1, <1>11 DEF EventCommitted, EventCommittedSilently, Publish
<1>12. ASSUME NEW s \in Conn, SkipStale(s), UNCHANGED clientVars PROVE OneSocket'
  BY <1>1, <1>12 DEF SkipStale
<1>13. ASSUME ServerUp, UNCHANGED clientVars PROVE OneSocket'
  BY <1>1, <1>13 DEF ServerUp
<1>14. CASE UNCHANGED vars
  BY <1>1, <1>14 DEF vars
<1> QED
  BY <1>2, <1>4, <1>5, <1>6, <1>7, <1>8, <1>9, <1>10, <1>11, <1>12, <1>13, <1>14
  DEF Next, FeedNext, ClientNext

(* Steps that touch neither the map nor a wire, and start nothing.           *)
LEMMA SameOrder ==
    ASSUME SentInOrder, attached' \subseteq attached, UNCHANGED <<gotSnapshot, view>>,
           \A s \in attached' : /\ wire'[s] = wire[s]
                                /\ phase'[s] \in {phase[s], "idle"}
                                /\ phase'[s] = "snapped" => snap'[s] = snap[s]
    PROVE  SentInOrder'
BY DEF SentInOrder

(* Every step keeps the order of snapshot and envelopes.                     *)
LEMMA OrderStep ==
    ASSUME MaxRemounts = 0, TypeOK, TypeOK', OneSocket, EverythingCommitted, SentInOrder,
           [Next]_vars
    PROVE  SentInOrder'
<1> USE DEF storeVars, connVars, feedVars, clientVars, socketVars
<1>0. /\ gotSnapshot \in BOOLEAN /\ gotSnapshot' \in BOOLEAN /\ attached \subseteq Conn
      /\ \A s \in Conn : wire[s] \in Seq(Frame) /\ snap[s] \in Table
      /\ phase \in [Conn -> {"idle", "requested", "subscribed", "snapped", "live"}]
      /\ snap \in [Conn -> Table] /\ wire \in [Conn -> Seq(Frame)]
      /\ queue \in [Conn -> Seq(Msg)] /\ view \in Table
  BY DEF TypeOK, FeedTypeOK
<1>1. ASSUME NEW m \in Msg, EventCommitted(m) \/ EventCommittedSilently(m) \/ Publish(m),
             UNCHANGED clientVars
      PROVE  SentInOrder'
  BY <1>1, SameOrder DEF EventCommitted, EventCommittedSilently, Publish
<1>2. ASSUME ServerDown \/ ServerUp, UNCHANGED clientVars PROVE SentInOrder'
  BY <1>0, <1>2, SameOrder DEF ServerDown, ServerUp
<1>3. ASSUME NEW s \in Conn, SnapshotFails(s) \/ SendFails(s) \/ SkipStale(s), UNCHANGED clientVars
      PROVE  SentInOrder'
  BY <1>0, <1>3, SameOrder DEF SnapshotFails, SendFails, SkipStale, Unsubscribe
<1>4. ASSUME NEW s \in Conn, NEW c \in Conn, c \in attached, c # s,
             UNCHANGED <<attached, gotSnapshot, view>>,
             wire'[c] = wire[c], phase'[c] = phase[c], snap'[c] = snap[c]
      PROVE  /\ InOrder(wire'[c], gotSnapshot')
             /\ phase'[c] \in {"requested", "subscribed", "snapped"} =>
                   ~gotSnapshot' /\ \A f \in Elems(wire'[c]) : f.type = "open"
             /\ phase'[c] = "live" => gotSnapshot' \/ HasSnapshot(wire'[c])
             /\ phase'[c] = "snapped" => CoversRows(snap'[c], view')
             /\ \A f \in Elems(wire'[c]) : f.type = "snapshot" => CoversRows(f.rows, view')
  BY <1>4 DEF SentInOrder
<1>5. ASSUME NEW s \in Conn, Accept(s), UNCHANGED clientVars PROVE SentInOrder'
  <2>1. /\ wire' = [wire EXCEPT ![s] = <<OpenFrame>>] /\ UNCHANGED snap
        /\ phase' = [phase EXCEPT ![s] = "subscribed"] /\ phase[s] = "requested"
    BY <1>5 DEF Accept
  <2>2. wire'[s] = <<OpenFrame>> /\ phase'[s] = "subscribed"
    BY <1>0, <2>1
  <2>3. s \in attached => ~gotSnapshot'
    BY <1>5, <2>1 DEF SentInOrder
  <2>4. \A f \in Elems(wire'[s]) : f.type = "open"
    BY <2>2, OrderStart, FrameFields
  <2>5. InOrder(wire'[s], gotSnapshot')
    BY <1>0, <2>2, OrderStart
  <2>6. \A c \in attached' : c \in attached /\ c \in Conn
    BY <1>0, <1>5
  <2>7. \A c \in attached' : c # s => wire'[c] = wire[c] /\ phase'[c] = phase[c] /\ snap'[c] = snap[c]
    BY <1>0, <2>1, <2>6
  <2> QED BY <1>4, <1>5, <2>2, <2>3, <2>4, <2>5, <2>6, <2>7 DEF SentInOrder
<1>6. ASSUME NEW s \in Conn, ReadSnapshot(s), UNCHANGED clientVars PROVE SentInOrder'
  <2>1. /\ snap' = [snap EXCEPT ![s] = current] /\ UNCHANGED wire
        /\ phase' = [phase EXCEPT ![s] = "snapped"] /\ phase[s] = "subscribed"
    BY <1>6 DEF ReadSnapshot
  <2>2. snap'[s] = current /\ phase'[s] = "snapped"
    BY <1>0, <2>1
  <2>3. CoversRows(snap'[s], view')
    BY <1>6, <2>2 DEF EverythingCommitted
  <2>6. \A c \in attached' : c \in attached /\ c \in Conn
    BY <1>0, <1>6
  <2>7. \A c \in attached' : c # s => phase'[c] = phase[c] /\ snap'[c] = snap[c]
    BY <1>0, <2>1, <2>6
  <2> QED BY <1>4, <1>6, <2>1, <2>2, <2>3, <2>6, <2>7 DEF SentInOrder
<1>7. ASSUME NEW s \in Conn, SendSnapshot(s), UNCHANGED clientVars PROVE SentInOrder'
  <2> DEFINE f == SnapshotFrame(snap[s])
  <2>1. /\ wire' = [wire EXCEPT ![s] = Append(wire[s], f)] /\ UNCHANGED snap
        /\ phase' = [phase EXCEPT ![s] = "live"] /\ phase[s] = "snapped"
        /\ s \in attached
    BY <1>7 DEF SendSnapshot, Send, OneSocket
  <2>2. f \in Frame /\ f.type = "snapshot" /\ f.rows = snap[s]
    BY <1>0, FrameTypes, FrameFields
  <2> HIDE DEF f
  <2>3. wire'[s] = Append(wire[s], f) /\ phase'[s] = "live"
    BY <1>0, <2>1
  <2>4. Elems(wire'[s]) = Elems(wire[s]) \cup {f}
    BY <1>0, <2>2, <2>3, AppendElems
  <2>5. ~gotSnapshot /\ ~HasSnapshot(wire[s]) /\ InOrder(wire[s], gotSnapshot)
        /\ CoversRows(snap[s], view)
    BY <2>1 DEF SentInOrder, HasSnapshot
  <2>8. InOrder(wire'[s], gotSnapshot)
    BY <1>0, <2>2, <2>3, <2>5, OrderAppend
  <2>9. HasSnapshot(wire'[s])
    BY <2>2, <2>4 DEF HasSnapshot
  <2>6. \A c \in attached' : c \in attached /\ c \in Conn
    BY <1>0, <1>7
  <2>7. \A c \in attached' : c # s => wire'[c] = wire[c] /\ phase'[c] = phase[c] /\ snap'[c] = snap[c]
    BY <1>0, <2>1, <2>6
  <2>10. \A g \in Elems(wire'[s]) : g.type = "snapshot" => CoversRows(g.rows, view)
    BY <2>1, <2>2, <2>4, <2>5 DEF SentInOrder
  <2> QED
    BY <1>4, <1>7, <2>3, <2>8, <2>9, <2>10, <2>6, <2>7 DEF SentInOrder
<1>8. ASSUME NEW s \in Conn, Forward(s), UNCHANGED clientVars PROVE SentInOrder'
  <2> DEFINE f == EnvelopeFrame(Head(queue[s]))
  <2>1. /\ wire' = [wire EXCEPT ![s] = Append(wire[s], f)] /\ UNCHANGED <<snap, phase>>
        /\ phase[s] = "live" /\ queue[s] # <<>> /\ s \in attached
    BY <1>8 DEF Forward, Send, OneSocket
  <2>2. f \in Frame /\ f.type = "envelope"
    BY <1>0, <2>1, TailElems, FrameTypes, FrameFields
  <2> HIDE DEF f
  <2>3. wire'[s] = Append(wire[s], f)
    BY <1>0, <2>1
  <2>4. Elems(wire'[s]) = Elems(wire[s]) \cup {f}
    BY <1>0, <2>2, <2>3, AppendElems
  <2>5. (gotSnapshot \/ HasSnapshot(wire[s])) /\ InOrder(wire[s], gotSnapshot)
    BY <2>1 DEF SentInOrder
  <2>8. InOrder(wire'[s], gotSnapshot)
    BY <1>0, <2>2, <2>3, <2>5, OrderAppend
  <2>9. HasSnapshot(wire[s]) => HasSnapshot(wire'[s])
    BY <2>4 DEF HasSnapshot
  <2>6. \A c \in attached' : c \in attached /\ c \in Conn
    BY <1>0, <1>8
  <2>7. \A c \in attached' : c # s => wire'[c] = wire[c]
    BY <1>0, <2>1, <2>6
  <2>10. \A g \in Elems(wire'[s]) : g.type = "snapshot" => CoversRows(g.rows, view)
    BY <2>1, <2>2, <2>4 DEF SentInOrder
  <2> QED
    BY <1>4, <1>8, <2>1, <2>5, <2>8, <2>9, <2>10, <2>6, <2>7 DEF SentInOrder
<1>9. ASSUME NEW s \in Conn, Connect(s) PROVE SentInOrder'
  <2>1. /\ attached' = {s} /\ wire'[s] = <<>> /\ ~gotSnapshot' /\ phase'[s] = "requested"
    BY <1>0, <1>9 DEF Connect, NewSocket, Fresh, ResetSnapshotFlag, OneSocket, TypeOK
  <2>2. InOrder(wire'[s], gotSnapshot') /\ Elems(wire'[s]) = {}
    BY <1>0, <2>1, OrderStart
  <2> QED BY <2>1, <2>2 DEF SentInOrder
<1>10. ASSUME NEW s \in Conn, Remount(s) PROVE FALSE
  BY <1>10 DEF Remount, TypeOK
<1>11. ASSUME NEW s \in Conn, ConnectionBreaks(s) \/ ConnectionRefused(s) PROVE SentInOrder'
  BY <1>0, <1>11, SameOrder DEF ConnectionBreaks, ConnectionRefused, Broken
<1>12. ASSUME NEW s \in Conn, OnClose(s) PROVE SentInOrder'
  <2>1. attached' = {}
    BY <1>12 DEF OnClose, OneSocket
  <2> QED BY <2>1 DEF SentInOrder
<1>13. ASSUME NEW s \in Conn,
              OnOpen(s) \/ OnSnapshot(s) \/ OnStraySnapshot(s) \/ OnEnvelope(s)
       PROVE  SentInOrder'
  <2>1. s \in attached /\ wire[s] # <<>> /\ Handled(s)
    BY <1>13 DEF OnOpen, OnSnapshot, OnStraySnapshot, OnEnvelope, NextFrame
  <2>2. /\ wire'[s] = Tail(wire[s]) /\ UNCHANGED <<phase, snap>>
        /\ attached' = attached /\ \A c \in attached : c = s
    BY <1>0, <2>1 DEF Handled, OneSocket
  <2>3. Elems(wire[s]) = Elems(wire'[s]) \cup {Head(wire[s])}
    BY <1>0, <2>1, <2>2, TailElems
  <2>4. /\ InOrder(wire[s], gotSnapshot)
        /\ Head(wire[s]).type = "snapshot" => ~gotSnapshot /\ InOrder(wire'[s], TRUE)
        /\ Head(wire[s]).type = "envelope" => gotSnapshot
        /\ Head(wire[s]).type # "snapshot" => InOrder(wire'[s], gotSnapshot)
    BY <1>0, <2>1, <2>2, OrderTail DEF SentInOrder
  <2>5. CASE OnOpen(s)
    <3>1. Head(wire[s]).type = "open" /\ UNCHANGED <<gotSnapshot, view>>
      BY <2>5 DEF OnOpen, NextFrame
    <3>2. HasSnapshot(wire[s]) => HasSnapshot(wire'[s])
      BY <2>3, <3>1 DEF HasSnapshot
    <3> QED BY <2>1, <2>2, <2>3, <2>4, <3>1, <3>2 DEF SentInOrder
  <2>6. CASE OnSnapshot(s)
    <3>1. Head(wire[s]).type = "snapshot" /\ gotSnapshot' = TRUE
      BY <2>6 DEF OnSnapshot, NextFrame
    <3>2. ~HasSnapshot(wire'[s])
      BY <2>4, <3>1, OrderSeen
    <3>3. phase[s] \notin {"requested", "subscribed", "snapped"}
      BY <2>1, <2>3, <3>1 DEF SentInOrder
    <3> QED BY <2>1, <2>2, <2>4, <3>1, <3>2, <3>3 DEF SentInOrder, HasSnapshot
  <2>7. CASE OnStraySnapshot(s)
    BY <2>4, <2>7 DEF OnStraySnapshot, NextFrame
  <2>8. CASE OnEnvelope(s)
    <3>1. Head(wire[s]).type = "envelope" /\ gotSnapshot = TRUE /\ UNCHANGED gotSnapshot
      BY <1>0, <2>4, <2>8 DEF OnEnvelope, NextFrame
    <3>2. ~HasSnapshot(wire'[s])
      BY <2>4, <3>1, OrderSeen
    <3>3. phase[s] \notin {"requested", "subscribed", "snapped"}
      BY <2>1, <2>3, <3>1 DEF SentInOrder
    <3> QED BY <2>1, <2>2, <2>4, <3>1, <3>2, <3>3 DEF SentInOrder, HasSnapshot
  <2> QED BY <1>13, <2>5, <2>6, <2>7, <2>8
<1>14. CASE UNCHANGED vars
  BY <1>14, SameOrder DEF vars
<1> QED
  BY <1>1, <1>2, <1>3, <1>5, <1>6, <1>7, <1>8, <1>9, <1>10, <1>11, <1>12, <1>13, <1>14
  DEF Next, FeedNext, ClientNext

(* The initial states.                                                       *)
LEMMA HandoverInit == ASSUME Init PROVE OneSocket /\ EverythingCommitted /\ SentInOrder
<1>1. OneSocket /\ SentInOrder
  BY DEF Init, FeedInit, OneSocket, SentInOrder
<1>2. pending = {} /\ view = NoRows /\ current = NoRows
  BY DEF Init, FeedInit, StoreInit, NoRows
<1>3. \A s \in Conn : Elems(queue[s]) = {} /\ Elems(wire[s]) = {} /\ snap[s] = NoRows
  BY DEF Init, FeedInit, Elems
<1>4. CoversRows(current, NoRows)
  BY <1>2, SelfCovers DEF NoRows, Table, Row
<1> QED BY <1>1, <1>2, <1>3, <1>4 DEF EverythingCommitted

(* On each socket the browser gets the snapshot first and once, then only    *)
(* envelopes (onmessage tells them apart by gotSnapshotRef alone).           *)
THEOREM SnapshotFirstTheorem == ASSUME MaxRemounts = 0 PROVE Spec => []SnapshotComesFirst
<1>1. Init => OneSocket /\ EverythingCommitted /\ SentInOrder
  BY HandoverInit
<1>2. TypeOK /\ TypeOK' /\ OneSocket /\ EverythingCommitted /\ SentInOrder /\ [Next]_vars
        => (OneSocket /\ EverythingCommitted /\ SentInOrder)'
  BY SocketStep, CommittedStep, OrderStep
<1>3. SentInOrder => SnapshotComesFirst
  BY DEF SentInOrder, SnapshotComesFirst, InOrder
<1> QED BY <1>1, <1>2, <1>3, LiveMapTypeCorrect, PTL DEF Spec

(* The map on the screen never moves back in time.                           *)
LEMMA ViewForwardStep ==
    ASSUME MaxRemounts = 0, TypeOK, SentInOrder, [Next]_vars
    PROVE  \A t \in Tag : AtLeast(view'[t], view[t])
<1>1. \A t \in Tag : view[t] \in Row
  BY DEF TypeOK, Table
<1>2. CASE UNCHANGED view
  BY <1>1, <1>2, AtLeastOrder
<1>3. ASSUME NEW s \in Conn, OnSnapshot(s), NEW t \in Tag PROVE AtLeast(view'[t], view[t])
  <2>1. s \in attached /\ wire[s] # <<>> /\ Head(wire[s]).type = "snapshot"
    BY <1>3 DEF OnSnapshot, NextFrame
  <2>2. Head(wire[s]) \in Elems(wire[s])
    BY <2>1, TailElems DEF TypeOK, FeedTypeOK
  <2>3. view' = Head(wire[s]).rows
    BY <1>3 DEF OnSnapshot
  <2> QED BY <2>1, <2>2, <2>3 DEF SentInOrder, CoversRows
<1>4. ASSUME NEW s \in Conn, OnEnvelope(s), NEW t \in Tag PROVE AtLeast(view'[t], view[t])
  <2>1. s \in attached /\ wire[s] # <<>> /\ Head(wire[s]).type = "envelope"
    BY <1>4 DEF OnEnvelope, NextFrame
  <2>2. Head(wire[s]) \in Frame
    BY <2>1, TailElems DEF TypeOK, FeedTypeOK
  <2> DEFINE m == Head(wire[s]).msg
  <2>3. m \in Msg /\ TagOf[m] \in Tag
    BY <2>1, <2>2, FrameTypes, PositionsAssumption
  <2>4. view' = [view EXCEPT ![TagOf[m]] = Merge(@, m)]
    BY <1>4 DEF OnEnvelope
  <2> HIDE DEF m
  <2>5. view'[t] = view[t] \/ view'[t] = Merge(view[t], m)
    BY <2>3, <2>4 DEF TypeOK, Table
  <2> QED BY <1>1, <2>3, <2>5, AtLeastOrder, RowRules
<1>5. \/ UNCHANGED view
      \/ \E s \in Conn : OnSnapshot(s) \/ OnEnvelope(s)
  BY DEF Next, vars, FeedNext, ClientNext, clientVars, Connect, Remount, NewSocket,
     ConnectionBreaks, ConnectionRefused, Broken, OnClose, OnOpen, OnStraySnapshot
<1> QED BY <1>2, <1>3, <1>4, <1>5

(* The browser never shows a tag from before what it already showed: not     *)
(* across reconnects, restarts of the backend and out-of-order publishes.    *)
THEOREM ViewForwardTheorem == ASSUME MaxRemounts = 0 PROVE Spec => ViewMovesForward
<1>1. Init => OneSocket /\ EverythingCommitted /\ SentInOrder
  BY HandoverInit
<1>2. TypeOK /\ TypeOK' /\ OneSocket /\ EverythingCommitted /\ SentInOrder /\ [Next]_vars
        => (OneSocket /\ EverythingCommitted /\ SentInOrder)'
  BY SocketStep, CommittedStep, OrderStep
<1>3. TypeOK /\ SentInOrder /\ [Next]_vars => [\A t \in Tag : AtLeast(view'[t], view[t])]_vars
  BY ViewForwardStep
<1> QED BY <1>1, <1>2, <1>3, LiveMapTypeCorrect, PTL DEF Spec, ViewMovesForward
------------------------------------------------------------------------------
(* A row stands under its own tag.                                           *)
TagsMatch(r) == \A t \in Tag : r[t] # None => TagOf[r[t]] = t

RightTags ==
    /\ TagsMatch(current) /\ TagsMatch(view)
    /\ \A s \in Conn :
          /\ TagsMatch(snap[s])
          /\ \A f \in Elems(wire[s]) : f.type = "snapshot" => TagsMatch(f.rows)

(* The two rules that write a row write it under the tag of the event.       *)
LEMMA RulesMatch ==
    ASSUME NEW r \in Table, TagsMatch(r), NEW m \in Msg, NEW d,
           \/ d = [r EXCEPT ![TagOf[m]] = Upsert(@, m)]
           \/ d = [r EXCEPT ![TagOf[m]] = Merge(@, m)]
    PROVE  TagsMatch(d)
<1> SUFFICES ASSUME NEW t \in Tag, d[t] # None PROVE TagOf[d[t]] = t
  BY DEF TagsMatch
<1>1. TagOf[m] \in Tag /\ r[t] \in Row
  BY PositionsAssumption DEF Table
<1>2. d[t] = r[t] \/ (t = TagOf[m] /\ d[t] \in {r[t], m})
  BY <1>1, RowRules DEF Table
<1> QED BY <1>2 DEF TagsMatch

(* Rows and frames keep their tags.                                          *)
LEMMA TagsStep == ASSUME TypeOK, RightTags, [Next]_vars PROVE RightTags'
<1>0. Moves
  BY WhatMoves
<1>1. current \in Table /\ view \in Table /\ \A s \in Conn : Elems(wire[s]) \subseteq Frame
  BY ElemsType DEF TypeOK, FeedTypeOK
<1>2. TagsMatch(current')
  <2>1. ASSUME NEW m \in Msg, Committed(m) PROVE TagsMatch(current')
    BY <1>1, <2>1, RulesMatch DEF Committed, RightTags
  <2> QED BY <2>1, TableSteps DEF RightTags
<1>3. TagsMatch(view')
  <2>1. ASSUME NEW s \in Conn, NEW f \in Elems(wire[s]), f.type = "envelope",
               view' = [view EXCEPT ![TagOf[f.msg]] = Merge(@, f.msg)]
        PROVE  TagsMatch(view')
    <3>1. f.msg \in Msg
      BY <1>1, <2>1, FrameTypes
    <3> QED BY <1>1, <2>1, <3>1, RulesMatch DEF RightTags
  <2> QED BY <1>0, <2>1 DEF Moves, RightTags
<1>4. TagsMatch(NoRows)
  BY DEF TagsMatch, NoRows
<1>5. ASSUME NEW s \in Conn
      PROVE  /\ TagsMatch(snap'[s])
             /\ \A f \in Elems(wire'[s]) : f.type = "snapshot" => TagsMatch(f.rows)
  <2>1. TagsMatch(snap'[s])
    BY <1>0, <1>4 DEF Moves, RightTags
  <2>2. ASSUME NEW f \in Elems(wire'[s]), f.type = "snapshot" PROVE TagsMatch(f.rows)
    <3>1. f # OpenFrame /\ \A m \in Elems(queue[s]) : f # EnvelopeFrame(m)
      BY <2>2, FrameFields
    <3>2. f \in Elems(wire[s]) \/ f = SnapshotFrame(snap[s])
      BY <1>0, <3>1 DEF Moves
    <3> QED BY <2>2, <3>2, FrameFields DEF RightTags
  <2> QED BY <2>1, <2>2
<1> QED BY <1>2, <1>3, <1>5 DEF RightTags
------------------------------------------------------------------------------
(* Every event of A has one of its tag in B that is at least as new.         *)
Outdone(A, B) == \A n \in A : \E k \in B : TagOf[k] = TagOf[n] /\ AtLeast(k, n)

(* The snapshot a connection filters by (ts_map) has been sent, so an event  *)
(* it filters out has been outdone by a row on the wire or on the screen.    *)
SnapshotSent ==
    \A s \in attached :
        open[s] /\ phase[s] = "live" => Outdone(Values(snap[s]), Arriving(s))

(* Outdone is an order on sets of events, and larger sets outdo more.        *)
LEMMA OutdoneOrder ==
    /\ \A A \in SUBSET Msg, B \in SUBSET Msg : A \subseteq B => Outdone(A, B)
    /\ \A A, B, C \in SUBSET Msg : Outdone(A, B) /\ Outdone(B, C) => Outdone(A, C)
    /\ \A A, B, C \in SUBSET Msg : Outdone(A, C) /\ Outdone(B, C) => Outdone(A \cup B, C)
    /\ \A A, B, C \in SUBSET Msg : Outdone(A, B) /\ B \subseteq C => Outdone(A, C)
<1>1. \A n \in Msg : n \in Row
  BY DEF Row
<1>2. ASSUME NEW A \in SUBSET Msg, NEW B \in SUBSET Msg, A \subseteq B PROVE Outdone(A, B)
  BY <1>1, <1>2, AtLeastOrder DEF Outdone
<1>3. ASSUME NEW A \in SUBSET Msg, NEW B \in SUBSET Msg, NEW C \in SUBSET Msg,
             Outdone(A, B), Outdone(B, C), NEW n \in A
      PROVE  \E k \in C : TagOf[k] = TagOf[n] /\ AtLeast(k, n)
  <2>1. PICK b \in B : TagOf[b] = TagOf[n] /\ AtLeast(b, n)
    BY <1>3 DEF Outdone
  <2>2. PICK c \in C : TagOf[c] = TagOf[b] /\ AtLeast(c, b)
    BY <1>3 DEF Outdone
  <2>3. AtLeast(c, n)
    BY <1>1, <2>1, <2>2, AtLeastOrder
  <2> QED BY <2>1, <2>2, <2>3
<1>4. \A A, B, C \in SUBSET Msg : Outdone(A, B) /\ Outdone(B, C) => Outdone(A, C)
  BY <1>3 DEF Outdone
<1>5. \A A, B, C \in SUBSET Msg : Outdone(A, C) /\ Outdone(B, C) => Outdone(A \cup B, C)
  BY DEF Outdone
<1>6. \A A, B, C \in SUBSET Msg : Outdone(A, B) /\ B \subseteq C => Outdone(A, C)
  BY DEF Outdone
<1> QED BY <1>2, <1>4, <1>5, <1>6

(* The rows in a frame, and on a wire.                                       *)
LEMMA RowsOfFrames ==
    /\ FrameRows(OpenFrame) = {}
    /\ \A r : FrameRows(SnapshotFrame(r)) = Values(r)
    /\ \A m : FrameRows(EnvelopeFrame(m)) = {m}
    /\ \A f : /\ f.type = "open" => FrameRows(f) = {}
              /\ f.type = "snapshot" => FrameRows(f) = Values(f.rows)
              /\ f.type = "envelope" => FrameRows(f) = {f.msg}
    /\ \A r \in Table : Values(r) \subseteq Msg
    /\ \A f \in Frame : FrameRows(f) \subseteq Msg
<1>1. \A f : /\ f.type = "open" => FrameRows(f) = {}
             /\ f.type = "snapshot" => FrameRows(f) = Values(f.rows)
             /\ f.type = "envelope" => FrameRows(f) = {f.msg}
  BY DEF FrameRows
<1>2. \A r \in Table : Values(r) \subseteq Msg
  BY DEF Values, Table, Row
<1>3. ASSUME NEW f \in Frame PROVE FrameRows(f) \subseteq Msg
  BY <1>1, <1>2, FrameTypes
<1> QED BY <1>1, <1>2, <1>3, FrameFields

(* What a wire carries, when a frame is added to it or taken from it.        *)
LEMMA CarriedSteps ==
    ASSUME NEW q \in Seq(Frame)
    PROVE  /\ Carried(q) \subseteq Msg
           /\ \A f \in Frame : Carried(Append(q, f)) = Carried(q) \cup FrameRows(f)
           /\ q # <<>> => Carried(q) = FrameRows(Head(q)) \cup Carried(Tail(q))
<1>1. Carried(q) \subseteq Msg
  <2>1. Elems(q) \subseteq Frame
    BY ElemsType
  <2> QED BY <2>1, RowsOfFrames DEF Carried
<1>3. ASSUME NEW f \in Frame PROVE Carried(Append(q, f)) = Carried(q) \cup FrameRows(f)
  BY AppendElems DEF Carried
<1>4. ASSUME q # <<>> PROVE Carried(q) = FrameRows(Head(q)) \cup Carried(Tail(q))
  BY <1>4, TailElems DEF Carried
<1> QED BY <1>1, <1>3, <1>4

(* The sets that the handover is about are sets of events.                   *)
LEMMA WayTypes ==
    ASSUME TypeOK, NEW s \in Conn
    PROVE  /\ Arriving(s) \subseteq Msg /\ OnTheWay(s) \subseteq Msg
           /\ Values(current) \subseteq Msg /\ Values(view) \subseteq Msg
           /\ Values(snap[s]) \subseteq Msg /\ Elems(queue[s]) \subseteq Msg
           /\ OnTheWay(s) = pending \cup Elems(queue[s]) \cup missed[s]
                \cup (IF phase[s] = "snapped" THEN Values(snap[s]) ELSE {}) \cup Arriving(s)
<1>1. /\ current \in Table /\ view \in Table /\ snap[s] \in Table /\ pending \subseteq Msg
      /\ wire[s] \in Seq(Frame) /\ queue[s] \in Seq(Msg) /\ missed[s] \subseteq Msg
  BY DEF TypeOK, FeedTypeOK
<1>2. /\ Values(current) \subseteq Msg /\ Values(view) \subseteq Msg
      /\ Values(snap[s]) \subseteq Msg /\ Elems(queue[s]) \subseteq Msg
      /\ Carried(wire[s]) \subseteq Msg
  BY <1>1, RowsOfFrames, ElemsType, CarriedSteps
<1>3. OnTheWay(s) = pending \cup Elems(queue[s]) \cup missed[s]
        \cup (IF phase[s] = "snapped" THEN Values(snap[s]) ELSE {}) \cup Arriving(s)
  BY DEF OnTheWay
<1>4. (IF phase[s] = "snapped" THEN Values(snap[s]) ELSE {}) \subseteq Msg
  BY <1>2
<1>5. Arriving(s) \subseteq Msg
  BY <1>2 DEF Arriving
<1> QED BY <1>1, <1>2, <1>3, <1>4, <1>5

(* Handling a frame hides nothing: what it brought is on the screen, or      *)
(* something at least as new of the same tag is.                             *)
LEMMA HandledOutdoes ==
    ASSUME TypeOK, TypeOK', OneSocket, SentInOrder, RightTags, NEW s \in Conn,
           OnOpen(s) \/ OnSnapshot(s) \/ OnStraySnapshot(s) \/ OnEnvelope(s)
    PROVE  Outdone(Arriving(s), Arriving(s)')
<1>0. /\ Arriving(s) \in SUBSET Msg /\ Arriving(s)' \in SUBSET Msg
      /\ gotSnapshot \in BOOLEAN /\ wire[s] \in Seq(Frame) /\ view \in Table
      /\ \A t \in Tag : view[t] \in Row
  <2>1. /\ gotSnapshot \in BOOLEAN /\ wire[s] \in Seq(Frame) /\ view \in Table
        /\ \A t \in Tag : view[t] \in Row
        /\ wire'[s] \in Seq(Frame) /\ view' \in Table
    BY DEF TypeOK, FeedTypeOK, Table
  <2>2. Arriving(s)' \subseteq Msg
    <3>1. Carried(wire'[s]) \subseteq Msg /\ Values(view') \subseteq Msg
      BY <2>1, CarriedSteps, RowsOfFrames
    <3> QED BY <3>1 DEF Arriving
  <2> QED BY <2>1, <2>2, WayTypes
<1>1. s \in attached /\ wire[s] # <<>> /\ Handled(s)
  BY DEF OnOpen, OnSnapshot, OnStraySnapshot, OnEnvelope, NextFrame
<1>2. wire'[s] = Tail(wire[s]) /\ Head(wire[s]) \in Frame
  BY <1>0, <1>1, TailElems DEF Handled, TypeOK, FeedTypeOK
<1>3. Carried(wire[s]) = FrameRows(Head(wire[s])) \cup Carried(wire'[s])
  BY <1>0, <1>1, <1>2, CarriedSteps
<1>4. /\ Head(wire[s]).type = "snapshot" => ~gotSnapshot
      /\ Head(wire[s]).type = "envelope" => gotSnapshot
  BY <1>0, <1>1, OrderTail DEF SentInOrder
<1>5. CASE OnOpen(s)
  <2>1. FrameRows(Head(wire[s])) = {} /\ UNCHANGED <<gotSnapshot, view>>
    BY <1>5, RowsOfFrames DEF OnOpen, NextFrame
  <2>2. Arriving(s) \subseteq Arriving(s)'
    BY <1>3, <2>1 DEF Arriving
  <2> QED BY <1>0, <2>2, OutdoneOrder
<1>6. CASE OnSnapshot(s)
  <2>1. /\ Head(wire[s]).type = "snapshot" /\ ~gotSnapshot /\ gotSnapshot'
        /\ view' = Head(wire[s]).rows
    BY <1>6 DEF OnSnapshot, NextFrame
  <2>2. FrameRows(Head(wire[s])) = Values(view')
    BY <2>1, RowsOfFrames
  <2>3. Arriving(s) \subseteq Arriving(s)'
    BY <1>3, <2>1, <2>2 DEF Arriving
  <2> QED BY <1>0, <2>3, OutdoneOrder
<1>7. CASE OnStraySnapshot(s)
  BY <1>4, <1>7 DEF OnStraySnapshot, NextFrame
<1>8. CASE OnEnvelope(s)
  <2> DEFINE m == Head(wire[s]).msg
  <2>1. /\ Head(wire[s]).type = "envelope" /\ gotSnapshot /\ gotSnapshot'
        /\ view' = [view EXCEPT ![TagOf[m]] = Merge(@, m)]
    BY <1>4, <1>8 DEF OnEnvelope, NextFrame
  <2>2. m \in Msg /\ TagOf[m] \in Tag /\ FrameRows(Head(wire[s])) = {m}
    BY <1>2, <2>1, FrameTypes, RowsOfFrames, PositionsAssumption
  <2> HIDE DEF m
  <2>3. /\ view'[TagOf[m]] = Merge(view[TagOf[m]], m)
        /\ \A t \in Tag : t # TagOf[m] => view'[t] = view[t]
    BY <1>0, <2>1, <2>2 DEF Table
  <2>4. /\ AtLeast(view'[TagOf[m]], m) /\ AtLeast(view'[TagOf[m]], view[TagOf[m]])
        /\ view'[TagOf[m]] \in {view[TagOf[m]], m} /\ view'[TagOf[m]] \in Msg
    BY <1>0, <2>2, <2>3, RowRules, RowTypes
  <2>5. view'[TagOf[m]] \in Values(view') /\ TagOf[view'[TagOf[m]]] = TagOf[m]
    BY <2>2, <2>4, PositionsAssumption DEF Values, RightTags, TagsMatch
  <2>6. Outdone({m}, Values(view'))
    BY <2>4, <2>5 DEF Outdone
  <2>7. ASSUME NEW n \in Values(view)
        PROVE  \E k \in Values(view') : TagOf[k] = TagOf[n] /\ AtLeast(k, n)
    <3>1. PICK t \in Tag : n = view[t] /\ n # None
      BY DEF Values
    <3>2. TagOf[n] = t /\ n \in Row
      BY <1>0, <3>1 DEF RightTags, TagsMatch
    <3>3. CASE t = TagOf[m]
      BY <2>4, <2>5, <3>1, <3>2, <3>3
    <3>4. CASE t # TagOf[m]
      <4>1. n \in Values(view')
        BY <2>3, <3>1, <3>4 DEF Values
      <4> QED BY <3>2, <4>1, AtLeastOrder
    <3> QED BY <3>3, <3>4
  <2>8. /\ Carried(wire'[s]) \in SUBSET Msg
        /\ Arriving(s)' = Carried(wire'[s]) \cup Values(view')
        /\ Arriving(s) = ({m} \cup Values(view)) \cup Carried(wire'[s])
    BY <1>0, <1>3, <2>1, <2>2, WayTypes DEF Arriving
  <2>9. Outdone({m}, Arriving(s)') /\ Outdone(Values(view), Arriving(s)')
    BY <2>6, <2>7, <2>8 DEF Outdone
  <2>10. Outdone(Carried(wire'[s]), Arriving(s)')
    BY <1>0, <2>8, OutdoneOrder
  <2> QED BY <2>8, <2>9, <2>10 DEF Outdone
<1> QED BY <1>5, <1>6, <1>7, <1>8

(* A socket whose side of the feed is untouched.                             *)
LEMMA SameArriving ==
    ASSUME NEW s, UNCHANGED <<gotSnapshot, view>>, wire'[s] = wire[s]
    PROVE  Arriving(s)' = Arriving(s)
BY DEF Arriving

(* A frame sent adds its rows to what arrives.                               *)
LEMMA SendArrives ==
    ASSUME TypeOK, NEW s \in Conn, NEW f \in Frame, Send(s, f), UNCHANGED <<gotSnapshot, view>>
    PROVE  /\ Arriving(s)' = Arriving(s) \cup FrameRows(f)
           /\ \A c \in Conn \ {s} : wire'[c] = wire[c]
<1>1. wire[s] \in Seq(Frame) /\ wire \in [Conn -> Seq(Frame)]
  BY DEF TypeOK, FeedTypeOK
<1>2. wire'[s] = Append(wire[s], f) /\ \A c \in Conn \ {s} : wire'[c] = wire[c]
  BY <1>1 DEF Send
<1> QED BY <1>1, <1>2, CarriedSteps DEF Arriving

(* ts_utc_ms counts from 1970: an event is never before the default 0 that   *)
(* _is_stale takes for a tag the snapshot does not list.                     *)
NoNegativeTimes == \A m \in Msg : TsOf[m] >= 0

(* An event that _is_stale leaves out is outdone by the snapshot.            *)
LEMMA StaleIsOutdone ==
    ASSUME NoNegativeTimes, NEW r \in Table, TagsMatch(r), NEW m \in Msg, IsStale(m, r)
    PROVE  Outdone({m}, Values(r))
<1>1. TagOf[m] \in Tag /\ TsOf[m] \in Int /\ r[TagOf[m]] \in Row
  BY PositionsAssumption DEF Table
<1>2. r[TagOf[m]] # None
  BY <1>1 DEF IsStale, NoNegativeTimes
<1>3. r[TagOf[m]] \in Msg /\ TsOf[r[TagOf[m]]] \in Int
  BY <1>1, <1>2, PositionsAssumption DEF Row
<1>4. TsOf[m] < TsOf[r[TagOf[m]]]
  BY <1>2 DEF IsStale
<1>5. AtLeast(r[TagOf[m]], m) /\ TagOf[r[TagOf[m]]] = TagOf[m] /\ r[TagOf[m]] \in Values(r)
  BY <1>1, <1>2, <1>3, <1>4 DEF AtLeast, TagsMatch, Values
<1> QED BY <1>5 DEF Outdone

(* The snapshot that was sent stays on the wire or on the screen, or is      *)
(* replaced by something newer.                                              *)
LEMMA SentStep ==
    ASSUME MaxRemounts = 0, TypeOK, TypeOK', OneSocket, SentInOrder, RightTags, SnapshotSent,
           [Next]_vars
    PROVE  SnapshotSent'
<1> USE DEF storeVars, connVars, feedVars, clientVars, socketVars
<1>0. /\ attached \subseteq Conn /\ open \in [Conn -> BOOLEAN] /\ snap \in [Conn -> Table]
      /\ phase \in [Conn -> {"idle", "requested", "subscribed", "snapped", "live"}]
      /\ wire \in [Conn -> Seq(Frame)] /\ queue \in [Conn -> Seq(Msg)]
  BY DEF TypeOK, FeedTypeOK
<1> DEFINE Kept(s) == /\ s \in attached /\ open[s] /\ phase[s] = "live" /\ snap'[s] = snap[s]
                      /\ Arriving(s) \subseteq Arriving(s)'
           Premise(s) == s \in attached' /\ open'[s] /\ phase'[s] = "live"
<1>1. ASSUME \A s \in attached' : Premise(s) => Kept(s) PROVE SnapshotSent'
  BY <1>1 DEF SnapshotSent, Outdone
<1>2. ASSUME UNCHANGED <<wire, view, gotSnapshot>>, NEW s, Premise(s),
             s \in attached, open[s], phase[s] = "live", snap'[s] = snap[s]
      PROVE  Kept(s)
  BY <1>2, SameArriving
<1>3. ASSUME NEW m \in Msg, EventCommitted(m) \/ EventCommittedSilently(m) \/ Publish(m),
             UNCHANGED clientVars
      PROVE  SnapshotSent'
  BY <1>1, <1>2, <1>3 DEF EventCommitted, EventCommittedSilently, Publish
<1>4. ASSUME ServerDown \/ ServerUp, UNCHANGED clientVars PROVE SnapshotSent'
  <2>1. CASE ServerDown
    <3>1. \A s \in attached' : ~open'[s]
      BY <1>0, <1>4, <2>1 DEF ServerDown
    <3> QED BY <3>1 DEF SnapshotSent
  <2>2. CASE ServerUp
    BY <1>1, <1>2, <1>4, <2>2 DEF ServerUp
  <2> QED BY <1>4, <2>1, <2>2
<1>5. ASSUME NEW s \in Conn, Accept(s), UNCHANGED clientVars PROVE SnapshotSent'
  <2>1. phase'[s] # "live" /\ \A c \in Conn \ {s} : phase'[c] = phase[c] /\ wire'[c] = wire[c]
    BY <1>0, <1>5 DEF Accept
  <2>2. UNCHANGED <<open, snap, view, gotSnapshot, attached>>
    BY <1>5 DEF Accept
  <2>3. \A c \in Conn \ {s} : Arriving(c)' = Arriving(c)
    BY <2>1, <2>2, SameArriving
  <2> QED BY <1>0, <1>1, <2>1, <2>2, <2>3
<1>6. ASSUME NEW s \in Conn, ReadSnapshot(s) \/ SnapshotFails(s) \/ SendFails(s),
             UNCHANGED clientVars
      PROVE  SnapshotSent'
  <2>1. /\ phase'[s] # "live"
        /\ \A c \in Conn \ {s} : phase'[c] = phase[c] /\ snap'[c] = snap[c] /\ open'[c] = open[c]
    BY <1>0, <1>6 DEF ReadSnapshot, SnapshotFails, SendFails, Unsubscribe
  <2>2. UNCHANGED <<wire, view, gotSnapshot, attached>>
    BY <1>6 DEF ReadSnapshot, SnapshotFails, SendFails
  <2> QED BY <1>0, <1>1, <1>2, <2>1, <2>2
<1>7. ASSUME NEW s \in Conn, SendSnapshot(s), UNCHANGED clientVars PROVE SnapshotSent'
  <2>1. SnapshotFrame(snap[s]) \in Frame /\ Send(s, SnapshotFrame(snap[s]))
    BY <1>0, <1>7, FrameTypes DEF SendSnapshot
  <2>2. UNCHANGED <<snap, open, view, gotSnapshot, attached>>
    BY <1>7 DEF SendSnapshot
  <2>3. Values(snap[s]) \subseteq Arriving(s)' /\ \A c \in Conn \ {s} : wire'[c] = wire[c]
    BY <2>1, <2>2, SendArrives, RowsOfFrames
  <2>4. \A c \in Conn \ {s} : phase'[c] = phase[c] /\ Arriving(c)' = Arriving(c)
    BY <1>0, <1>7, <2>2, <2>3, SameArriving DEF SendSnapshot
  <2>5. \A n \in Msg : AtLeast(n, n)
    BY AtLeastOrder DEF Row
  <2>6. Outdone(Values(snap'[s]), Arriving(s)')
    BY <2>2, <2>3, <2>5, WayTypes DEF Outdone
  <2>7. ASSUME NEW c \in attached', Premise(c) PROVE Outdone(Values(snap'[c]), Arriving(c)')
    BY <1>0, <2>2, <2>4, <2>6, <2>7 DEF SnapshotSent
  <2> QED BY <2>7 DEF SnapshotSent
<1>8. ASSUME NEW s \in Conn, SkipStale(s), UNCHANGED clientVars PROVE SnapshotSent'
  BY <1>1, <1>2, <1>8 DEF SkipStale
<1>9. ASSUME NEW s \in Conn, Forward(s), UNCHANGED clientVars PROVE SnapshotSent'
  <2>1. EnvelopeFrame(Head(queue[s])) \in Frame /\ Send(s, EnvelopeFrame(Head(queue[s])))
    BY <1>0, <1>9, TailElems, FrameTypes DEF Forward
  <2>2. UNCHANGED <<snap, phase, open, view, gotSnapshot, attached>>
    BY <1>9 DEF Forward
  <2>3. Arriving(s) \subseteq Arriving(s)' /\ \A c \in Conn \ {s} : wire'[c] = wire[c]
    BY <2>1, <2>2, SendArrives
  <2>4. \A c \in Conn \ {s} : Arriving(c)' = Arriving(c)
    BY <2>2, <2>3, SameArriving
  <2>5. \A c \in Conn : Arriving(c) \subseteq Arriving(c)'
    BY <2>3, <2>4
  <2> QED BY <1>0, <1>1, <2>2, <2>5
<1>10. ASSUME NEW s \in Conn, Connect(s) PROVE SnapshotSent'
  <2>1. attached' = {s} /\ phase'[s] = "requested"
    BY <1>0, <1>10 DEF Connect, NewSocket, OneSocket, TypeOK
  <2> QED BY <2>1 DEF SnapshotSent
<1>11. ASSUME NEW s \in Conn, Remount(s) PROVE FALSE
  BY <1>11 DEF Remount, TypeOK
<1>12. ASSUME NEW s \in Conn, ConnectionBreaks(s) \/ ConnectionRefused(s) PROVE SnapshotSent'
  <2>1. /\ UNCHANGED <<snap, wire, view, gotSnapshot, attached>>
        /\ \A c \in Conn : /\ open'[c] => open[c]
                           /\ phase'[c] = "live" => phase[c] = "live"
    BY <1>0, <1>12 DEF ConnectionBreaks, ConnectionRefused, Broken
  <2> QED BY <1>0, <1>1, <1>2, <2>1
<1>13. ASSUME NEW s \in Conn, OnClose(s) PROVE SnapshotSent'
  <2>1. attached' = {}
    BY <1>13 DEF OnClose, OneSocket
  <2> QED BY <2>1 DEF SnapshotSent
<1>14. ASSUME NEW s \in Conn,
              OnOpen(s) \/ OnSnapshot(s) \/ OnStraySnapshot(s) \/ OnEnvelope(s)
       PROVE  SnapshotSent'
  <2>1. Outdone(Arriving(s), Arriving(s)')
    BY <1>14, HandledOutdoes
  <2>2. s \in attached /\ Handled(s) /\ \A c \in attached : c = s
    BY <1>14 DEF OnOpen, OnSnapshot, OnStraySnapshot, OnEnvelope, NextFrame, OneSocket
  <2>3. UNCHANGED <<phase, snap, open, attached>>
    BY <2>2 DEF Handled
  <2>4. Arriving(s) \in SUBSET Msg /\ Arriving(s)' \in SUBSET Msg /\ Values(snap[s]) \in SUBSET Msg
    <3>1. wire'[s] \in Seq(Frame) /\ view' \in Table
      BY DEF TypeOK, FeedTypeOK
    <3>2. Carried(wire'[s]) \subseteq Msg /\ Values(view') \subseteq Msg
      BY <3>1, CarriedSteps, RowsOfFrames
    <3> QED BY <3>2, WayTypes DEF Arriving
  <2>5. open[s] /\ phase[s] = "live" => Outdone(Values(snap[s]), Arriving(s)')
    BY <2>1, <2>2, <2>4, OutdoneOrder DEF SnapshotSent
  <2> QED BY <2>2, <2>3, <2>5 DEF SnapshotSent
<1>15. CASE UNCHANGED vars
  <2>1. UNCHANGED <<wire, view, gotSnapshot, attached, open, phase, snap>>
    BY <1>15 DEF vars
  <2> QED BY <1>1, <1>2, <2>1
<1> QED
  BY <1>3, <1>4, <1>5, <1>6, <1>7, <1>8, <1>9, <1>10, <1>11, <1>12, <1>13, <1>14, <1>15
  DEF Next, FeedNext, ClientNext
------------------------------------------------------------------------------
(* HandoverIsComplete in the terms of Outdone.                               *)
Handover ==
    \A s \in attached :
        open[s] /\ phase[s] \in {"snapped", "live"} => Outdone(Values(current), OnTheWay(s))

(* It says what the property says.                                           *)
LEMMA HandoverMeaning ==
    ASSUME TypeOK, RightTags, Handover PROVE HandoverIsComplete
<1> SUFFICES ASSUME NEW s \in attached, open[s], phase[s] \in {"snapped", "live"},
                    NEW t \in Tag, current[t] # None
             PROVE  Newer(OnTheWay(s), t)
  BY DEF HandoverIsComplete
<1>1. current[t] \in Values(current) /\ TagOf[current[t]] = t
  BY DEF Values, RightTags, TagsMatch
<1>2. PICK k \in OnTheWay(s) : TagOf[k] = TagOf[current[t]] /\ AtLeast(k, current[t])
  BY <1>1 DEF Handover, Outdone
<1> QED BY <1>1, <1>2 DEF Newer

(* The same sets after the step.                                             *)
LEMMA WayTypesNext ==
    ASSUME TypeOK', NEW s \in Conn
    PROVE  /\ OnTheWay(s)' \subseteq Msg
           /\ OnTheWay(s)' = pending' \cup Elems(queue'[s]) \cup missed'[s]
                \cup (IF phase'[s] = "snapped" THEN Values(snap'[s]) ELSE {}) \cup Arriving(s)'
<1>1. /\ view' \in Table /\ snap'[s] \in Table /\ pending' \subseteq Msg
      /\ wire'[s] \in Seq(Frame) /\ queue'[s] \in Seq(Msg) /\ missed'[s] \subseteq Msg
  BY DEF TypeOK, FeedTypeOK
<1>2. /\ Values(view') \subseteq Msg /\ Values(snap'[s]) \subseteq Msg
      /\ Elems(queue'[s]) \subseteq Msg /\ Carried(wire'[s]) \subseteq Msg
  BY <1>1, RowsOfFrames, ElemsType, CarriedSteps
<1> DEFINE S == IF phase'[s] = "snapped" THEN Values(snap'[s]) ELSE {}
<1>3. OnTheWay(s)' = pending' \cup Elems(queue'[s]) \cup missed'[s] \cup S \cup Arriving(s)'
  BY DEF OnTheWay
<1>4. S \subseteq Msg /\ Arriving(s)' \subseteq Msg
  BY <1>2 DEF Arriving
<1> HIDE DEF S
<1>5. OnTheWay(s)' \subseteq Msg
  BY <1>1, <1>2, <1>3, <1>4
<1> QED BY <1>3, <1>5 DEF S

(* Nothing is lost between the read of the snapshot and the screen.          *)
LEMMA HandoverStep ==
    ASSUME MaxRemounts = 0, NoNegativeTimes, TypeOK, TypeOK', OneSocket, SentInOrder,
           RightTags, SnapshotSent, Handover, [Next]_vars
    PROVE  Handover'
<1> USE DEF storeVars, connVars, feedVars, clientVars, socketVars
<1>0. /\ attached \subseteq Conn /\ open \in [Conn -> BOOLEAN] /\ snap \in [Conn -> Table]
      /\ phase \in [Conn -> {"idle", "requested", "subscribed", "snapped", "live"}]
      /\ wire \in [Conn -> Seq(Frame)] /\ queue \in [Conn -> Seq(Msg)]
      /\ missed \in [Conn -> SUBSET Msg] /\ pending \subseteq Msg
      /\ \A s \in Conn : queue[s] \in Seq(Msg) /\ snap[s] \in Table
  BY DEF TypeOK, FeedTypeOK
<1> DEFINE Reading(s) == s \in attached /\ open[s] /\ phase[s] \in {"snapped", "live"}
           ReadingNext(s) == s \in attached' /\ open'[s] /\ phase'[s] \in {"snapped", "live"}
<1>w. ASSUME NEW s \in Conn
      PROVE  /\ OnTheWay(s) \in SUBSET Msg /\ OnTheWay(s)' \in SUBSET Msg
             /\ Values(current) \in SUBSET Msg
  BY WayTypes, WayTypesNext
<1>1. ASSUME UNCHANGED current,
             \A s \in Conn : ReadingNext(s) =>
                Reading(s) /\ Outdone(OnTheWay(s), OnTheWay(s)')
      PROVE  Handover'
  <2>1. ASSUME NEW s \in attached', ReadingNext(s) PROVE Outdone(Values(current), OnTheWay(s)')
    <3>1. s \in Conn
      BY DEF TypeOK
    <3>2. Outdone(Values(current), OnTheWay(s)) /\ Outdone(OnTheWay(s), OnTheWay(s)')
      BY <1>1, <2>1, <3>1 DEF Handover
    <3> QED BY <1>w, <3>1, <3>2, OutdoneOrder
  <2> QED BY <1>1, <2>1 DEF Handover
<1>2. ASSUME UNCHANGED current,
             \A s \in Conn : ReadingNext(s) => Reading(s) /\ OnTheWay(s) \subseteq OnTheWay(s)'
      PROVE  Handover'
  BY <1>1, <1>2, <1>w, OutdoneOrder
<1>3. ASSUME NEW m \in Msg, EventCommitted(m) \/ EventCommittedSilently(m), UNCHANGED clientVars
      PROVE  Handover'
  <2>1. Committed(m) /\ UNCHANGED <<phase, open, attached, queue, snap, wire, view, gotSnapshot>>
    BY <1>3 DEF EventCommitted, EventCommittedSilently, StoreCommit, StoreCommitUnannounced
  <2>2. ASSUME NEW s \in Conn, Reading(s)
        PROVE  m \in OnTheWay(s)' /\ OnTheWay(s) \subseteq OnTheWay(s)'
    <3>1. /\ m \in pending' \/ m \in missed'[s]
          /\ pending \subseteq pending' /\ missed[s] \subseteq missed'[s]
      BY <1>0, <1>3, <2>2
      DEF EventCommitted, EventCommittedSilently, StoreCommit, StoreCommitUnannounced, Subscribers
    <3>2. Arriving(s)' = Arriving(s)
      BY <2>1, SameArriving
    <3> QED BY <2>1, <3>1, <3>2, WayTypes, WayTypesNext
  <2>3. Values(current') \subseteq Values(current) \cup {m}
    <3>1. \A t \in Tag : current'[t] \in {current[t], m}
      <4>1. \A t \in Tag : current[t] \in Row
        BY DEF TypeOK, FeedTypeOK, Table
      <4> QED BY <2>1, <4>1, RowRules DEF Committed, TypeOK, FeedTypeOK, Table
    <3> QED BY <3>1 DEF Values
  <2>4. ASSUME NEW s \in attached', ReadingNext(s) PROVE Outdone(Values(current'), OnTheWay(s)')
    <3>1. s \in Conn /\ Reading(s)
      BY <1>0, <2>1, <2>4
    <3>2. Outdone(Values(current), OnTheWay(s)')
      BY <1>w, <2>2, <3>1, OutdoneOrder DEF Handover
    <3>3. Outdone({m}, OnTheWay(s)')
      BY <1>w, <2>2, <3>1, OutdoneOrder
    <3> QED BY <2>3, <3>2, <3>3 DEF Outdone
  <2> QED BY <2>4 DEF Handover
<1>4. ASSUME NEW m \in Msg, Publish(m), UNCHANGED clientVars PROVE Handover'
  <2>1. UNCHANGED <<current, phase, open, attached, snap, wire, view, gotSnapshot>>
    BY <1>4 DEF Publish, StoreAnnounce
  <2>2. ASSUME NEW s \in Conn, Reading(s) PROVE OnTheWay(s) \subseteq OnTheWay(s)'
    <3>1. s \in Subscribers
      BY <2>2 DEF Subscribers
    <3>2. pending \subseteq pending' \cup {m}
      BY <1>4 DEF Publish, StoreAnnounce
    <3>3. /\ missed[s] \subseteq missed'[s] /\ Elems(queue[s]) \subseteq Elems(queue'[s])
          /\ m \in Elems(queue'[s]) \cup missed'[s]
      <4>1. CASE HasRoom(s)
        <5>1. queue'[s] = Append(queue[s], m) /\ missed'[s] = missed[s]
          BY <1>4, <3>1, <4>1 DEF Publish
        <5> QED BY <1>0, <5>1, AppendElems
      <4>2. CASE ~HasRoom(s)
        BY <1>4, <3>1, <4>2 DEF Publish
      <4> QED BY <4>1, <4>2
    <3>4. Arriving(s)' = Arriving(s)
      BY <2>1, SameArriving
    <3> QED BY <2>1, <3>2, <3>3, <3>4, WayTypes, WayTypesNext
  <2> QED BY <1>2, <2>1, <2>2
<1>5. ASSUME ServerDown, UNCHANGED clientVars PROVE Handover'
  <2>1. \A s \in attached' : ~open'[s]
    BY <1>0, <1>5 DEF ServerDown
  <2> QED BY <2>1 DEF Handover
<1>6. ASSUME NEW s \in Conn, UNCHANGED <<storeVars, missed, queue, snap, phase, wire, view, gotSnapshot>>
      PROVE  OnTheWay(s)' = OnTheWay(s)
  BY <1>6, SameArriving DEF OnTheWay
<1>7. ASSUME NEW s \in Conn, UNCHANGED <<storeVars, view, gotSnapshot>>,
             missed'[s] = missed[s], queue'[s] = queue[s], snap'[s] = snap[s],
             phase'[s] = phase[s], wire'[s] = wire[s]
      PROVE  OnTheWay(s)' = OnTheWay(s)
  BY <1>7, SameArriving DEF OnTheWay
<1>8. ASSUME ServerUp, UNCHANGED clientVars PROVE Handover'
  BY <1>2, <1>6, <1>8 DEF ServerUp
<1>9. ASSUME NEW s \in Conn, Accept(s) \/ SnapshotFails(s) \/ SendFails(s), UNCHANGED clientVars
      PROVE  Handover'
  <2>1. /\ UNCHANGED <<storeVars, view, gotSnapshot, attached>>
        /\ phase'[s] \in {"idle", "subscribed"}
        /\ \A c \in Conn \ {s} :
              /\ missed'[c] = missed[c] /\ queue'[c] = queue[c] /\ snap'[c] = snap[c]
              /\ phase'[c] = phase[c] /\ wire'[c] = wire[c] /\ open'[c] = open[c]
    BY <1>0, <1>9 DEF Accept, SnapshotFails, SendFails, Unsubscribe
  <2>2. \A c \in Conn \ {s} : OnTheWay(c)' = OnTheWay(c)
    BY <1>7, <2>1
  <2> QED BY <1>2, <2>1, <2>2
<1>10. ASSUME NEW s \in Conn, ReadSnapshot(s), UNCHANGED clientVars PROVE Handover'
  <2>1. /\ UNCHANGED <<storeVars, view, gotSnapshot, attached, queue, wire, open>>
        /\ phase'[s] = "snapped" /\ snap'[s] = current
        /\ \A c \in Conn \ {s} :
              missed'[c] = missed[c] /\ snap'[c] = snap[c] /\ phase'[c] = phase[c]
    BY <1>0, <1>10 DEF ReadSnapshot
  <2>2. \A c \in Conn \ {s} : OnTheWay(c)' = OnTheWay(c)
    BY <1>7, <2>1
  <2>3. Values(current) \subseteq OnTheWay(s)'
    BY <2>1, WayTypesNext
  <2>4. Outdone(Values(current), OnTheWay(s)')
    BY <1>w, <2>3, OutdoneOrder
  <2>5. ASSUME NEW c \in attached', ReadingNext(c) PROVE Outdone(Values(current'), OnTheWay(c)')
    BY <1>0, <2>1, <2>2, <2>4, <2>5 DEF Handover
  <2> QED BY <2>5 DEF Handover
<1>11. ASSUME NEW s \in Conn, SendSnapshot(s), UNCHANGED clientVars PROVE Handover'
  <2>1. SnapshotFrame(snap[s]) \in Frame /\ Send(s, SnapshotFrame(snap[s])) /\ open[s]
    BY <1>0, <1>11, FrameTypes DEF SendSnapshot, Send
  <2>2. /\ UNCHANGED <<storeVars, queue, snap, missed, open, view, gotSnapshot, attached>>
        /\ phase[s] = "snapped" /\ phase'[s] = "live"
        /\ \A c \in Conn \ {s} : phase'[c] = phase[c]
    BY <1>0, <1>11 DEF SendSnapshot
  <2>3. /\ Arriving(s)' = Arriving(s) \cup Values(snap[s])
        /\ \A c \in Conn \ {s} : wire'[c] = wire[c]
    BY <2>1, <2>2, SendArrives, RowsOfFrames
  <2>4. OnTheWay(s) \subseteq OnTheWay(s)'
    BY <2>2, <2>3, WayTypes, WayTypesNext
  <2>5. \A c \in Conn \ {s} : OnTheWay(c)' = OnTheWay(c)
    BY <1>7, <2>2, <2>3
  <2> QED BY <1>2, <2>2, <2>4, <2>5
<1>12. ASSUME NEW s \in Conn, SkipStale(s) \/ Forward(s), UNCHANGED clientVars PROVE Handover'
  <2> DEFINE m == Head(queue[s])
  <2>1. /\ UNCHANGED <<storeVars, snap, missed, open, phase, view, gotSnapshot, attached>>
        /\ queue' = [queue EXCEPT ![s] = Tail(@)] /\ queue[s] # <<>> /\ phase[s] = "live"
    BY <1>12 DEF SkipStale, Forward
  <2>2. m \in Msg /\ Elems(queue[s]) = Elems(queue'[s]) \cup {m}
    BY <1>0, <2>1, TailElems
  <2>3. \A c \in Conn \ {s} : queue'[c] = queue[c]
    BY <1>0, <2>1
  <2>4. CASE Forward(s)
    <3>1. EnvelopeFrame(m) \in Frame /\ Send(s, EnvelopeFrame(m))
      BY <2>2, <2>4, FrameTypes DEF Forward
    <3>2. Arriving(s)' = Arriving(s) \cup {m} /\ \A c \in Conn \ {s} : wire'[c] = wire[c]
      BY <2>1, <3>1, SendArrives, RowsOfFrames
    <3>3. OnTheWay(s) \subseteq OnTheWay(s)'
      BY <2>1, <2>2, <3>2, WayTypes, WayTypesNext
    <3>4. \A c \in Conn \ {s} : OnTheWay(c)' = OnTheWay(c)
      BY <1>7, <2>1, <2>3, <3>2
    <3> QED BY <1>2, <2>1, <3>3, <3>4
  <2>5. CASE SkipStale(s)
    <3>1. UNCHANGED wire /\ IsStale(m, snap[s])
      BY <2>5 DEF SkipStale
    <3>2. Arriving(s)' = Arriving(s)
      BY <2>1, <3>1, SameArriving
    <3>3. Outdone({m}, Values(snap[s]))
      BY <1>0, <2>2, <3>1, StaleIsOutdone DEF RightTags
    <3>4. ASSUME Reading(s) PROVE Outdone(OnTheWay(s), OnTheWay(s)')
      <4>1. Outdone(Values(snap[s]), Arriving(s))
        BY <2>1, <3>4 DEF SnapshotSent
      <4>2. /\ Arriving(s) \in SUBSET Msg /\ Values(snap[s]) \in SUBSET Msg
            /\ Arriving(s) \subseteq OnTheWay(s)' /\ {m} \in SUBSET Msg
        BY <2>2, <3>2, WayTypes, WayTypesNext
      <4>3. Outdone({m}, OnTheWay(s)')
        BY <1>w, <3>3, <4>1, <4>2, OutdoneOrder
      <4>4. OnTheWay(s) = OnTheWay(s)' \cup {m}
        BY <2>1, <2>2, <3>2, WayTypes, WayTypesNext
      <4>5. Outdone(OnTheWay(s)', OnTheWay(s)')
        BY <1>w, OutdoneOrder
      <4> QED BY <4>3, <4>4, <4>5 DEF Outdone
    <3>5. \A c \in Conn \ {s} : OnTheWay(c)' = OnTheWay(c)
      BY <1>7, <2>1, <2>3, <3>1
    <3>6. \A c \in Conn \ {s} : Outdone(OnTheWay(c), OnTheWay(c)')
      BY <1>w, <3>5, OutdoneOrder
    <3>7. \A c \in Conn : ReadingNext(c) => Reading(c)
      BY <2>1
    <3> QED BY <1>1, <2>1, <3>4, <3>6, <3>7
  <2> QED BY <1>12, <2>4, <2>5
<1>13. ASSUME NEW s \in Conn, Connect(s) PROVE Handover'
  <2>1. attached' = {s} /\ phase'[s] = "requested"
    BY <1>0, <1>13 DEF Connect, NewSocket, OneSocket, TypeOK
  <2> QED BY <2>1 DEF Handover
<1>14. ASSUME NEW s \in Conn, Remount(s) PROVE FALSE
  BY <1>14 DEF Remount, TypeOK
<1>15. ASSUME NEW s \in Conn, ConnectionBreaks(s) \/ ConnectionRefused(s) PROVE Handover'
  <2>1. /\ UNCHANGED <<storeVars, missed, queue, snap, wire, view, gotSnapshot, attached>>
        /\ \A c \in Conn : open'[c] => c # s /\ open[c] /\ phase'[c] = phase[c]
    BY <1>0, <1>15 DEF ConnectionBreaks, ConnectionRefused, Broken
  <2>2. \A c \in Conn : open'[c] => OnTheWay(c)' = OnTheWay(c)
    BY <1>7, <2>1
  <2> QED BY <1>2, <2>1, <2>2
<1>16. ASSUME NEW s \in Conn, OnClose(s) PROVE Handover'
  <2>1. attached' = {}
    BY <1>16 DEF OnClose, OneSocket
  <2> QED BY <2>1 DEF Handover
<1>17. ASSUME NEW s \in Conn,
              OnOpen(s) \/ OnSnapshot(s) \/ OnStraySnapshot(s) \/ OnEnvelope(s)
       PROVE  Handover'
  <2>1. Outdone(Arriving(s), Arriving(s)')
    BY <1>17, HandledOutdoes
  <2>2. s \in attached /\ Handled(s) /\ \A c \in attached : c = s
    BY <1>17 DEF OnOpen, OnSnapshot, OnStraySnapshot, OnEnvelope, NextFrame, OneSocket
  <2>3. UNCHANGED <<storeVars, queue, missed, phase, snap, open, attached>>
    BY <2>2 DEF Handled
  <2> DEFINE Rest == pending \cup Elems(queue[s]) \cup missed[s]
                       \cup (IF phase[s] = "snapped" THEN Values(snap[s]) ELSE {})
  <2>4. OnTheWay(s) = Rest \cup Arriving(s) /\ OnTheWay(s)' = Rest \cup Arriving(s)'
    BY <2>3, WayTypes, WayTypesNext
  <2> HIDE DEF Rest
  <2>5. Outdone(Rest, OnTheWay(s)') /\ Outdone(Arriving(s), OnTheWay(s)')
    <3>1. Rest \in SUBSET Msg /\ Rest \subseteq OnTheWay(s)'
      BY <1>w, <2>4
    <3>2. Outdone(Rest, OnTheWay(s)')
      BY <1>w, <3>1, OutdoneOrder
    <3> QED BY <2>1, <2>4, <3>2 DEF Outdone
  <2>6. Outdone(OnTheWay(s), OnTheWay(s)')
    BY <2>4, <2>5 DEF Outdone
  <2>7. \A c \in Conn : ReadingNext(c) => c = s /\ Reading(c)
    BY <2>2, <2>3
  <2> QED BY <1>1, <2>3, <2>6, <2>7
<1>18. CASE UNCHANGED vars
  <2>1. UNCHANGED <<storeVars, missed, queue, snap, phase, wire, view, gotSnapshot, open, attached>>
    BY <1>18 DEF vars
  <2> QED BY <1>2, <1>6, <2>1
<1> QED
  BY <1>3, <1>4, <1>5, <1>8, <1>9, <1>10, <1>11, <1>12, <1>13, <1>14, <1>15, <1>16, <1>17, <1>18
  DEF Next, FeedNext, ClientNext

(* Before anything is connected nothing has to be carried.                   *)
LEMMA HandoverStart ==
    ASSUME Init
    PROVE  OneSocket /\ EverythingCommitted /\ SentInOrder /\ RightTags /\ SnapshotSent /\ Handover
<1>1. attached = {} /\ current = NoRows /\ view = NoRows
  BY DEF Init, FeedInit, StoreInit, NoRows
<1>2. \A s \in Conn : Elems(wire[s]) = {} /\ snap[s] = NoRows
  BY DEF Init, FeedInit, Elems
<1>3. TagsMatch(NoRows)
  BY DEF TagsMatch, NoRows
<1> QED BY <1>1, <1>2, <1>3, HandoverInit DEF RightTags, SnapshotSent, Handover

(* The handover from the snapshot to the feed loses no tag's newest state:   *)
(* positions_ws subscribes before it reads, and what _is_stale leaves out is *)
(* older than the snapshot that was sent.  What the theorem needs beside the *)
(* single mount is that no event is dated before 1970.                       *)
THEOREM HandoverTheorem ==
    ASSUME MaxRemounts = 0, NoNegativeTimes PROVE Spec => []HandoverIsComplete
<1> DEFINE Inv == /\ OneSocket /\ EverythingCommitted /\ SentInOrder
                  /\ RightTags /\ SnapshotSent /\ Handover
<1>1. Init => Inv
  BY HandoverStart
<1>2. TypeOK /\ TypeOK' /\ Inv /\ [Next]_vars => Inv'
  BY SocketStep, CommittedStep, OrderStep, TagsStep, SentStep, HandoverStep
<1>3. TypeOK /\ Inv => HandoverIsComplete
  BY HandoverMeaning
<1> HIDE DEF Inv
<1> QED BY <1>1, <1>2, <1>3, LiveMapTypeCorrect, PTL DEF Spec

(* What _is_stale leaves out is no news: the browser shows, or has on its    *)
(* socket, a strictly newer event of the tag.  The filter's snapshot was     *)
(* sent, every frame handled since left something at least as new, and with  *)
(* no event before 1970 the default 0 hides nothing.                         *)
THEOREM LeftOutTheorem ==
    ASSUME MaxRemounts = 0, NoNegativeTimes PROVE Spec => []LeftOutIsOld
<1> DEFINE Inv == /\ OneSocket /\ EverythingCommitted /\ SentInOrder
                  /\ RightTags /\ SnapshotSent
<1>1. Init => Inv
  BY HandoverStart
<1>2. TypeOK /\ TypeOK' /\ Inv /\ [Next]_vars => Inv'
  BY SocketStep, CommittedStep, OrderStep, TagsStep, SentStep
<1>3. TypeOK /\ Inv => LeftOutIsOld
  <2> SUFFICES ASSUME TypeOK, Inv, NEW s \in attached, open[s], phase[s] = "live",
                      NEW m \in Elems(queue[s]), IsStale(m, snap[s])
               PROVE  \E n \in Arriving(s) : TagOf[n] = TagOf[m] /\ TsOf[n] > TsOf[m]
    BY DEF LeftOutIsOld
  <2>1. s \in Conn /\ snap[s] \in Table /\ Arriving(s) \subseteq Msg /\ m \in Msg
    BY WayTypes DEF TypeOK, FeedTypeOK
  <2> DEFINE row == snap[s][TagOf[m]]
  <2>2. /\ TagOf[m] \in Tag /\ TsOf[m] \in Int /\ TsOf[m] >= 0 /\ row \in Row
    BY <2>1, PositionsAssumption DEF Table, NoNegativeTimes
  <2>3. row # None /\ TsOf[m] < TsOf[row]
    BY <2>2 DEF IsStale
  <2>4. row \in Values(snap[s]) /\ TagOf[row] = TagOf[m] /\ row \in Msg
    BY <2>1, <2>2, <2>3 DEF RightTags, TagsMatch, Values, Row
  <2> HIDE DEF row
  <2>5. PICK n \in Arriving(s) : TagOf[n] = TagOf[row] /\ AtLeast(n, row)
    BY <2>4 DEF SnapshotSent, Outdone
  <2>6. TsOf[n] \in Int /\ TsOf[row] \in Int /\ TsOf[n] >= TsOf[row]
    BY <2>1, <2>4, <2>5, PositionsAssumption DEF AtLeast
  <2> QED BY <2>2, <2>3, <2>4, <2>5, <2>6
<1> HIDE DEF Inv
<1> QED BY <1>1, <1>2, <1>3, LiveMapTypeCorrect, PTL DEF Spec
==============================================================================
