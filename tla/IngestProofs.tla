----------------------------- MODULE IngestProofs ----------------------------
(****************************************************************************)
(* Proofs about the way into the queue (Ingest), for every file, every      *)
(* sequence of device datagrams and every settings file.                    *)
(****************************************************************************)
EXTENDS Ingest, DecodingProofs, FiniteSetTheorems, TLAPS

USE IngestAssumption

(* The file and the datagrams of the devices are sequences.                  *)
LEMMA LengthFacts ==
    /\ Len(Source) \in Nat /\ DOMAIN Source = 1..Len(Source)
    /\ Len(Device) \in Nat /\ DOMAIN Device = 1..Len(Device)
    /\ \A i \in Objects : i \in 1..Len(Source)
    /\ Objects \subseteq Sendable
    /\ \A i \in 1..Len(Device) : Len(Source) + i \in Sendable
<1>1. /\ Len(Source) \in Nat /\ DOMAIN Source = 1..Len(Source)
      /\ Len(Device) \in Nat /\ DOMAIN Device = 1..Len(Device)
  <2>1. ASSUME NEW S, NEW s \in Seq(S)
        PROVE  Len(s) \in Nat /\ DOMAIN s = 1..Len(s)
    BY <2>1
  <2>2. Source \in Seq({Source[i] : i \in DOMAIN Source})
    BY DEF IsSequence
  <2>3. Device \in Seq({Device[i] : i \in DOMAIN Device})
    BY DEF IsSequence
  <2> QED BY <2>1, <2>2, <2>3
<1> QED BY <1>1 DEF Objects, Sendable
------------------------------------------------------------------------------
(* What can be attached or stand in the queue's headers.                     *)
Traces == {None} \cup {TraceOf(Datagram(i)) : i \in Sendable}

(* The types the proofs need beyond TypeOK.                                  *)
QueueTypes ==
    /\ context \in Traces
    /\ queue \in Seq([event : Nat, trace : Traces])

(* The receiving thread has the context of the datagram in work attached,    *)
(* and none between two datagrams.                                           *)
ContextIsOwn ==
    /\ busy = None => context = None
    /\ busy # None => context = TraceOf(Datagram(arrived[busy]))

(* What is in work was received after everything that was published.         *)
QueueIsBehind == busy # None => \A i \in DOMAIN queue : queue[i].event < busy

(* What a step does to what is received and published.                       *)
Entry == [event |-> busy, trace |-> context]

Quiet == UNCHANGED <<arrived, taken, busy, context, queue>>

Reached == /\ phase = "serving" /\ Len(arrived) - taken < BufferSize
           /\ \E i \in Sendable : arrived' = Append(arrived, i)
           /\ UNCHANGED <<taken, busy, context, queue, phase, since, faults>>

Taken(n) == /\ phase = "serving" /\ busy = None /\ taken < Len(arrived) /\ n = taken + 1 /\ taken' = n
            /\ UNCHANGED <<arrived, queue, phase, since, faults>>

Attached(n) ==
    context' = IF HasContext(Datagram(arrived[n])) THEN TraceOf(Datagram(arrived[n])) ELSE context

Begun == \E n \in Nat : Taken(n) /\ Accepted(n) /\ busy' = n /\ Attached(n)

Rejected == \E n \in Nat : Taken(n) /\ ~Accepted(n) /\ busy' = None /\ context' = None

Put == busy # None /\ queue' = Append(queue, Entry)

Over == /\ queue' = queue \/ Put
        /\ busy' = None /\ context' = None /\ UNCHANGED <<arrived, taken, since>>

(* Every step is one of these.                                               *)
LEMMA WhatMoves ==
    ASSUME TypeOK, [Next]_vars
    PROVE  Quiet \/ Reached \/ Begun \/ Rejected \/ Over
<1> USE DEF senderVars, serverVars, brokerVars
<1>1. CASE UNCHANGED vars
  BY <1>1 DEF vars, Quiet
<1>2. CASE SendFails \/ EncodingFails \/ DeviceSends \/ ReceiveFails \/ Interrupt \/ BindQueue \/ LinkLost \/ LinkBack
  BY <1>2 DEF SendFails, EncodingFails, DeviceSends, ReceiveFails, Interrupt, BindQueue, LinkLost, LinkBack, Quiet
<1>3. CASE \E i \in Sendable : Send(i) \/ Lose(i)
  BY <1>3 DEF Send, Lose, Quiet
<1>4. CASE \E i \in Sendable : Arrive(i)
  BY <1>4 DEF Arrive, Reached
<1>5. CASE Receive
  <2>1. taken + 1 \in Nat /\ Taken(taken + 1)
    BY <1>5 DEF Receive, CanReceive, HandleProcessingError, Taken, TypeOK
  <2>2. CASE Accepted(taken + 1)
    <3>1. busy' = taken + 1 /\ Attached(taken + 1)
      BY <1>5, <2>2 DEF Receive, Attached
    <3> QED BY <2>1, <2>2, <3>1 DEF Begun
  <2>3. CASE ~Accepted(taken + 1)
    <3>1. busy' = None /\ context' = None
      BY <1>5, <2>3 DEF Receive, HandleProcessingError, Detach
    <3> QED BY <2>1, <2>3, <3>1 DEF Rejected
  <2> QED BY <2>2, <2>3
<1>6. CASE Close
  BY <1>6 DEF Close, ClosePublisher, Detach, Over
<1>7. CASE Publish \/ PublishFails
  BY <1>7 DEF Publish, PublishFails, Route, Released, Detach, Over, Put, Entry
<1> QED BY <1>1, <1>2, <1>3, <1>4, <1>5, <1>6, <1>7 DEF Next

(* The phases: serving ends by a fault, with nothing else happening, and the *)
(* process is closed with nothing in work.                                   *)
LEMMA PhaseMoves ==
    ASSUME TypeOK, [Next]_vars
    PROVE  \/ phase' = phase
           \/ phase = "serving" /\ phase' = "closing" /\ faults' = faults + 1 /\ Quiet
              /\ since' = since
           \/ phase = "closing" /\ phase' = "closed" /\ busy' = None
<1> USE DEF senderVars, serverVars, brokerVars
<1>1. CASE UNCHANGED vars
  BY <1>1 DEF vars
<1>2. CASE SendFails \/ EncodingFails \/ DeviceSends \/ BindQueue \/ LinkLost \/ LinkBack
  BY <1>2 DEF SendFails, EncodingFails, DeviceSends, BindQueue, LinkLost, LinkBack
<1>3. CASE \E i \in Sendable : Send(i) \/ Lose(i) \/ Arrive(i)
  BY <1>3 DEF Send, Lose, Arrive
<1>4. CASE Receive
  BY <1>4 DEF Receive, HandleProcessingError
<1>5. CASE ReceiveFails \/ Interrupt
  BY <1>5 DEF ReceiveFails, Interrupt, Fault, Quiet
<1>6. CASE Close
  BY <1>6 DEF Close, ClosePublisher
<1>7. CASE Publish \/ PublishFails
  BY <1>7 DEF Publish, PublishFails
<1> QED BY <1>1, <1>2, <1>3, <1>4, <1>5, <1>6, <1>7 DEF Next

(* The queue is bound once; the settings and the faults.                     *)
LEMMA BrokerMoves ==
    ASSUME TypeOK, [Next]_vars
    PROVE  /\ since' = since \/ (since = None /\ since' = taken /\ Quiet /\ UNCHANGED <<phase, faults>>)
           /\ faults' = faults \/ (faults < MaxFaults /\ faults' = faults + 1)
           /\ settings' = settings
           /\ link' \in {"up", "down"}
<1> USE DEF senderVars, serverVars, brokerVars
<1>1. CASE UNCHANGED vars
  BY <1>1 DEF vars, TypeOK
<1>2. CASE SendFails \/ EncodingFails \/ DeviceSends \/ BindQueue \/ LinkLost \/ LinkBack
  BY <1>2 DEF SendFails, EncodingFails, DeviceSends, BindQueue, LinkLost, LinkBack, Fault, Quiet, TypeOK
<1>3. CASE \E i \in Sendable : Send(i) \/ Lose(i) \/ Arrive(i)
  BY <1>3 DEF Send, Lose, Arrive, TypeOK
<1>4. CASE Receive \/ ReceiveFails \/ Interrupt \/ Close
  BY <1>4 DEF Receive, ReceiveFails, Interrupt, Close, Fault, TypeOK
<1>5. CASE Publish \/ PublishFails
  BY <1>5 DEF Publish, PublishFails, Fault, TypeOK
<1> QED BY <1>1, <1>2, <1>3, <1>4, <1>5 DEF Next

(* The senders and the network keep their types.                             *)
SenderTypes ==
    /\ sent \in 0..Len(Source) /\ emitted \in 0..Len(Device)
    /\ net \in [Sendable -> 0..MaxCopies]

(* Every step keeps them.                                                    *)
LEMMA SenderStep ==
    ASSUME TypeOK, [Next]_vars
    PROVE  SenderTypes' /\ sending' \in BOOLEAN
<1> USE DEF senderVars, serverVars, brokerVars
<1>0. SenderTypes /\ sending \in BOOLEAN
  BY DEF TypeOK, SenderTypes
<1>1. CASE UNCHANGED vars
  BY <1>0, <1>1 DEF vars, SenderTypes
<1>2. ASSUME NEW i \in Sendable, Send(i)
      PROVE  SenderTypes' /\ sending' \in BOOLEAN
  <2>1. i \in 1..Len(Source)
    BY <1>2, LengthFacts DEF Send, IsNext
  <2>2. net' \in [Sendable -> 0..MaxCopies]
    BY <1>0, <1>2 DEF Send, Transmit, SenderTypes
  <2>3. sent' = i /\ UNCHANGED <<sending, emitted>>
    BY <1>2 DEF Send
  <2> QED BY <1>0, <2>1, <2>2, <2>3 DEF SenderTypes
<1>3. CASE SendFails \/ EncodingFails
  BY <1>0, <1>3 DEF SendFails, EncodingFails, SenderTypes
<1>4. CASE DeviceSends
  <2>1. emitted' \in 1..Len(Device)
    BY <1>0, <1>4, LengthFacts DEF DeviceSends, SenderTypes
  <2>2. Len(Source) + emitted' \in Sendable
    BY <2>1, LengthFacts
  <2>3. net' \in [Sendable -> 0..MaxCopies]
    BY <1>0, <1>4, <2>2 DEF DeviceSends, Transmit, SenderTypes
  <2>4. UNCHANGED <<sent, sending>>
    BY <1>4 DEF DeviceSends
  <2> QED BY <1>0, <2>1, <2>3, <2>4, LengthFacts DEF SenderTypes
<1>5. ASSUME NEW i \in Sendable, Lose(i) \/ Arrive(i)
      PROVE  SenderTypes' /\ sending' \in BOOLEAN
  <2>1. net[i] > 0 /\ net' = [net EXCEPT ![i] = @ - 1] /\ UNCHANGED <<sent, sending, emitted>>
    BY <1>5 DEF Lose, Arrive
  <2>2. net[i] - 1 \in 0..MaxCopies
    BY <1>0, <2>1 DEF SenderTypes
  <2>3. net' \in [Sendable -> 0..MaxCopies]
    BY <1>0, <2>1, <2>2 DEF SenderTypes
  <2> QED BY <1>0, <2>1, <2>3 DEF SenderTypes
<1>6. CASE Receive \/ ReceiveFails \/ Interrupt \/ Close
  BY <1>0, <1>6 DEF Receive, ReceiveFails, Interrupt, Close, SenderTypes
<1>7. CASE Publish \/ PublishFails \/ BindQueue \/ LinkLost \/ LinkBack
  BY <1>0, <1>7 DEF Publish, PublishFails, BindQueue, LinkLost, LinkBack, SenderTypes
<1> QED BY <1>1, <1>2, <1>3, <1>4, <1>5, <1>6, <1>7 DEF Next

(* What appending to a sequence does to its places.                          *)
LEMMA AppendFacts ==
    ASSUME NEW S, NEW s \in Seq(S), NEW e \in S
    PROVE  /\ Append(s, e) \in Seq(S)
           /\ Len(s) \in Nat /\ DOMAIN s = 1..Len(s)
           /\ Len(Append(s, e)) = Len(s) + 1
           /\ DOMAIN Append(s, e) = 1..(Len(s) + 1)
           /\ \A i \in 1..Len(s) : Append(s, e)[i] = s[i]
           /\ Append(s, e)[Len(s) + 1] = e
OBVIOUS

(* The receiver and the queue: all parts of the invariant that the receiving *)
(* thread is responsible for.                                                *)
ServerTypes ==
    /\ arrived \in Seq(Sendable)
    /\ taken \in 0..Len(arrived) /\ Len(arrived) - taken <= BufferSize
    /\ busy \in 1..taken \cup {None}
    /\ \A i \in DOMAIN queue : queue[i].event \in 1..taken

IInv ==
    /\ TypeOK /\ QueueTypes /\ ContextIsOwn /\ QueueIsBehind
    /\ PublishedInOrder /\ TraceIsOwn

(* The entry that is put into the queue is that of the datagram in work.     *)
LEMMA EntryFacts ==
    ASSUME IInv, busy # None
    PROVE  /\ Entry \in [event : Nat, trace : Traces]
           /\ Entry.event = busy /\ busy \in 1..taken
           /\ Entry.trace = TraceOf(Datagram(arrived[busy]))
BY DEF IInv, TypeOK, QueueTypes, ContextIsOwn, Entry

(* The receiver's part of a step.                                            *)
LEMMA ServerStep ==
    ASSUME IInv, [Next]_vars
    PROVE  /\ ServerTypes' /\ QueueTypes' /\ ContextIsOwn' /\ QueueIsBehind'
           /\ PublishedInOrder' /\ TraceIsOwn'
<1> DEFINE Goal == /\ ServerTypes /\ QueueTypes /\ ContextIsOwn /\ QueueIsBehind
                   /\ PublishedInOrder /\ TraceIsOwn
<1>0. Goal
  BY DEF IInv, TypeOK, ServerTypes
<1>a. /\ arrived \in Seq(Sendable) /\ Len(arrived) \in Nat /\ DOMAIN arrived = 1..Len(arrived)
      /\ taken \in 0..Len(arrived) /\ Len(arrived) - taken <= BufferSize
      /\ busy \in 1..taken \cup {None} /\ context \in Traces
      /\ queue \in Seq([event : Nat, trace : Traces]) /\ Len(queue) \in Nat
      /\ DOMAIN queue = 1..Len(queue)
      /\ \A i \in 1..Len(queue) : queue[i].event \in 1..taken
  <2>1. /\ arrived \in Seq(Sendable) /\ taken \in 0..Len(arrived)
        /\ Len(arrived) - taken <= BufferSize
        /\ busy \in 1..taken \cup {None}
    BY DEF IInv, TypeOK
  <2>2. /\ context \in Traces /\ queue \in Seq([event : Nat, trace : Traces])
        /\ \A i \in 1..Len(queue) : queue[i].event \in 1..taken
    <3>1. QueueTypes /\ TypeOK
      BY DEF IInv
    <3> QED BY <3>1 DEF TypeOK, QueueTypes
  <2>3. Len(arrived) \in Nat /\ DOMAIN arrived = 1..Len(arrived)
    BY <2>1
  <2>4. Len(queue) \in Nat /\ DOMAIN queue = 1..Len(queue)
    BY <2>2
  <2> QED BY <2>1, <2>2, <2>3, <2>4
<1>b. \A j \in 1..(Len(queue) + 1) : j \in 1..Len(queue) \/ j = Len(queue) + 1
  <2>1. Len(queue) \in Nat
    BY <1>a
  <2> QED BY <2>1
<1>1. ASSUME Quiet
      PROVE  Goal'
  BY <1>0, <1>1 DEF Quiet, ServerTypes, QueueTypes, ContextIsOwn, QueueIsBehind,
                    PublishedInOrder, TraceIsOwn
<1>2. ASSUME Reached
      PROVE  Goal'
  <2>1. PICK i \in Sendable : arrived' = Append(arrived, i)
    BY <1>2 DEF Reached
  <2>2. /\ arrived' \in Seq(Sendable) /\ Len(arrived') = Len(arrived) + 1
        /\ \A n \in 1..Len(arrived) : arrived'[n] = arrived[n]
    BY <1>a, <2>1, AppendFacts
  <2>3. UNCHANGED <<taken, busy, context, queue>> /\ Len(arrived) - taken < BufferSize
    BY <1>2 DEF Reached
  <2>4. \A n \in 1..taken : arrived'[n] = arrived[n]
    BY <1>a, <2>2
  <2>5. ServerTypes'
    BY <1>a, <1>0, <2>2, <2>3 DEF ServerTypes
  <2>6. QueueTypes' /\ QueueIsBehind' /\ PublishedInOrder'
    BY <1>0, <2>3 DEF QueueTypes, QueueIsBehind, PublishedInOrder
  <2>7. ContextIsOwn'
    BY <1>0, <1>a, <2>3, <2>4 DEF ContextIsOwn
  <2>8. TraceIsOwn'
    BY <1>0, <1>a, <2>3, <2>4 DEF TraceIsOwn
  <2> QED BY <2>5, <2>6, <2>7, <2>8
<1>3. ASSUME NEW n \in Nat, Taken(n)
      PROVE  /\ n \in 1..Len(arrived) /\ n = taken + 1 /\ taken' = n /\ busy = None
             /\ arrived[n] \in Sendable /\ UNCHANGED <<arrived, queue>>
             /\ PublishedInOrder' /\ TraceIsOwn'
             /\ \A i \in 1..Len(queue) : queue[i].event \in 1..n /\ queue[i].event < n
             /\ (busy' \in 1..n \cup {None} => ServerTypes')
  <2>1. /\ n \in 1..Len(arrived) /\ n = taken + 1 /\ taken' = n /\ busy = None
        /\ UNCHANGED <<arrived, queue>>
    BY <1>a, <1>3 DEF Taken
  <2>2. arrived[n] \in Sendable
    BY <1>a, <2>1
  <2>3. PublishedInOrder' /\ TraceIsOwn'
    BY <1>0, <2>1 DEF PublishedInOrder, TraceIsOwn
  <2>4. \A i \in 1..Len(queue) : queue[i].event \in 1..n /\ queue[i].event < n
    BY <1>a, <2>1
  <2>5. busy' \in 1..n \cup {None} => ServerTypes'
    BY <1>a, <2>1, <2>4 DEF ServerTypes
  <2> QED BY <2>1, <2>2, <2>3, <2>4, <2>5
<1>4. ASSUME Begun
      PROVE  Goal'
  <2>1. PICK n \in Nat : Taken(n) /\ Accepted(n) /\ busy' = n /\ Attached(n)
    BY <1>4 DEF Begun
  <2>2. /\ busy' = n /\ context' = TraceOf(Datagram(arrived[n])) /\ arrived' = arrived
        /\ arrived[n] \in Sendable /\ queue' = queue /\ n # None
    BY <1>0, <1>3, <2>1 DEF Attached, ContextIsOwn, TraceOf
  <2>3. ServerTypes' /\ PublishedInOrder' /\ TraceIsOwn'
    BY <1>3, <2>1, <2>2
  <2>4. QueueTypes' /\ ContextIsOwn'
    BY <1>a, <2>2 DEF QueueTypes, ContextIsOwn, Traces
  <2>5. QueueIsBehind'
    BY <1>a, <1>3, <2>1, <2>2 DEF QueueIsBehind
  <2> QED BY <2>3, <2>4, <2>5
<1>5. ASSUME Rejected
      PROVE  Goal'
  <2>1. PICK n \in Nat : Taken(n) /\ busy' = None /\ context' = None
    BY <1>5 DEF Rejected
  <2>2. ServerTypes' /\ PublishedInOrder' /\ TraceIsOwn' /\ queue' = queue
    BY <1>3, <2>1
  <2>3. QueueTypes' /\ ContextIsOwn' /\ QueueIsBehind'
    BY <1>a, <2>1, <2>2 DEF QueueTypes, ContextIsOwn, QueueIsBehind, Traces
  <2> QED BY <2>2, <2>3
<1>6. ASSUME Over
      PROVE  Goal'
  <2>1. busy' = None /\ context' = None /\ UNCHANGED <<arrived, taken>>
    BY <1>6 DEF Over
  <2>2. ContextIsOwn' /\ QueueIsBehind'
    BY <2>1 DEF ContextIsOwn, QueueIsBehind
  <2>3. CASE queue' = queue
    BY <1>0, <2>1, <2>2, <2>3 DEF ServerTypes, QueueTypes, PublishedInOrder, TraceIsOwn, Traces
  <2>4. CASE Put
    <3>1. busy # None /\ queue' = Append(queue, Entry)
      BY <2>4 DEF Put
    <3>2. /\ Entry \in [event : Nat, trace : Traces]
          /\ Entry.event = busy /\ busy \in 1..taken
          /\ Entry.trace = TraceOf(Datagram(arrived[busy]))
      BY <3>1, EntryFacts
    <3>3. /\ queue' \in Seq([event : Nat, trace : Traces])
          /\ DOMAIN queue' = 1..(Len(queue) + 1)
          /\ \A i \in 1..Len(queue) : queue'[i] = queue[i]
          /\ queue'[Len(queue) + 1] = Entry
      BY <1>a, <3>1, <3>2, AppendFacts
    <3>4. \A i \in 1..Len(queue) : queue[i].event < busy
      BY <1>0, <1>a, <3>1 DEF QueueIsBehind
    <3>5. ServerTypes'
      <4>1. UNCHANGED <<arrived, taken>> /\ busy' = None
        BY <2>1
      <4> QED BY <1>a, <3>2, <3>3, <4>1, SMTT(30) DEF ServerTypes
    <3>6. QueueTypes'
      BY <2>1, <3>3 DEF QueueTypes, Traces
    <3>7. PublishedInOrder'
      <4> SUFFICES ASSUME NEW i \in 1..(Len(queue) + 1), NEW j \in 1..(Len(queue) + 1), i < j
                   PROVE  queue'[i].event < queue'[j].event
        BY <3>3 DEF PublishedInOrder
      <4>1. i \in 1..Len(queue)
        BY <1>a
      <4>2. CASE j \in 1..Len(queue)
        BY <1>0, <1>a, <3>3, <4>1, <4>2 DEF PublishedInOrder
      <4>3. CASE j = Len(queue) + 1
        BY <3>2, <3>3, <3>4, <4>1, <4>3
      <4> QED BY <1>b, <4>2, <4>3
    <3>8. TraceIsOwn'
      <4> SUFFICES ASSUME NEW i \in 1..(Len(queue) + 1)
                   PROVE  queue'[i].trace = TraceOf(Datagram(arrived[queue'[i].event]))
        BY <2>1, <3>3 DEF TraceIsOwn
      <4>1. CASE i \in 1..Len(queue)
        BY <1>0, <1>a, <3>3, <4>1 DEF TraceIsOwn
      <4>2. CASE i = Len(queue) + 1
        BY <3>2, <3>3, <4>2
      <4> QED BY <1>b, <4>1, <4>2
    <3> QED BY <2>2, <3>5, <3>6, <3>7, <3>8
  <2> QED BY <1>6, <2>3, <2>4 DEF Over
<1> HIDE DEF Goal
<1>7. TypeOK
  BY DEF IInv
<1>8. Goal'
  BY <1>1, <1>2, <1>4, <1>5, <1>6, <1>7, WhatMoves
<1> QED BY <1>8 DEF Goal

(* Every step keeps the inductive invariant.                                 *)
LEMMA InvStep ==
    ASSUME IInv, [Next]_vars
    PROVE  IInv'
<1>0. TypeOK
  BY DEF IInv
<1>1. SenderTypes' /\ sending' \in BOOLEAN
  BY <1>0, SenderStep
<1>2. /\ ServerTypes' /\ QueueTypes' /\ ContextIsOwn' /\ QueueIsBehind'
      /\ PublishedInOrder' /\ TraceIsOwn'
  BY ServerStep
<1>3. /\ since' = since \/ (since = None /\ since' = taken /\ Quiet)
      /\ faults' = faults \/ (faults < MaxFaults /\ faults' = faults + 1)
      /\ settings' = settings /\ link' \in {"up", "down"}
  BY <1>0, BrokerMoves
<1>4. \/ phase' = phase
      \/ phase = "serving" /\ phase' = "closing"
      \/ phase = "closing" /\ phase' = "closed" /\ busy' = None
  BY <1>0, PhaseMoves
<1>5. Quiet \/ Reached \/ Begun \/ Rejected \/ Over
  BY <1>0, WhatMoves
<1>6. /\ taken \in Nat /\ taken' \in Nat /\ taken <= taken'
      /\ busy' # None => (busy' = busy \/ phase = "serving")
  BY <1>0, <1>2, <1>5 DEF TypeOK, ServerTypes, Quiet, Reached, Begun, Rejected, Taken, Over
<1>7. since' \in 0..taken' \cup {None}
  BY <1>0, <1>3, <1>6 DEF TypeOK
<1>8. faults' \in 0..MaxFaults
  BY <1>0, <1>3 DEF TypeOK
<1>9. /\ phase' \in {"serving", "closing", "closed"}
      /\ phase' = "serving" => settings' # Refused
      /\ phase' = "closed" => busy' = None
  BY <1>0, <1>3, <1>4, <1>6 DEF TypeOK
<1>10. TypeOK'
  BY <1>1, <1>2, <1>3, <1>7, <1>8, <1>9 DEF TypeOK, SenderTypes, ServerTypes
<1> QED BY <1>2, <1>10 DEF IInv

(* A service that was just started satisfies it.                             *)
LEMMA InvInit ==
    ASSUME Init
    PROVE  IInv
<1>1. /\ sent = 0 /\ sending = TRUE /\ emitted = 0 /\ net = [i \in Sendable |-> 0]
      /\ arrived = <<>> /\ taken = 0 /\ busy = None /\ context = None
      /\ link = "up" /\ since = None /\ queue = <<>> /\ faults = 0
      /\ phase \in {"serving", "closed"} /\ (phase = "serving" => settings # Refused)
  BY DEF Init, Starts
<1>2. /\ arrived \in Seq(Sendable) /\ Len(arrived) = 0 /\ DOMAIN queue = {}
      /\ queue \in Seq([event : Nat, trace : Traces])
  BY <1>1
<1>3. /\ sending \in BOOLEAN /\ net \in [Sendable -> 0..MaxCopies]
  BY <1>1
<1>4. TypeOK
  BY <1>1, <1>2, <1>3, LengthFacts DEF TypeOK
<1>5. QueueTypes /\ ContextIsOwn /\ QueueIsBehind /\ PublishedInOrder /\ TraceIsOwn
  BY <1>1, <1>2 DEF QueueTypes, ContextIsOwn, QueueIsBehind, PublishedInOrder, TraceIsOwn, Traces
<1> QED BY <1>4, <1>5 DEF IInv

(* It always holds.                                                          *)
LEMMA InvTheorem == Spec => []IInv
<1>1. Init => IInv
  BY InvInit
<1>2. IInv /\ [Next]_vars => IInv'
  BY InvStep
<1> QED BY <1>1, <1>2, PTL DEF Spec

(* Types: the socket's buffer stays bounded, what is published was received, *)
(* and a closed service has nothing in work (UdpServer, RabbitMQPublisher).  *)
THEOREM IngestTypeCorrect == Spec => []TypeOK
<1>1. IInv => TypeOK
  BY DEF IInv
<1> QED BY <1>1, InvTheorem, PTL

(* The queue gets the datagrams in the order they arrived, none of them      *)
(* twice, whatever fails (serve_forever, _publish_message).                  *)
THEOREM OrderTheorem == Spec => []PublishedInOrder
<1>1. IInv => PublishedInOrder
  BY DEF IInv
<1> QED BY <1>1, InvTheorem, PTL

(* Every event in the queue has the trace of its own datagram: the context   *)
(* of an earlier one is detached on every way out of the loop's body.        *)
THEOREM TraceTheorem == Spec => []TraceIsOwn
<1>1. IInv => TraceIsOwn
  BY DEF IInv
<1> QED BY <1>1, InvTheorem, PTL

(* No datagram, and no failure of the broker, ends serve_forever.            *)
THEOREM StopsTheorem == Spec => StopsOnlyByFault
<1> DEFINE OnlyByFault == phase = "serving" /\ phase' # phase => faults' > faults
<1>1. IInv /\ [Next]_vars => [OnlyByFault]_vars
  <2> SUFFICES ASSUME IInv, [Next]_vars
               PROVE  OnlyByFault
    OBVIOUS
  <2>1. TypeOK /\ faults \in Nat
    BY DEF IInv, TypeOK
  <2> QED BY <2>1, PhaseMoves
<1> QED BY <1>1, InvTheorem, PTL DEF Spec, StopsOnlyByFault
------------------------------------------------------------------------------
(* Every object the generator sends can be decoded and written into a        *)
(* message, unless a coordinate is too large: its validator and the          *)
(* receiver's read the same schema, and the trace is stripped before.        *)
LEMMA ObjectsArePublishable ==
    ASSUME NEW i \in Objects, CoordinatesFit(Source[i].fields)
    PROVE  i \in Publishable
<1> DEFINE f == Source[i].fields
           d == Datagram(i)
<1>1. Validated(f) /\ d = WithTrace(Source[i])
  BY DEF Objects, IsValidLine, Datagram
<1>2. /\ d.form = "object" /\ DOMAIN d.fields = DOMAIN f \cup {"traceparent"}
      /\ \A key \in DOMAIN f : key # "traceparent" => d.fields[key] = f[key]
  BY <1>1 DEF WithTrace
<1>3. DOMAIN f \cap TraceKeys = {} /\ "traceparent" \in TraceKeys
  BY <1>1, ConformingFacts DEF TraceKeys
<1> DEFINE o == StripTrace(d.fields)
<1>4. DOMAIN o = DOMAIN f /\ \A key \in DOMAIN f : o[key] = f[key]
  BY <1>2, <1>3, StripFacts
<1> HIDE DEF o, f, d
<1>5. "position" \in DOMAIN f
  BY <1>1, ConformingFacts
<1>6. Conforms(f, Schema, {"lat", "lng"}) /\ Conforms(f["position"].val, PositionSchema, {})
  BY <1>1 DEF Validated
<1>7. Conforms(o, Schema, {"lat", "lng"})
  BY <1>4, <1>6 DEF Conforms
<1>8. o["position"] = f["position"]
  BY <1>4, <1>5
<1>9. Validated(o)
  BY <1>6, <1>7, <1>8 DEF Validated
<1>10. CoordinatesFit(d.fields)
  <2>1. DOMAIN f \cap {"lng", "lat", "position"} = DOMAIN d.fields \cap {"lng", "lat", "position"}
    BY <1>2
  <2>2. /\ d.fields["position"] = f["position"]
        /\ Get(d.fields, "lng") = Get(f, "lng") /\ Get(d.fields, "lat") = Get(f, "lat")
    BY <1>2, <1>5, <2>1 DEF Get
  <2>3. CoordinatesFit(f)
    BY DEF f
  <2> QED BY <2>2, <2>3 DEF CoordinatesFit
<1> DEFINE e == ProcessDatagram(d, 0)
<1>11. /\ IsEvent(e) /\ e.tag.kind \in {"text", "digits", "decimal"}
       /\ e.area = Missing /\ e.status = Missing
  BY <1>2, <1>9, <1>10, MessageIsDecoded DEF o
<1>12. IsSerializable(e)
  <2> HIDE DEF e
  <2> QED BY <1>11 DEF IsSerializable, Missing, V
<1>13. i \in Sendable
  BY LengthFacts
<1> QED BY <1>11, <1>12, <1>13 DEF Publishable, d

(* The settings the promise holds for: those that name no other topic than   *)
(* the routing key and no other envelope version than there is.              *)
NamesNothingElse(s) ==
    s # Refused => /\ s.envelope_version = T("1.0")
                   /\ s.topic.kind = "blank" \/ s.topic = s.routing_key

SettingsFit ==
    /\ NamesNothingElse(settings)
    /\ settings = Refused => phase = "closed"

(* What was lost, and what the end of the process may still cost: after the  *)
(* fault that ended the loop one publication may be given up.                *)
Lost == IF since = None THEN {} ELSE Skipped

Pending == IF phase = "closing" /\ busy # None THEN 1 ELSE 0

LossBudget == Cardinality(Lost) + Pending <= faults

(* A step that keeps the queue and what was received loses nothing but what  *)
(* was in work.                                                              *)
LEMMA LostGrows ==
    ASSUME IInv, settings' = settings, since' = since,
           \A n \in 1..taken : arrived'[n] = arrived[n],
           \A i \in DOMAIN queue : i \in DOMAIN queue' /\ queue'[i] = queue[i],
           \/ taken' = taken
           \/ \E n \in Nat : taken' = n /\ n = taken + 1 /\ (busy' = n \/ ~Due(n)')
    PROVE  \A n \in Lost' : \/ n \in Lost
                            \/ /\ n = busy /\ busy # busy'
                               /\ \A i \in DOMAIN queue' : queue'[i].event # n
<1> SUFFICES ASSUME NEW n \in Lost', n \notin Lost
             PROVE  /\ n = busy /\ busy # busy'
                    /\ \A i \in DOMAIN queue' : queue'[i].event # n
  OBVIOUS
<1>1. taken \in Nat /\ (since = None \/ since \in 0..taken)
  BY DEF IInv, TypeOK
<1>2. /\ since # None /\ n \in (since + 1)..taken' /\ Due(n)' /\ n # busy'
      /\ \A i \in DOMAIN queue' : queue'[i].event # n
  BY DEF Lost, Skipped
<1>3. since \in Nat /\ n \in Int
  BY <1>1, <1>2
<1>4. n # taken + 1 \/ taken' = taken
  <2>1. CASE taken' = taken
    BY <2>1
  <2>2. ASSUME NEW m \in Nat, taken' = m /\ m = taken + 1, busy' = m \/ ~Due(m)'
        PROVE  n # taken + 1
    <3>1. n # m
      BY <1>2, <2>2
    <3> QED BY <2>2, <3>1
  <2> QED BY <2>1, <2>2
<1>5. n \in (since + 1)..taken /\ n \in 1..taken
  BY <1>1, <1>2, <1>3, <1>4
<1>6. arrived'[n] = arrived[n]
  BY <1>5
<1>7. Due(n)
  BY <1>2, <1>6 DEF Due, Accepted, HasBuilder
<1>8. \A i \in DOMAIN queue : queue[i].event # n
  BY <1>2
<1>9. n = busy
  BY <1>2, <1>5, <1>7, <1>8 DEF Lost, Skipped
<1> QED BY <1>2, <1>9

(* Lost datagrams are finitely many, and one more costs at most one.         *)
LEMMA LostIsFinite ==
    ASSUME IInv
    PROVE  IsFiniteSet(Lost) /\ Cardinality(Lost) \in Nat
<1>1. taken \in Nat /\ (since = None \/ since \in 0..taken)
  BY DEF IInv, TypeOK
<1>2. Lost \subseteq 1..taken
  BY <1>1 DEF Lost, Skipped
<1>3. IsFiniteSet(1..taken)
  BY <1>1, FS_Interval
<1> QED BY <1>2, <1>3, FS_Subset, FS_CardinalityType

(* A set with at most one member more has at most one more.                  *)
LEMMA OneMore ==
    ASSUME NEW S, IsFiniteSet(S), NEW U, NEW x
    PROVE  /\ U \subseteq S => Cardinality(U) <= Cardinality(S)
           /\ U \subseteq S \cup {x} => Cardinality(U) <= Cardinality(S) + 1
           /\ Cardinality(S) \in Nat /\ (U \subseteq S \cup {x} => Cardinality(U) \in Nat)
<1>1. /\ IsFiniteSet(S \cup {x}) /\ Cardinality(S) \in Nat
      /\ Cardinality(S \cup {x}) \in {Cardinality(S), Cardinality(S) + 1}
  BY FS_AddElement, FS_CardinalityType
<1>2. U \subseteq S => Cardinality(U) <= Cardinality(S)
  BY FS_Subset
<1>3. U \subseteq S \cup {x} => /\ Cardinality(U) <= Cardinality(S \cup {x})
                               /\ Cardinality(U) \in Nat
  BY <1>1, FS_Subset, FS_CardinalityType
<1> QED BY <1>1, <1>2, <1>3

(* The settings stay as they were read.                                      *)
LEMMA SettingsStep ==
    ASSUME IInv, SettingsFit, [Next]_vars
    PROVE  SettingsFit'
<1>1. TypeOK
  BY DEF IInv
<1>2. settings' = settings /\ (phase = "closed" => phase' = "closed")
  BY <1>1, BrokerMoves, PhaseMoves
<1> QED BY <1>2 DEF SettingsFit, NamesNothingElse

(* Steps with one of three costs.                                            *)
LEMMA Costs ==
    ASSUME IInv, LossBudget, IInv', faults' >= faults,
           \/ Lost' \subseteq Lost /\ Pending' <= Pending
           \/ Lost' \subseteq Lost /\ faults' = faults + 1
           \/ Lost' \subseteq Lost \cup {busy} /\ Pending' = 0
              /\ (faults' = faults + 1 \/ Pending = 1)
    PROVE  LossBudget'
<1> DEFINE c == Cardinality(Lost)
           d == Cardinality(Lost')
<1>1. IsFiniteSet(Lost) /\ c \in Nat
  BY LostIsFinite
<1>2. /\ Lost' \subseteq Lost => d <= c /\ d \in Nat
      /\ Lost' \subseteq Lost \cup {busy} => d <= c + 1 /\ d \in Nat
  BY <1>1, OneMore
<1>3. faults \in Nat /\ faults' \in Nat /\ Pending \in {0, 1} /\ Pending' \in {0, 1}
  BY DEF IInv, TypeOK, Pending
<1>4. c + Pending <= faults
  BY DEF LossBudget
<1> HIDE DEF c, d
<1>5. d + Pending' <= faults'
  BY <1>1, <1>2, <1>3, <1>4
<1> QED BY <1>5 DEF LossBudget, d

(* Every step keeps the budget.                                              *)
LEMMA BudgetStep ==
    ASSUME IInv, IInv', SettingsFit, LossBudget, [Next]_vars
    PROVE  LossBudget'
<1> USE DEF senderVars, serverVars, brokerVars
<1>0. /\ TypeOK /\ taken \in Nat /\ faults \in Nat /\ settings' = settings
      /\ queue \in Seq([event : Nat, trace : Traces])
      /\ arrived \in Seq(Sendable) /\ taken \in 0..Len(arrived)
  <2>1. TypeOK /\ QueueTypes
    BY DEF IInv
  <2>2. arrived \in Seq(Sendable) /\ taken \in 0..Len(arrived) /\ faults \in Nat
    BY <2>1 DEF TypeOK
  <2>3. Len(arrived) \in Nat
    BY <2>2
  <2>4. queue \in Seq([event : Nat, trace : Traces])
    BY <2>1 DEF QueueTypes
  <2>5. settings' = settings
    BY <2>1, BrokerMoves
  <2> QED BY <2>1, <2>2, <2>3, <2>4, <2>5
<1>1. ASSUME Quiet, since' = since
      PROVE  Lost' \subseteq Lost
  BY <1>0, <1>1, LostGrows DEF Quiet
<1>2. CASE SendFails \/ EncodingFails \/ DeviceSends \/ LinkLost \/ LinkBack \/ UNCHANGED vars
           \/ (\E i \in Sendable : Send(i) \/ Lose(i))
  <2>1. Quiet /\ UNCHANGED <<phase, since>>
    BY <1>2 DEF SendFails, EncodingFails, DeviceSends, LinkLost, LinkBack, vars, Send, Lose, Quiet
  <2>2. faults' >= faults
    BY <1>0, BrokerMoves
  <2>3. Pending' <= Pending
    BY <2>1 DEF Quiet, Pending
  <2> QED BY <1>1, <2>1, <2>2, <2>3, Costs
<1>3. CASE ReceiveFails \/ Interrupt
  <2>1. Quiet /\ since' = since /\ faults' = faults + 1
    BY <1>3 DEF ReceiveFails, Interrupt, Fault, Quiet
  <2> QED BY <1>0, <1>1, <2>1, Costs
<1>4. CASE BindQueue
  <2>1. since' = taken /\ UNCHANGED <<taken, busy, phase, faults>>
    BY <1>4 DEF BindQueue
  <2>2. Lost' = {} /\ Pending' = Pending
    BY <1>0, <2>1 DEF Lost, Skipped, Pending
  <2> QED BY <1>0, <2>1, <2>2, Costs DEF Pending
<1>5. CASE \E i \in Sendable : Arrive(i)
  <2>1. PICK i \in Sendable : Arrive(i)
    BY <1>5
  <2>2. arrived' = Append(arrived, i) /\ UNCHANGED <<taken, busy, queue, since, phase, faults>>
    BY <2>1 DEF Arrive
  <2>3. \A n \in 1..taken : arrived'[n] = arrived[n]
    BY <1>0, <2>2, AppendFacts
  <2>4. Lost' \subseteq Lost
    BY <1>0, <2>2, <2>3, LostGrows
  <2> QED BY <1>0, <2>2, <2>4, Costs DEF Pending
<1>6. CASE Receive
  <2>1. /\ phase = "serving" /\ taken' = taken + 1 /\ taken + 1 \in Nat
        /\ UNCHANGED <<arrived, queue, since, phase, faults>> /\ busy = None
    BY <1>0, <1>6 DEF Receive, CanReceive, HandleProcessingError
  <2>2. HasBuilder
    BY <2>1 DEF SettingsFit, NamesNothingElse, HasBuilder
  <2>3. Accepted(taken + 1) => busy' = taken + 1
    BY <1>6 DEF Receive
  <2>4. ASSUME NEW n \in Nat, n = taken + 1, ~Accepted(n)
        PROVE  ~Due(n)'
    <3>1. arrived[n] \notin Publishable
      BY <2>2, <2>4 DEF Accepted
    <3>2. ~(arrived[n] \in Objects /\ CoordinatesFit(Source[arrived[n]].fields))
      BY <3>1, ObjectsArePublishable
    <3> QED BY <2>1, <3>1, <3>2 DEF Due, Accepted
  <2>5. \E n \in Nat : taken' = n /\ n = taken + 1 /\ (busy' = n \/ ~Due(n)')
    BY <2>1, <2>3, <2>4
  <2>6. Lost' \subseteq Lost
    <3> SUFFICES ASSUME NEW n \in Lost', n \notin Lost
                 PROVE  FALSE
      OBVIOUS
    <3>1. n = busy
      BY <1>0, <2>1, <2>5, LostGrows
    <3>2. n \in 1..taken'
      BY <1>0, <2>1 DEF Lost, Skipped, IInv, TypeOK
    <3> QED BY <1>0, <2>1, <3>1, <3>2
  <2>7. Pending' <= Pending
    BY <2>1 DEF Pending
  <2> QED BY <1>0, <2>1, <2>6, <2>7, Costs
<1>7. ASSUME NEW e \in [event : Nat, trace : Traces], queue' \in {queue, Append(queue, e)}
      PROVE  \A i \in DOMAIN queue : i \in DOMAIN queue' /\ queue'[i] = queue[i]
  <2>1. CASE queue' = queue
    BY <2>1
  <2>2. CASE queue' = Append(queue, e)
    <3>1. /\ DOMAIN queue' = 1..(Len(queue) + 1) /\ DOMAIN queue = 1..Len(queue)
          /\ Len(queue) \in Nat /\ \A i \in 1..Len(queue) : queue'[i] = queue[i]
      BY <1>0, <2>2, AppendFacts
    <3> QED BY <3>1
  <2> QED BY <1>7, <2>1, <2>2
<1>8. CASE Publish
  <2>1. /\ busy # None /\ queue' = (IF IsRouted THEN Append(queue, Entry) ELSE queue)
        /\ busy' = None /\ UNCHANGED <<arrived, taken, phase, since, faults>>
    BY <1>8 DEF Publish, Route, Released, Entry
  <2>2. Entry \in [event : Nat, trace : Traces] /\ Entry.event = busy
    BY <2>1, EntryFacts
  <2>3. \A i \in DOMAIN queue : i \in DOMAIN queue' /\ queue'[i] = queue[i]
    BY <1>7, <2>1, <2>2
  <2>4. \A n \in Lost' : \/ n \in Lost
                         \/ n = busy /\ \A i \in DOMAIN queue' : queue'[i].event # n
    BY <1>0, <2>1, <2>3, LostGrows
  <2>5. since # None => IsRouted
    <3>1. settings # Refused
      BY <1>0, <2>1 DEF SettingsFit, TypeOK
    <3> QED BY <3>1 DEF SettingsFit, NamesNothingElse, IsRouted, PublishKey
  <2>6. since # None => \E i \in DOMAIN queue' : queue'[i].event = busy
    <3> SUFFICES ASSUME since # None
                 PROVE  \E i \in DOMAIN queue' : queue'[i].event = busy
      OBVIOUS
    <3>1. queue' = Append(queue, Entry) /\ queue \in Seq([event : Nat, trace : Traces])
      BY <1>0, <2>1, <2>5
    <3>2. /\ Len(queue) \in Nat /\ DOMAIN queue' = 1..(Len(queue) + 1)
          /\ queue'[Len(queue) + 1] = Entry
      BY <2>2, <3>1, AppendFacts
    <3>3. Len(queue) + 1 \in DOMAIN queue' /\ queue'[Len(queue) + 1].event = busy
      BY <2>2, <3>2
    <3> QED BY <3>3
  <2>7. Lost' \subseteq Lost
    BY <2>1, <2>4, <2>6 DEF Lost
  <2>8. Pending' <= Pending
    BY <2>1 DEF Pending
  <2> QED BY <1>0, <2>1, <2>7, <2>8, Costs
<1>9. CASE PublishFails
  <2>1. /\ busy # None /\ queue' \in {queue, Append(queue, Entry)}
        /\ busy' = None /\ UNCHANGED <<arrived, taken, phase, since>> /\ faults' = faults + 1
    BY <1>9 DEF PublishFails, Route, Released, Entry, Fault
  <2>2. Entry \in [event : Nat, trace : Traces]
    BY <2>1, EntryFacts
  <2>3. Lost' \subseteq Lost \cup {busy}
    BY <1>0, <1>7, <2>1, <2>2, LostGrows
  <2>4. Pending' = 0
    BY <2>1 DEF Pending
  <2> QED BY <1>0, <2>1, <2>3, <2>4, Costs
<1>10. CASE Close
  <2>1. /\ phase = "closing" /\ phase' = "closed" /\ busy' = None
        /\ UNCHANGED <<arrived, taken, queue, since, faults>>
    BY <1>10 DEF Close, ClosePublisher
  <2>2. \A n \in Lost' : n \in Lost \/ (n = busy /\ busy # busy')
    BY <1>0, <2>1, LostGrows
  <2>3. Pending' = 0 /\ faults' >= faults
    BY <1>0, <2>1 DEF Pending
  <2>4. CASE busy = None
    BY <2>1, <2>2, <2>3, <2>4, Costs DEF Pending
  <2>5. CASE busy # None
    BY <2>1, <2>2, <2>3, <2>5, Costs DEF Pending
  <2> QED BY <2>4, <2>5
<1> QED BY <1>2, <1>3, <1>4, <1>5, <1>6, <1>8, <1>9, <1>10 DEF Next

(* Once the queue is bound, each fault costs at most one of the datagrams    *)
(* that have an event in them, and of the generator's objects whose          *)
(* coordinates a float can hold, for settings whose topic and version fit:   *)
(* a broken confirm, a stop in the middle of a publication, a datagram that  *)
(* cannot be decoded or written before it (serve_forever, _parse_float,      *)
(* _serialize_message, close, load_config).                                  *)
THEOREM FaultCostTheorem ==
    ASSUME \A raw \in RawConfigs : NamesNothingElse(LoadConfig(raw))
    PROVE  Spec => []OneFaultOneEvent
<1> DEFINE Inv == SettingsFit /\ LossBudget
<1>1. Init => Inv
  <2> SUFFICES ASSUME Init
               PROVE  Inv
    OBVIOUS
  <2>1. SettingsFit
    BY DEF Init, SettingsFit, Starts
  <2>2. Lost = {} /\ Pending = 0 /\ faults = 0
    BY DEF Init, Lost, Pending
  <2>3. LossBudget
    BY <2>2, FS_EmptySet DEF LossBudget
  <2> QED BY <2>1, <2>3
<1>2. IInv /\ IInv' /\ Inv /\ [Next]_vars => Inv'
  BY SettingsStep, BudgetStep
<1>3. IInv /\ Inv => OneFaultOneEvent
  <2> SUFFICES ASSUME IInv, LossBudget, since # None
               PROVE  Cardinality(Skipped) <= faults
    BY DEF OneFaultOneEvent
  <2>1. Lost = Skipped /\ Cardinality(Lost) \in Nat /\ faults \in Nat /\ Pending \in {0, 1}
    BY LostIsFinite DEF Lost, Pending, IInv, TypeOK
  <2> QED BY <2>1 DEF LossBudget
<1> QED BY <1>1, <1>2, <1>3, InvTheorem, PTL DEF Spec
==============================================================================
