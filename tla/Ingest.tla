------------------------------- MODULE Ingest --------------------------------
(****************************************************************************)
(* The way of a message into the consumer's queue: the stream generator and *)
(* the devices, the network, the socket of UdpServer.serve_forever, the     *)
(* blocking RabbitMQPublisher behind it, and the exchange that routes to    *)
(* the queue once a consumer has bound it.  One thread receives, decodes    *)
(* and waits for the broker; meanwhile the kernel buffers what arrives.     *)
(* All processes read the same settings file.                               *)
(****************************************************************************)
EXTENDS Config

CONSTANTS
    Source,      \* the lines of the generator's file
    Device,      \* the datagrams devices send, in order
    RawConfigs,  \* the contents the settings file may have
    BufferSize,  \* datagrams the socket can hold
    MaxCopies,   \* copies of a datagram the network may make
    MaxFaults,   \* bound on the faults of a behaviour
    None         \* no datagram in work, no trace, no queue

ASSUME IngestAssumption ==
    /\ IsSequence(Source) /\ IsSequence(Device)
    /\ BufferSize \in Nat \ {0} /\ MaxCopies \in Nat \ {0} /\ MaxFaults \in Nat
    /\ None \notin Nat

VARIABLES
    settings,   \* what load_config returned
    sent,       \* the place of the last object the generator has sent
    sending,    \* the generator has not given up
    emitted,    \* how many datagrams the devices have sent
    net,        \* copies of each datagram in the network
    arrived,    \* what reached the socket, in order (members of Sendable)
    taken,      \* how many of those recvfrom has returned
    busy,       \* the arrival that serve_forever is publishing
    context,    \* the trace attached in the receiving thread
    link,       \* the publisher's connection to the broker
    phase,      \* start_udp: serving, closing (in `finally`), closed
    since,      \* `taken` when the queue was bound, None before
    queue,      \* what the broker put into the queue, and each one's trace
    faults      \* faults so far

senderVars == <<sent, sending, emitted>>
serverVars == <<taken, busy, context, phase>>
brokerVars == <<since, queue>>
vars == <<settings, senderVars, net, arrived, serverVars, link, brokerVars, faults>>

Fault == faults < MaxFaults /\ faults' = faults + 1
------------------------------------------------------------------------------
(* The generator and the devices.                                            *)

GeneratorTrace == "generate_stream"

(* get_validated_objects_from_file: other lines are reported and left out.   *)
IsValidLine(line) == line.form = "object" /\ Validated(line.fields)

(* inject_into_dict adds the context of the span to a copy of the object.    *)
WithTrace(line) ==
    [form   |-> "object",
     fields |-> [key \in DOMAIN line.fields \cup {"traceparent"} |->
        IF key = "traceparent" THEN T(GeneratorTrace) ELSE line.fields[key]]]

(* The places of the objects in the file; the devices' datagrams come after. *)
Objects == {i \in DOMAIN Source : IsValidLine(Source[i])}

Sendable == Objects \cup {Len(Source) + i : i \in DOMAIN Device}

Datagram(i) == IF i \in Objects THEN WithTrace(Source[i]) ELSE Device[i - Len(Source)]

(* The network may deliver a datagram more than once.                        *)
Transmit(i) == \E copies \in 1..MaxCopies : net' = [net EXCEPT ![i] = copies]

(* UdpClient.send takes the objects in the order of the file.                *)
IsNext(i) == i \in Objects /\ i > sent /\ \A j \in Objects : j > sent => i <= j

(* json.dumps(object, ensure_ascii=False).encode("utf-8"); of a conforming   *)
(* object only the region may be a text that cannot be encoded.              *)
Encodable(i) == Region(Source[i].fields).kind # "surrogate"

(* UdpClient.send; the pauses between batches are only time.                 *)
Send(i) ==
    /\ sending /\ IsNext(i) /\ Encodable(i)
    /\ sent' = i
    /\ Transmit(i)
    /\ UNCHANGED <<settings, sending, emitted, arrived, serverVars, link, brokerVars, faults>>

(* sendto raises and send re-raises: the rest of the file is never sent.     *)
SendFails ==
    /\ sending /\ \E i \in Objects : i > sent
    /\ Fault
    /\ sending' = FALSE
    /\ UNCHANGED <<settings, sent, emitted, net, arrived, serverVars, link, brokerVars>>

(* encode raises outside of the try, with the same effect.                   *)
EncodingFails ==
    /\ sending /\ \E i \in Objects : IsNext(i) /\ ~Encodable(i)
    /\ sending' = FALSE
    /\ UNCHANGED <<settings, sent, emitted, net, arrived, serverVars, link, brokerVars, faults>>

DeviceSends ==
    /\ emitted < Len(Device)
    /\ emitted' = emitted + 1
    /\ Transmit(Len(Source) + emitted')
    /\ UNCHANGED <<settings, sent, sending, arrived, serverVars, link, brokerVars, faults>>
------------------------------------------------------------------------------
(* The network and the kernel.                                               *)

(* Lost on the way, or the buffer is full, or nobody listens.                *)
Lose(i) ==
    /\ net[i] > 0
    /\ net' = [net EXCEPT ![i] = @ - 1]
    /\ UNCHANGED <<settings, senderVars, arrived, serverVars, link, brokerVars, faults>>

(* Datagrams may overtake each other.                                        *)
Arrive(i) ==
    /\ net[i] > 0
    /\ phase = "serving" /\ Len(arrived) - taken < BufferSize
    /\ net' = [net EXCEPT ![i] = @ - 1]
    /\ arrived' = Append(arrived, i)
    /\ UNCHANGED <<settings, senderVars, serverVars, link, brokerVars, faults>>
------------------------------------------------------------------------------
(* serve_forever.                                                            *)

(* _serialize_message: UTF-8 can write every text of the event.              *)
IsSerializable(e) == "surrogate" \notin {e.tag.kind, e.area.kind, e.status.kind}

(* The decoder finds an event that can be written into a message; the time   *)
(* of ingestion does not decide that.                                        *)
Publishable ==
    {i \in Sendable : LET e == ProcessDatagram(Datagram(i), 0)
                      IN  IsEvent(e) /\ IsSerializable(e)}

(* EnvelopeRegistry.get: builders by version, of which there is one.         *)
HasBuilder == settings.envelope_version = T("1.0")

(* _process_datagram, _build_envelope and _serialize_message raise nothing.  *)
Accepted(n) == arrived[n] \in Publishable /\ HasBuilder

(* _extract_trace_context: the trace a JSON datagram carries.                *)
HasContext(datagram) == datagram.form = "object" /\ "traceparent" \in DOMAIN datagram.fields

TraceOf(datagram) ==
    IF HasContext(datagram) /\ datagram.fields["traceparent"].kind = "text"
      THEN datagram.fields["traceparent"].val
      ELSE None

(* Mutant: a datagram without an event stays where it is.                    *)
CanReceiveEvent ==
    phase = "serving" /\ busy = None /\ taken < Len(arrived) /\ Accepted(taken + 1)

CanReceive == phase = "serving" /\ busy = None /\ taken < Len(arrived)

(* Mutant: an error ends the loop.                                           *)
StopServing == phase' = "closing" /\ busy' = None

(* _handle_processing_error: logged, and the datagram is skipped.            *)
HandleProcessingError == busy' = None /\ UNCHANGED phase

(* Mutant: the context stays attached.                                       *)
KeepAttached == UNCHANGED context

(* finally: otel_context.detach                                              *)
Detach == context' = None

(* recvfrom, attach, decode, build and write the envelope, start to publish. *)
Receive ==
    /\ CanReceive
    /\ taken' = taken + 1
    /\ IF Accepted(taken + 1)
         THEN /\ busy' = taken + 1
              /\ context' = IF HasContext(Datagram(arrived[taken + 1]))
                              THEN TraceOf(Datagram(arrived[taken + 1])) ELSE context
              /\ UNCHANGED phase
         ELSE HandleProcessingError /\ Detach
    /\ UNCHANGED <<settings, senderVars, net, arrived, link, brokerVars, faults>>

(* recvfrom raises OSError: break.                                           *)
ReceiveFails ==
    /\ phase = "serving" /\ busy = None
    /\ Fault
    /\ phase' = "closing"
    /\ UNCHANGED <<settings, senderVars, net, arrived, taken, busy, context, link, brokerVars>>

(* KeyboardInterrupt is no Exception and leaves the loop; a publication in   *)
(* the publisher's own thread goes on with the headers it has.               *)
Interrupt ==
    /\ phase = "serving"
    /\ Fault
    /\ phase' = "closing"
    /\ UNCHANGED <<settings, senderVars, net, arrived, taken, busy, context, link, brokerVars>>

(* Mutant: the publisher is left open.                                       *)
LeaveOpen == UNCHANGED busy

(* publisher.close() gives up on what is still in work.                      *)
ClosePublisher == busy' = None

Close ==
    /\ phase = "closing"
    /\ phase' = "closed"
    /\ ClosePublisher /\ Detach
    /\ UNCHANGED <<settings, senderVars, net, arrived, taken, link, brokerVars, faults>>
------------------------------------------------------------------------------
(* RabbitMQPublisher and the broker.                                         *)

(* topic or self._config.routing_key                                         *)
PublishKey == IF settings.topic.kind = "blank" THEN settings.routing_key ELSE settings.topic

(* The exchange has one queue, bound with routing_key and no arguments,      *)
(* which for a headers exchange is a binding that every message matches.     *)
IsRouted ==
    /\ since # None
    /\ \/ settings.exchange_type \in {T("fanout"), T("headers")}
       \/ settings.routing_key = PublishKey
       \/ settings.exchange_type = T("topic") /\ settings.routing_key = T("#")

(* What nobody is bound for is dropped.                                      *)
Route(n) ==
    queue' = IF IsRouted THEN Append(queue, [event |-> n, trace |-> context]) ELSE queue

(* queue.bind of the first consumer that comes; the queue is durable.        *)
BindQueue ==
    /\ since = None
    /\ since' = taken
    /\ UNCHANGED <<settings, senderVars, net, arrived, serverVars, link, queue, faults>>

(* Mutant: publish is tried again after an exception.                        *)
TryAgain == UNCHANGED <<busy, context>>

(* future.result() returns or raises, and the loop goes on.                  *)
Released == busy' = None /\ Detach

(* publish waits, as long as it takes.                                       *)
Publish ==
    /\ busy # None /\ link = "up"
    /\ Route(busy)
    /\ Released
    /\ UNCHANGED <<settings, senderVars, net, arrived, taken, link, phase, since, faults>>

(* The connection breaks while the confirm is awaited: result() raises,      *)
(* although the broker may have the message; nobody publishes it again.      *)
PublishFails ==
    /\ busy # None /\ link = "up"
    /\ Fault
    /\ link' = "down"
    /\ Route(busy) \/ UNCHANGED queue
    /\ Released
    /\ UNCHANGED <<settings, senderVars, net, arrived, taken, phase, since>>

(* connect_robust: a call made while the connection is away waits for it.    *)
LinkLost ==
    /\ link = "up"
    /\ Fault
    /\ link' = "down"
    /\ UNCHANGED <<settings, senderVars, net, arrived, serverVars, brokerVars>>

LinkBack ==
    /\ link = "down"
    /\ link' = "up"
    /\ UNCHANGED <<settings, senderVars, net, arrived, serverVars, brokerVars, faults>>
------------------------------------------------------------------------------
(* Types; the socket buffer is bounded and nothing is in work once closed.   *)
TypeOK ==
    /\ phase = "serving" => settings # Refused
    /\ sent \in 0..Len(Source) /\ sending \in BOOLEAN /\ emitted \in 0..Len(Device)
    /\ net \in [Sendable -> 0..MaxCopies]
    /\ arrived \in Seq(Sendable)
    /\ taken \in 0..Len(arrived) /\ Len(arrived) - taken <= BufferSize
    /\ busy \in 1..taken \cup {None}
    /\ link \in {"up", "down"}
    /\ phase \in {"serving", "closing", "closed"}
    /\ phase = "closed" => busy = None
    /\ since \in 0..taken \cup {None}
    /\ \A i \in DOMAIN queue : queue[i].event \in 1..taken
    /\ faults \in 0..MaxFaults

(* start_udp: RabbitMQPublisher.__init__ waits for the connection, declares  *)
(* the exchange, then the socket is bound.  Bad settings end the process, a  *)
(* type of exchange that the broker would need a plugin for included.        *)
Starts ==
    /\ settings # Refused
    /\ settings.exchange_type \in {T("topic"), T("direct"), T("fanout"), T("headers")}

Init ==
    /\ settings \in {LoadConfig(raw) : raw \in RawConfigs}
    /\ sent = 0 /\ sending = TRUE /\ emitted = 0
    /\ net = [i \in Sendable |-> 0]
    /\ arrived = <<>> /\ taken = 0 /\ busy = None /\ context = None
    /\ link = "up" /\ phase = (IF Starts THEN "serving" ELSE "closed")
    /\ since = None /\ queue = <<>> /\ faults = 0

Next ==
    \/ SendFails \/ EncodingFails \/ DeviceSends
    \/ \E i \in Sendable : Send(i) \/ Lose(i) \/ Arrive(i)
    \/ Receive \/ ReceiveFails \/ Interrupt \/ Close
    \/ Publish \/ PublishFails \/ BindQueue
    \/ LinkLost \/ LinkBack

Spec == Init /\ [][Next]_vars

(* The receiving thread runs when it can, a robust connection comes back.    *)
Fairness == WF_vars(Receive \/ Publish) /\ WF_vars(LinkBack) /\ WF_vars(Close)

FairSpec == Spec /\ Fairness
------------------------------------------------------------------------------
(* The queue gets the datagrams in the order they arrived and none of them   *)
(* twice, also when a publication with an unknown outcome is given up and    *)
(* when the process is interrupted in the middle of one (serve_forever).     *)
PublishedInOrder ==
    \A i, j \in DOMAIN queue : i < j => queue[i].event < queue[j].event

(* Once the queue is bound, each fault costs at most one of the datagrams    *)
(* that are received: one with an event in it, or one of the generator,      *)
(* whose validator read the same schema, unless it has a coordinate that     *)
(* float() cannot hold, which costs it without any fault.  This holds for    *)
(* every settings file that names no other topic than the routing key and no *)
(* other version than there is: keys that are left out, and an empty topic,  *)
(* find their way.                                                           *)
Due(n) ==
    Accepted(n) \/ (arrived[n] \in Objects /\ CoordinatesFit(Source[arrived[n]].fields))

Skipped ==
    {n \in since + 1..taken : Due(n) /\ n # busy /\
                              \A i \in DOMAIN queue : queue[i].event # n}

OneFaultOneEvent == since # None => Cardinality(Skipped) <= faults

(* An event is published with the trace of its own datagram, also after one  *)
(* whose processing failed or was given up (_extract_trace_context, detach). *)
TraceIsOwn ==
    \A i \in DOMAIN queue : queue[i].trace = TraceOf(Datagram(arrived[queue[i].event]))

(* No datagram ends the service: serve_forever is left only by an            *)
(* OSError of the socket or an interrupt.                                    *)
StopsOnlyByFault == [][phase = "serving" /\ phase' # phase => faults' > faults]_vars

(* What is in the socket is worked off, however many datagrams are refused   *)
(* and however often the broker goes away, unless the process stops.         *)
ArrivalsAreHandled ==
    []<>(phase # "serving" \/ (taken = Len(arrived) /\ busy = None))
==============================================================================
