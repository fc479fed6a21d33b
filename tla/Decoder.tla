------------------------------- MODULE Decoder -------------------------------
(****************************************************************************)
(* One datagram is decoded: what UdpServer._process_datagram promises about *)
(* the event it makes, whatever was sent.                                   *)
(****************************************************************************)
EXTENDS Decoding

CONSTANTS
    Datagrams,  \* what may be sent
    Now         \* the time of ingestion

ASSUME DecoderAssumption ==
    \A d \in Datagrams : d.form = "line" =>
        /\ IsSequence(d.tokens)
        /\ \A i \in DOMAIN d.tokens : d.tokens[i].kind \in TextKinds

VARIABLES datagram, event

vars == <<datagram, event>>

Init == datagram \in Datagrams /\ event = Declined

Decode ==
    /\ event = Declined
    /\ event' = ProcessDatagram(datagram, Now)
    /\ UNCHANGED datagram

Spec == Init /\ [][Decode]_vars
------------------------------------------------------------------------------
Decoded == IsEvent(event)

Conforming ==
    /\ datagram.form = "object"
    /\ Validated([key \in DOMAIN datagram.fields \ TraceKeys |-> datagram.fields[key]])

(* The contract of the schema (config/ls_1000_scheme.json) across parser,    *)
(* validator and normalizer: a conforming object becomes an event of its     *)
(* devid at its own coordinates, whether or not it carries a trace context   *)
(* (_strip_trace_from_string), and the one kind of conforming object that is *)
(* lost has a coordinate that no float can hold (_parse_float raises).       *)
ConformingIsAccepted ==
    Conforming /\ event # Declined =>
        LET obj == datagram.fields IN
        IF CoordinatesFit(obj)
          THEN /\ Decoded
               /\ event.tag = obj["devid"]
               /\ event.xyz = Xyz(obj["position"].val)
               /\ event.geo = <<ParseFloat(Get(obj, "lng")), ParseFloat(Get(obj, "lat"))>>
          ELSE event = Raised

(* The coordinates of an event are those of the nested position or those of  *)
(* the top level, never a mix of two points (_extract_xyz_from_json and      *)
(* _extract_xyz, for every object, validated or not).                        *)
OnePoint ==
    datagram.form = "object" =>
        LET obj == datagram.fields
            position == Get(obj, "position")
            points == {Xyz(obj)} \cup
                      IF position.kind = "object" THEN {Xyz(position.val)} ELSE {}
        IN  \A e \in {ParseJson(obj), Normalize(obj, Now)} :
                IsEvent(e) => e.xyz \in points

(* The parser and the normalizer, two copies of the same lookup code, make   *)
(* the same event of an object both accept, so that it does not matter which *)
(* of them it reaches.  The copies differ on purpose or by accident in four  *)
(* places: the origin they write, 0x.. integers, a nested position without a *)
(* readable x or y, and a region at the top level, which is an area for one. *)
DecodersAgree ==
    datagram.form = "object" =>
        LET obj == datagram.fields
            position == Get(obj, "position")
            e == ParseJson(obj)
        IN  /\ IsEvent(e)
            /\ \A key \in DOMAIN obj : obj[key].kind # "hex"
            /\ position.kind = "object" =>
                  LET nested == Xyz(position.val)
                  IN  nested = NoXyz \/ (~IsMissing(nested[1]) /\ ~IsMissing(nested[2]))
            /\ IsMissing(Text(Get(obj, "rgn"))) \/ ~IsMissing(Text(Get(obj, "area")))
            => Normalize(obj, Now) = [e EXCEPT !.origin = ConfiguredOrigin]

(* Fields of a line stand at fixed places: emptying one token takes away     *)
(* that field and moves no other (test_parse_display_preserves_empty_fields_ *)
(* without_shifting_coordinates; parse_message splits without dropping any). *)
FieldsKeepTheirPlace ==
    datagram.form = "line" /\ Decoded =>
        LET type == datagram.type
            tagPlace == IF type = "status1" THEN 3 ELSE 2
            layerPlace == IF type = "status1" THEN 6 ELSE 5
            required == IF type = "gpsposi" THEN {4, 6, 7} ELSE {4}
        IN  \A i \in DOMAIN datagram.tokens \ required :
                LET e == ParseLine(type, [datagram.tokens EXCEPT ![i] = V("blank", 0)])
                IN  /\ IsEvent(e)
                    /\ e.ts = event.ts
                    /\ i # tagPlace => e.tag = event.tag
                    /\ i # layerPlace => e.layer = event.layer
                    /\ i < 6 => e.xyz = event.xyz
                    /\ e.geo = event.geo
                    /\ i < 6 => e.area = event.area
                    /\ i # 8 => e.status = event.status

(* json_normalizer.py: the warning "timestamp_missing_used_ingestion_time"   *)
(* says that the message had no timestamp.                                   *)
WarnedHasNoTimestamp ==
    Decoded /\ event.warned =>
        \A i \in DOMAIN TimeKeys : IsMissing(Get(datagram.fields, TimeKeys[i]))
==============================================================================
