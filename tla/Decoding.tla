------------------------------ MODULE Decoding -------------------------------
(****************************************************************************)
(* What the UDP receiver makes of one datagram: LS1000Parser, the schema    *)
(* check, JsonStreamNormalizer and the order UdpServer tries them in.       *)
(*                                                                          *)
(* A value (a JSON value, or a comma-separated token of a text line) is its *)
(* kind, which decides how _parse_int, _parse_float and str read it, and a  *)
(* content `val`; the content of a JSON object is the function from keys.   *)
(****************************************************************************)
EXTENDS Integers, Sequences, FiniteSetsExt

IsSequence(s) == s \in Seq({s[i] : i \in DOMAIN s})

V(kind, val) == [kind |-> kind, val |-> val]

Missing == V("missing", 0)   \* None: no such key, null
Raises  == V("raises", 0)    \* the reading raised an exception

IsMissing(v) == v.kind = "missing"

(* JSON values: integer, huge (an integer that no float can hold), number    *)
(* (with a fraction), whole (3.0), nan (NaN or Infinity), boolean, list,     *)
(* object.  JSON with a number of more than 4300 digits cannot be loaded.    *)
NumberKinds == {"integer", "huge", "number", "whole", "nan"}

(* Texts: digits, huge_digits, decimal, hex (0x..), nan_text (a float that   *)
(* is not finite, 4301 digits too), packed (three numbers in one text),      *)
(* date, blank, surrogate (with half of a surrogate pair, which a JSON       *)
(* escape can name and UTF-8 cannot write), text (anything else).            *)
TextKinds == {"digits", "huge_digits", "decimal", "hex", "nan_text", "packed", "date",
              "blank", "surrogate", "text"}

(* _parse_int of the LS-1000 parser.  True is an int for Python and stays    *)
(* True; int(NaN) raises; int("1.5") is refused, int(1.5) is not.            *)
ParseInt(v) ==
    CASE v.kind \in {"integer", "huge", "boolean"}  -> v
      [] v.kind \in {"number", "whole", "digits",
                     "huge_digits", "hex"}          -> V("integer", v.val)
      [] v.kind = "nan"                             -> Raises
      [] OTHER                                      -> Missing

(* _parse_int of the normalizer has no case for 0x...                        *)
NormalizerInt(v) == IF v.kind = "hex" THEN Missing ELSE ParseInt(v)

(* float of an int that is too large raises; float of its text is Infinity.  *)
ParseFloat(v) ==
    CASE v.kind \in {"integer", "number", "whole",
                     "boolean", "digits", "decimal"} -> V("number", v.val)
      [] v.kind \in {"nan", "nan_text",
                     "huge_digits"}                 -> V("nan", 0)
      [] v.kind = "huge"                            -> Raises
      [] OTHER                                      -> Missing

(* str(value).strip(), of which an empty one does not count.                 *)
Text(v) ==
    CASE v.kind \in {"missing", "blank"}            -> Missing
      [] v.kind = "integer"                         -> V("digits", v.val)
      [] v.kind = "huge"                            -> V("huge_digits", v.val)
      [] v.kind \in {"number", "whole"}             -> V("decimal", v.val)
      [] v.kind = "nan"                             -> V("nan_text", 0)
      [] v.kind \in {"boolean", "list", "object"}   -> V("text", v.kind)
      [] OTHER                                      -> v

Get(obj, key) == IF key \in DOMAIN obj THEN obj[key] ELSE Missing

(* _first_str, _first_int, _first_float: the first key with a reading; an    *)
(* exception on the way to it ends the search as well.                       *)
FirstOf(readings) ==
    LET found == {i \in DOMAIN readings : ~IsMissing(readings[i])}
    IN  IF found = {} THEN Missing ELSE readings[Min(found)]

FirstStr(obj, keys)   == FirstOf([i \in DOMAIN keys |-> Text(Get(obj, keys[i]))])
FirstInt(obj, keys)   == FirstOf([i \in DOMAIN keys |-> ParseInt(Get(obj, keys[i]))])
FirstFloat(obj, keys) == FirstOf([i \in DOMAIN keys |-> ParseFloat(Get(obj, keys[i]))])

NormalizerFirstInt(obj, keys) ==
    FirstOf([i \in DOMAIN keys |-> NormalizerInt(Get(obj, keys[i]))])

TagKeys   == <<"tag_id", "devid", "dev_id", "tag", "id">>
TimeKeys  == <<"ts_utc_ms", "timestamp", "ts">>
LayerKeys == <<"layer", "layid", "floor">>
LngKeys   == <<"lng", "lon", "longitude">>
LatKeys   == <<"lat", "latitude">>

NoXyz == <<Missing, Missing, Missing>>
NoGeo == <<Missing, Missing>>

(* What a decoder returns: a NormalizedEvent, None, or an exception.         *)
Declined == [source |-> "declined"]
Raised   == [source |-> "raised"]

IsEvent(e) == e.source \notin {"declined", "raised"}

(* NormalizedEvent(...), when every field of it could be read; `source` is   *)
(* source_type and `warned` stands for parse_warnings.  raw_message is the   *)
(* datagram.                                                                 *)
Event(e) ==
    IF Raises \in {e.ts, e.layer, e.xyz[1], e.xyz[2], e.xyz[3], e.geo[1], e.geo[2]}
      THEN Raised
      ELSE e
------------------------------------------------------------------------------
(* LS1000Parser: text lines `<type>:<token>,<token>,...`                     *)

(* Three tokens in a row, or three numbers in the first of them (a date is   *)
(* one such text); all three or none.                                        *)
ExtractXyzFromTokens(tokens, start) ==
    LET three == [i \in 1..3 |-> ParseFloat(tokens[start + i - 1])] IN
    CASE Len(tokens) >= start + 2 /\ \A i \in 1..3 : ~IsMissing(three[i])
            -> three
      [] OTHER
            -> IF Len(tokens) >= start /\ tokens[start].kind \in {"packed", "date"}
                 THEN [i \in 1..3 |-> V("number", tokens[start].val)]
                 ELSE NoXyz

SafeToken(tokens, i) == IF Len(tokens) < i THEN Missing ELSE Text(tokens[i])

(* The common part of the four _parse_<type>: enough tokens and a timestamp. *)
Line(tokens, atLeast, tag, xyz, geo, layer, source) ==
    IF Len(tokens) < atLeast \/ IsMissing(ParseInt(tokens[4]))
      THEN Declined
      ELSE Event([tag |-> tokens[tag], ts |-> ParseInt(tokens[4]), xyz |-> xyz, geo |-> geo,
                  layer |-> IF Len(tokens) < layer THEN Missing ELSE ParseInt(tokens[layer]),
                  area |-> Missing, status |-> Missing,
                  origin |-> "ls-1000", source |-> source, warned |-> FALSE])

(* Mutant: empty tokens are left out and the others move up.                 *)
ParseDisplayShifted(tokens) ==
    LET full == SelectSeq(tokens, LAMBDA v : v.kind # "blank")
        xyz  == ExtractXyzFromTokens(full, 6)
        e    == Line(full, 5, 2, xyz, NoGeo, 5, "display")
    IN  IF IsEvent(e) /\ IsMissing(xyz[1])
          THEN [e EXCEPT !.area = SafeToken(full, 7)]
          ELSE e

(* Without coordinates the token at the place of y is the area.              *)
ParseDisplay(tokens) ==
    LET xyz == ExtractXyzFromTokens(tokens, 6)
        e   == Line(tokens, 5, 2, xyz, NoGeo, 5, "display")
    IN  IF IsEvent(e) /\ IsMissing(xyz[1])
          THEN [e EXCEPT !.area = SafeToken(tokens, 7)]
          ELSE e

ParseStatus1(tokens) ==
    LET e == Line(tokens, 6, 3, NoXyz, NoGeo, 6, "status1")
    IN  IF IsEvent(e) THEN [e EXCEPT !.status = SafeToken(tokens, 8)] ELSE e

ParseStatus2(tokens) == Line(tokens, 4, 2, NoXyz, NoGeo, 5, "status2")

ParseGpsposi(tokens) ==
    LET geo == <<ParseFloat(tokens[6]), ParseFloat(tokens[7])>>
        z   == IF Len(tokens) < 8 THEN Missing ELSE ParseFloat(tokens[8])
    IN  IF Len(tokens) >= 7 /\ (IsMissing(geo[1]) \/ IsMissing(geo[2]))
          THEN Declined
          ELSE Line(tokens, 7, 2, <<Missing, Missing, z>>, geo, 5, "gpsposi")

(* Unsupported and unknown types are declined, and so is an empty payload.   *)
ParseLine(type, tokens) ==
    CASE \A i \in DOMAIN tokens : tokens[i].kind = "blank" -> Declined
      [] type = "display" -> ParseDisplay(tokens)
      [] type = "status1" -> ParseStatus1(tokens)
      [] type = "status2" -> ParseStatus2(tokens)
      [] type = "gpsposi" -> ParseGpsposi(tokens)
      [] OTHER            -> Declined
------------------------------------------------------------------------------
(* LS1000Parser: JSON objects.                                               *)

IsLs1000Json(obj) ==
    /\ {"devid", "seq", "samples", "position"} \cap DOMAIN obj # {}
    /\ Get(obj, "position").kind \in {"missing", "object"}
    /\ Get(obj, "samples").kind \in {"missing", "list"}

Xyz(obj) == [i \in 1..3 |-> ParseFloat(Get(obj, <<"x", "y", "z">>[i]))]

Raising(xyz) == Raises \in {xyz[1], xyz[2], xyz[3]}

(* Mutant: the top level goes first.                                         *)
ExtractXyzTopFirst(obj) ==
    LET position == Get(obj, "position")
        top == Xyz(obj)
    IN  IF position.kind = "object" /\ top = NoXyz
          THEN Xyz(position.val) ELSE top

(* The nested position if it has x and y, otherwise the top level; all three *)
(* of the nested ones are read first.                                        *)
ExtractXyzFromJson(obj) ==
    LET position == Get(obj, "position")
        nested == IF position.kind = "object" THEN Xyz(position.val)
                                              ELSE NoXyz
    IN  IF Raising(nested) \/ (~IsMissing(nested[1]) /\ ~IsMissing(nested[2]))
          THEN nested ELSE Xyz(obj)

ParseJson(obj) ==
    LET tag == FirstStr(obj, TagKeys)
        ts  == FirstInt(obj, TimeKeys)
    IN  IF ~IsLs1000Json(obj) \/ IsMissing(tag) \/ IsMissing(ts)
          THEN Declined
          ELSE Event([tag |-> tag, ts |-> ts, xyz |-> ExtractXyzFromJson(obj),
                      geo |-> <<FirstFloat(obj, LngKeys), FirstFloat(obj, LatKeys)>>,
                      layer |-> FirstInt(obj, LayerKeys),
                      area |-> FirstStr(obj, <<"area">>),
                      status |-> FirstStr(obj, <<"status">>),
                      origin |-> "ls-1000", source |-> "json", warned |-> FALSE])
------------------------------------------------------------------------------
(* JsonStreamNormalizer, made with the origin that the settings name.        *)
ConfiguredOrigin == "validation.origin"

(* Mutant: a coordinate missing in the nested position is taken from the top *)
ExtractXyzFillsGaps(obj) ==
    LET position == Get(obj, "position")
        nested == IF position.kind = "object" THEN Xyz(position.val)
                                              ELSE NoXyz
        top == Xyz(obj)
    IN  [i \in 1..3 |-> IF IsMissing(nested[i]) THEN top[i] ELSE nested[i]]

(* The nested position if it has any coordinate, otherwise the top level.    *)
ExtractXyz(obj) ==
    LET position == Get(obj, "position")
        nested == IF position.kind = "object" THEN Xyz(position.val)
                                              ELSE NoXyz
    IN  IF nested # NoXyz THEN nested ELSE Xyz(obj)

(* A message without a readable timestamp gets the time of its ingestion.    *)
Normalize(obj, now) ==
    LET tag == FirstStr(obj, TagKeys)
        ts  == NormalizerFirstInt(obj, TimeKeys)
    IN  IF IsMissing(tag)
          THEN Declined
          ELSE Event([tag |-> tag,
                      ts |-> IF IsMissing(ts) THEN V("integer", now) ELSE ts,
                      xyz |-> ExtractXyz(obj),
                      geo |-> <<FirstFloat(obj, LngKeys), FirstFloat(obj, LatKeys)>>,
                      layer |-> NormalizerFirstInt(obj, LayerKeys),
                      area |-> FirstStr(obj, <<"area", "rgn">>),
                      status |-> FirstStr(obj, <<"status">>),
                      origin |-> ConfiguredOrigin, source |-> "json",
                      warned |-> IsMissing(ts)])
------------------------------------------------------------------------------
(* UdpServer._process_datagram.                                              *)

TraceKeys == {"traceparent", "tracestate"}

(* Mutant: the validator sees the trace context.                             *)
KeepTrace(obj) == obj

(* _strip_trace_from_string                                                  *)
StripTrace(obj) == [key \in DOMAIN obj \ TraceKeys |-> obj[key]]

(* The schema of the deployment, config/ls_1000_scheme.json.                 *)
Schema ==
    [devid     |-> {"text", "digits", "decimal"},
     seq       |-> {"integer", "whole"},
     timestamp |-> {"date"},
     samples   |-> {"list"},
     position  |-> {"object"},
     lat       |-> NumberKinds,
     lng       |-> NumberKinds]

PositionSchema ==
    [rgn |-> {"integer", "huge", "whole"} \cup TextKinds,
     x   |-> NumberKinds,
     y   |-> NumberKinds,
     z   |-> NumberKinds]

Conforms(obj, schema, optional) ==
    /\ DOMAIN obj \subseteq DOMAIN schema
    /\ DOMAIN schema \ optional \subseteq DOMAIN obj
    /\ \A key \in DOMAIN obj : obj[key].kind \in schema[key]

(* Validator.get_validated_object                                            *)
Validated(obj) ==
    /\ Conforms(obj, Schema, {"lat", "lng"})
    /\ Conforms(obj["position"].val, PositionSchema, {})

(* The region of a conforming object.                                        *)
Region(obj) == obj["position"].val["rgn"]

(* float() can hold each coordinate that a conforming object has.            *)
CoordinatesFit(obj) ==
    /\ \A key \in {"x", "y", "z"} : obj["position"].val[key].kind # "huge"
    /\ Get(obj, "lng").kind # "huge" /\ Get(obj, "lat").kind # "huge"

(* A datagram is bytes that are no UTF-8, a text line, or a JSON object;     *)
(* every other text (empty, broken JSON, a JSON list) is "other": the parser *)
(* declines it and the validator refuses it.                                 *)
NormalizeJsonPayload(datagram, now) ==
    IF datagram.form = "object" /\ Validated(StripTrace(datagram.fields))
      THEN Normalize(StripTrace(datagram.fields), now)
      ELSE Raised

TryParseLs1000(datagram) ==
    CASE datagram.form = "line"   -> ParseLine(datagram.type, datagram.tokens)
      [] datagram.form = "object" -> ParseJson(datagram.fields)
      [] OTHER                    -> Declined

(* The parser first, the validated and normalized JSON otherwise.  Without   *)
(* an event there is nothing to publish: the datagram is skipped.            *)
ProcessDatagram(datagram, now) ==
    LET parsed == IF datagram.form = "bytes" THEN Raised
                                             ELSE TryParseLs1000(datagram)
        event  == IF parsed = Declined THEN NormalizeJsonPayload(datagram, now)
                                       ELSE parsed
    IN  IF event = Declined THEN Raised ELSE event
==============================================================================
