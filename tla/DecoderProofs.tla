----------------------------- MODULE DecoderProofs ---------------------------
(****************************************************************************)
(* The promises of Decoder hold for every set of datagrams and every time   *)
(* of ingestion.                                                            *)
(****************************************************************************)
EXTENDS Decoder, DecodingProofs

(* The event is that of the datagram, once there is one.                     *)
EventIsDecoded ==
    /\ datagram \in Datagrams
    /\ event = Declined \/ event = ProcessDatagram(datagram, Now)

(* It always is.                                                             *)
LEMMA DecodedTheorem == Spec => []EventIsDecoded
<1>1. Init => EventIsDecoded
  BY DEF Init, EventIsDecoded
<1>2. EventIsDecoded /\ [Decode]_vars => EventIsDecoded'
  BY DEF EventIsDecoded, Decode, vars
<1> QED BY <1>1, <1>2, PTL DEF Spec

(* A conforming object becomes an event of its devid at its own coordinates, *)
(* with or without a trace context, unless one of these is an integer that   *)
(* no float can hold: then the datagram is refused (Validator,               *)
(* JsonStreamNormalizer, _strip_trace_from_string, _parse_float).            *)
THEOREM ConformingTheorem == Spec => []ConformingIsAccepted
<1>1. EventIsDecoded => ConformingIsAccepted
  <2> SUFFICES ASSUME EventIsDecoded, Conforming, event # Declined
               PROVE  LET obj == datagram.fields IN
                      IF CoordinatesFit(obj)
                        THEN /\ Decoded
                             /\ event.tag = obj["devid"]
                             /\ event.xyz = Xyz(obj["position"].val)
                             /\ event.geo = <<ParseFloat(Get(obj, "lng")),
                                              ParseFloat(Get(obj, "lat"))>>
                        ELSE event = Raised
    BY DEF ConformingIsAccepted
  <2>1. event = ProcessDatagram(datagram, Now)
    BY DEF EventIsDecoded
  <2>2. datagram.form = "object" /\ Validated(StripTrace(datagram.fields))
    BY DEF Conforming, StripTrace
  <2> QED BY <2>1, <2>2, MessageIsDecoded DEF Decoded
<1> QED BY <1>1, DecodedTheorem, PTL

(* Event is the record it was given unless a field of it could not be read.  *)
LEMMA EventFields ==
    ASSUME NEW e, IsEvent(Event(e))
    PROVE  /\ Event(e) = e
           /\ Raises \notin {e.ts, e.layer, e.xyz[1], e.xyz[2], e.xyz[3], e.geo[1], e.geo[2]}
BY DEF Event, IsEvent, Raised

(* The fields the parser reads from an object, and those of the normalizer.  *)
ParserFields(obj) ==
    [tag |-> FirstStr(obj, TagKeys), ts |-> FirstInt(obj, TimeKeys),
     xyz |-> ExtractXyzFromJson(obj),
     geo |-> <<FirstFloat(obj, LngKeys), FirstFloat(obj, LatKeys)>>,
     layer |-> FirstInt(obj, LayerKeys),
     area |-> FirstStr(obj, <<"area">>), status |-> FirstStr(obj, <<"status">>),
     origin |-> "ls-1000", source |-> "json", warned |-> FALSE]

NormalizerFields(obj) ==
    [tag |-> FirstStr(obj, TagKeys),
     ts |-> IF IsMissing(NormalizerFirstInt(obj, TimeKeys)) THEN V("integer", Now)
                                                            ELSE NormalizerFirstInt(obj, TimeKeys),
     xyz |-> ExtractXyz(obj),
     geo |-> <<FirstFloat(obj, LngKeys), FirstFloat(obj, LatKeys)>>,
     layer |-> NormalizerFirstInt(obj, LayerKeys),
     area |-> FirstStr(obj, <<"area", "rgn">>), status |-> FirstStr(obj, <<"status">>),
     origin |-> ConfiguredOrigin, source |-> "json",
     warned |-> IsMissing(NormalizerFirstInt(obj, TimeKeys))]

(* What the parser makes of an object it accepts.                            *)
LEMMA ParsedFields ==
    ASSUME NEW obj, IsEvent(ParseJson(obj))
    PROVE  /\ ~IsMissing(FirstStr(obj, TagKeys)) /\ ~IsMissing(FirstInt(obj, TimeKeys))
           /\ ParseJson(obj) = ParserFields(obj)
           /\ ParseJson(obj) = Event(ParserFields(obj))
<1>1. ParseJson(obj) # Declined
  BY DEF IsEvent, Declined
<1>2. /\ ~IsMissing(FirstStr(obj, TagKeys)) /\ ~IsMissing(FirstInt(obj, TimeKeys))
      /\ ParseJson(obj) = Event(ParserFields(obj))
  BY <1>1 DEF ParseJson, ParserFields
<1>3. Event(ParserFields(obj)) = ParserFields(obj)
  BY <1>2, EventFields
<1> QED BY <1>2, <1>3

(* What the normalizer makes of an object it accepts.                        *)
LEMMA NormalizedFields ==
    ASSUME NEW obj
    PROVE  /\ Normalize(obj, Now) = IF IsMissing(FirstStr(obj, TagKeys))
                                      THEN Declined ELSE Event(NormalizerFields(obj))
           /\ IsEvent(Normalize(obj, Now)) => Normalize(obj, Now) = NormalizerFields(obj)
<1>1. Normalize(obj, Now) = IF IsMissing(FirstStr(obj, TagKeys))
                              THEN Declined ELSE Event(NormalizerFields(obj))
  BY DEF Normalize, NormalizerFields
<1>2. ~IsEvent(Declined)
  BY DEF IsEvent, Declined
<1> QED BY <1>1, <1>2, EventFields

(* The coordinates of an event are one point's: the nested position's or the *)
(* top level's (_extract_xyz_from_json, _extract_xyz).                       *)
THEOREM OnePointTheorem == Spec => []OnePoint
<1>1. OnePoint
  <2> SUFFICES ASSUME NEW obj,
                      NEW e \in {ParseJson(obj), Normalize(obj, Now)}, IsEvent(e)
               PROVE  \/ e.xyz = Xyz(obj)
                      \/ Get(obj, "position").kind = "object"
                           /\ e.xyz = Xyz(Get(obj, "position").val)
    BY DEF OnePoint
  <2>2. CASE e = ParseJson(obj)
    <3>1. e.xyz = ExtractXyzFromJson(obj)
      <4>1. e = ParserFields(obj)
        BY <2>2, ParsedFields
      <4> QED BY <4>1 DEF ParserFields
    <3>2. ~Raising(NoXyz) /\ IsMissing(NoXyz[1])
      BY NothingRead DEF NoXyz, Raising, Raises, Missing, V
    <3> QED BY <3>1, <3>2 DEF ExtractXyzFromJson
  <2>3. CASE e = Normalize(obj, Now)
    <3>1. e.xyz = ExtractXyz(obj)
      <4>1. e = NormalizerFields(obj)
        BY <2>3, NormalizedFields
      <4> QED BY <4>1 DEF NormalizerFields
    <3> QED BY <3>1 DEF ExtractXyz
  <2> QED BY <2>2, <2>3
<1> QED BY <1>1, PTL

(* The parser and the normalizer make the same event, but for its origin, of *)
(* an object both accept, unless it has 0x.. integers, a position without a  *)
(* readable x or y, or a region for an area at the top level (LS1000Parser   *)
(* and JsonStreamNormalizer, two copies of the same lookups).                *)
THEOREM AgreeTheorem == Spec => []DecodersAgree
<1>1. DecodersAgree
  <2> SUFFICES ASSUME NEW obj, IsEvent(ParseJson(obj)),
                      \A key \in DOMAIN obj : obj[key].kind # "hex",
                      Get(obj, "position").kind = "object" =>
                         LET nested == Xyz(Get(obj, "position").val)
                         IN  nested = NoXyz \/ (~IsMissing(nested[1]) /\ ~IsMissing(nested[2])),
                      IsMissing(Text(Get(obj, "rgn"))) \/ ~IsMissing(Text(Get(obj, "area")))
               PROVE  Normalize(obj, Now) = [ParseJson(obj) EXCEPT !.origin = ConfiguredOrigin]
    BY DEF DecodersAgree
  <2>1. /\ ~IsMissing(FirstStr(obj, TagKeys)) /\ ~IsMissing(FirstInt(obj, TimeKeys))
        /\ ParseJson(obj) = ParserFields(obj) /\ ParseJson(obj) = Event(ParserFields(obj))
    BY ParsedFields
  <2>2. \A key : Get(obj, key).kind # "hex"
    BY DEF Get, Missing, V
  <2>3. \A keys : NormalizerFirstInt(obj, keys) = FirstInt(obj, keys)
    <3> TAKE keys
    <3>1. \A i \in DOMAIN keys : NormalizerInt(Get(obj, keys[i])) = ParseInt(Get(obj, keys[i]))
      BY <2>2 DEF NormalizerInt
    <3>2. [i \in DOMAIN keys |-> NormalizerInt(Get(obj, keys[i]))] =
            [i \in DOMAIN keys |-> ParseInt(Get(obj, keys[i]))]
      BY <3>1
    <3> QED BY <3>2 DEF NormalizerFirstInt, FirstInt
  <2>4. ExtractXyz(obj) = ExtractXyzFromJson(obj)
    <3>1. IsMissing(NoXyz[1]) /\ IsMissing(NoXyz[2]) /\ ~Raising(NoXyz)
      BY NothingRead DEF NoXyz, Raising, Raises, Missing, V
    <3>2. CASE Get(obj, "position").kind = "object"
      <4> DEFINE nested == Xyz(Get(obj, "position").val)
      <4>1. /\ ExtractXyz(obj) = IF nested # NoXyz THEN nested ELSE Xyz(obj)
            /\ ExtractXyzFromJson(obj) =
                 IF Raising(nested) \/ (~IsMissing(nested[1]) /\ ~IsMissing(nested[2]))
                   THEN nested ELSE Xyz(obj)
        BY <3>2 DEF ExtractXyz, ExtractXyzFromJson
      <4>2. nested = NoXyz \/ (~IsMissing(nested[1]) /\ ~IsMissing(nested[2]))
        BY <3>2
      <4> HIDE DEF nested
      <4> QED BY <3>1, <4>1, <4>2
    <3>3. CASE Get(obj, "position").kind # "object"
      BY <3>1, <3>3 DEF ExtractXyz, ExtractXyzFromJson
    <3> QED BY <3>2, <3>3
  <2>5. FirstStr(obj, <<"area", "rgn">>) = FirstStr(obj, <<"area">>)
    <3> DEFINE a == Text(Get(obj, "area"))
               g == Text(Get(obj, "rgn"))
               one == [i \in DOMAIN <<"area">> |-> Text(Get(obj, <<"area">>[i]))]
               two == [i \in DOMAIN <<"area", "rgn">> |-> Text(Get(obj, <<"area", "rgn">>[i]))]
    <3>1. DOMAIN one = {1} /\ one[1] = a
      OBVIOUS
    <3>2. DOMAIN two = {1, 2} /\ two[1] = a /\ two[2] = g
      OBVIOUS
    <3>3. /\ FirstStr(obj, <<"area">>) = FirstOf(one)
          /\ FirstStr(obj, <<"area", "rgn">>) = FirstOf(two)
      BY DEF FirstStr
    <3> HIDE DEF one, two
    <3>4. CASE IsMissing(a)
      <4>1. IsMissing(g)
        BY <3>4
      <4>2. FirstOf(one) = Missing
        BY <3>1, <3>4, FirstOfNone
      <4>3. FirstOf(two) = Missing
        BY <3>2, <3>4, <4>1, FirstOfNone
      <4> QED BY <3>3, <4>2, <4>3
    <3>5. CASE ~IsMissing(a)
      <4> DEFINE found(q) == {i \in DOMAIN q : ~IsMissing(q[i])}
      <4>1. \A q \in {one, two} : Min(found(q)) = 1
        <5>1. found(one) = {1}
          BY <3>1, <3>5
        <5>2. found(two) = {1} \/ found(two) = {1, 2}
          BY <3>2, <3>5
        <5>3. Min({1}) = 1 /\ Min({1, 2}) = 1
          BY DEF Min
        <5> QED BY <5>1, <5>2, <5>3
      <4>2. found(one) # {} /\ found(two) # {}
        BY <3>1, <3>2, <3>5
      <4>3. FirstOf(one) = one[1] /\ FirstOf(two) = two[1]
        BY <4>1, <4>2 DEF FirstOf
      <4> QED BY <3>1, <3>2, <3>3, <4>3
    <3> QED BY <3>4, <3>5
  <2>6. NormalizerFields(obj) = [ParserFields(obj) EXCEPT !.origin = ConfiguredOrigin]
    <3>1. (FirstInt(obj, TimeKeys) = NormalizerFirstInt(obj, TimeKeys))
          /\ (FirstInt(obj, LayerKeys) = NormalizerFirstInt(obj, LayerKeys))
      BY <2>3
    <3>2. IsMissing(FirstInt(obj, TimeKeys)) = FALSE
      BY <2>1 DEF IsMissing
    <3>3. NormalizerFields(obj) =
            [tag |-> FirstStr(obj, TagKeys),
             ts |-> IF IsMissing(FirstInt(obj, TimeKeys)) THEN V("integer", Now)
                                                          ELSE FirstInt(obj, TimeKeys),
             xyz |-> ExtractXyzFromJson(obj),
             geo |-> <<FirstFloat(obj, LngKeys), FirstFloat(obj, LatKeys)>>,
             layer |-> FirstInt(obj, LayerKeys),
             area |-> FirstStr(obj, <<"area">>), status |-> FirstStr(obj, <<"status">>),
             origin |-> ConfiguredOrigin, source |-> "json",
             warned |-> IsMissing(FirstInt(obj, TimeKeys))]
      BY <2>4, <2>5, <3>1, Zenon DEF NormalizerFields
    <3>4. (IF IsMissing(FirstInt(obj, TimeKeys)) THEN V("integer", Now)
                                                 ELSE FirstInt(obj, TimeKeys))
            = FirstInt(obj, TimeKeys)
      BY <2>1
    <3>5. NormalizerFields(obj) =
            [tag |-> FirstStr(obj, TagKeys), ts |-> FirstInt(obj, TimeKeys),
             xyz |-> ExtractXyzFromJson(obj),
             geo |-> <<FirstFloat(obj, LngKeys), FirstFloat(obj, LatKeys)>>,
             layer |-> FirstInt(obj, LayerKeys),
             area |-> FirstStr(obj, <<"area">>), status |-> FirstStr(obj, <<"status">>),
             origin |-> ConfiguredOrigin, source |-> "json", warned |-> FALSE]
      BY <3>2, <3>3, <3>4, Zenon
    <3> DEFINE geo == <<FirstFloat(obj, LngKeys), FirstFloat(obj, LatKeys)>>
               area == FirstStr(obj, <<"area">>)
               status == FirstStr(obj, <<"status">>)
               record(origin, warned) ==
                 [tag |-> FirstStr(obj, TagKeys), ts |-> FirstInt(obj, TimeKeys),
                  xyz |-> ExtractXyzFromJson(obj), geo |-> geo,
                  layer |-> FirstInt(obj, LayerKeys), area |-> area, status |-> status,
                  origin |-> origin, source |-> "json", warned |-> warned]
    <3>6. ParserFields(obj) = record("ls-1000", FALSE)
      BY DEF ParserFields
    <3>7. NormalizerFields(obj) = record(ConfiguredOrigin, FALSE)
      BY <3>5, Zenon
    <3> HIDE DEF geo, area, status
    <3>8. ASSUME NEW w
          PROVE  record(ConfiguredOrigin, w) =
                   [record("ls-1000", w) EXCEPT !.origin = ConfiguredOrigin]
      OBVIOUS
    <3> HIDE DEF record
    <3>9. record(ConfiguredOrigin, FALSE) =
             [record("ls-1000", FALSE) EXCEPT !.origin = ConfiguredOrigin]
      BY <3>8, Zenon
    <3> QED BY <3>6, <3>7, <3>9, Zenon
  <2>7. Event(NormalizerFields(obj)) = NormalizerFields(obj)
    <3> DEFINE e == ParserFields(obj)
               n == NormalizerFields(obj)
    <3>1. Raises \notin {e.ts, e.layer, e.xyz[1], e.xyz[2], e.xyz[3], e.geo[1], e.geo[2]}
      BY <2>1, EventFields
    <3>2. n.ts = e.ts /\ n.layer = e.layer /\ n.xyz = e.xyz /\ n.geo = e.geo
      BY <2>6 DEF ParserFields
    <3> HIDE DEF e, n
    <3>3. Event(n) = n
      BY <3>1, <3>2 DEF Event
    <3> QED BY <3>3 DEF n
  <2>8. Normalize(obj, Now) = NormalizerFields(obj)
    BY <2>1, <2>7, NormalizedFields
  <2> QED BY <2>1, <2>6, <2>8
<1> QED BY <1>1, PTL
------------------------------------------------------------------------------
(* The tokens of a line, one of them emptied.                                *)
Emptied(tokens, i) == [tokens EXCEPT ![i] = V("blank", 0)]

(* The others stay where they are.                                           *)
LEMMA EmptiedFacts ==
    ASSUME NEW tokens, IsSequence(tokens), NEW i \in DOMAIN tokens
    PROVE  /\ Len(tokens) \in Nat /\ DOMAIN tokens = 1..Len(tokens)
           /\ DOMAIN Emptied(tokens, i) = DOMAIN tokens
           /\ Len(Emptied(tokens, i)) = Len(tokens)
           /\ \A j \in DOMAIN tokens : j # i => Emptied(tokens, i)[j] = tokens[j]
           /\ Emptied(tokens, i)[i] = V("blank", 0)
<1> DEFINE S == {tokens[j] : j \in DOMAIN tokens}
           b == V("blank", 0)
<1>1. tokens \in Seq(S)
  BY DEF IsSequence
<1>2. \A j \in DOMAIN tokens : tokens[j] \in S
  OBVIOUS
<1> HIDE DEF S, b
<1>3. Len(tokens) \in Nat /\ DOMAIN tokens = 1..Len(tokens)
  BY <1>1
<1>4. [tokens EXCEPT ![i] = b] \in [1..Len(tokens) -> S \cup {b}]
  BY <1>1, <1>3
<1>5. Len([tokens EXCEPT ![i] = b]) = Len(tokens)
  <2>1. ASSUME NEW m \in Nat, NEW T, NEW q \in [1..m -> T]
        PROVE  Len(q) = m
    BY <2>1
  <2> QED BY <1>3, <1>4, <2>1
<1>6. Emptied(tokens, i) = [tokens EXCEPT ![i] = b]
  BY DEF Emptied, b
<1>7. /\ \A j \in DOMAIN tokens : j # i => [tokens EXCEPT ![i] = b][j] = tokens[j]
      /\ [tokens EXCEPT ![i] = b][i] = b
  BY <1>1, <1>3
<1> QED BY <1>3, <1>4, <1>5, <1>6, <1>7 DEF b

(* Nothing is read from an empty token.                                      *)
LEMMA BlankIsMissing ==
    /\ ParseInt(V("blank", 0)) = Missing /\ Missing # Raises
    /\ \A v : v.kind = "blank" => IsMissing(ParseInt(v))
BY DEF ParseInt, Missing, Raises, V, IsMissing

(* No reading of a text raises.                                              *)
LEMMA TextsAreRead ==
    ASSUME NEW v, v.kind \in TextKinds
    PROVE  ParseInt(v) # Raises /\ ParseFloat(v) # Raises
BY DEF TextKinds, ParseInt, ParseFloat, Raises, Missing, V

(* Nor does reading the coordinates of a line.                               *)
LEMMA CoordinatesAreRead ==
    ASSUME NEW tokens, IsSequence(tokens), \A j \in DOMAIN tokens : tokens[j].kind \in TextKinds
    PROVE  ~Raising(ExtractXyzFromTokens(tokens, 6))
<1> DEFINE three == [j \in 1..3 |-> ParseFloat(tokens[6 + j - 1])]
<1>0. Len(tokens) \in Nat /\ DOMAIN tokens = 1..Len(tokens)
  BY DEF IsSequence
<1>1. ~Raising(NoXyz)
  BY DEF NoXyz, Raising, Raises, Missing, V
<1>2. ASSUME NEW v
      PROVE  ~Raising([j \in 1..3 |-> V("number", v)])
  BY DEF Raising, Raises, V
<1>3. CASE Len(tokens) >= 8 /\ \A j \in 1..3 : ~IsMissing(three[j])
  <2>1. 6 \in DOMAIN tokens /\ 7 \in DOMAIN tokens /\ 8 \in DOMAIN tokens
    BY <1>0, <1>3
  <2>2. /\ three[1] = ParseFloat(tokens[6]) /\ three[2] = ParseFloat(tokens[7])
        /\ three[3] = ParseFloat(tokens[8])
    OBVIOUS
  <2>3. ExtractXyzFromTokens(tokens, 6) = three
    BY <1>3 DEF ExtractXyzFromTokens
  <2> HIDE DEF three
  <2> QED BY <2>1, <2>2, <2>3, TextsAreRead DEF Raising
<1>4. CASE ~(Len(tokens) >= 8 /\ \A j \in 1..3 : ~IsMissing(three[j]))
  <2>1. ~(Len(tokens) >= 6 + 2 /\ \A j \in 1..3 : ~IsMissing(three[j]))
    BY <1>4
  <2>2. ExtractXyzFromTokens(tokens, 6) =
           IF Len(tokens) >= 6 /\ tokens[6].kind \in {"packed", "date"}
             THEN [j \in 1..3 |-> V("number", tokens[6].val)]
             ELSE NoXyz
    BY <2>1 DEF ExtractXyzFromTokens
  <2> QED BY <1>1, <1>2, <2>2
<1> QED BY <1>3, <1>4

(* The common part of the line parsers, when a token other than the          *)
(* timestamp is emptied.                                                     *)
LEMMA LineKeeps ==
    ASSUME NEW tokens, IsSequence(tokens), NEW i \in DOMAIN tokens, i # 4,
           NEW n \in Nat, n >= 4, NEW tag \in 1..n, NEW layer \in Nat, layer >= 1,
           NEW source \in {"display", "status1", "status2", "gpsposi"},
           NEW xyz, NEW geo, NEW other, ~Raising(other),
           IsEvent(Line(tokens, n, tag, xyz, geo, layer, source))
    PROVE  LET e == Line(tokens, n, tag, xyz, geo, layer, source)
               f == Line(Emptied(tokens, i), n, tag, other, geo, layer, source)
           IN  /\ IsEvent(f) /\ f.ts = e.ts /\ f.xyz = other /\ e.xyz = xyz
               /\ f.geo = geo /\ e.geo = geo
               /\ f.area = Missing /\ e.area = Missing
               /\ f.status = Missing /\ e.status = Missing
               /\ DOMAIN e = {"tag", "ts", "xyz", "geo", "layer", "area", "status",
                              "origin", "source", "warned"}
               /\ DOMAIN f = DOMAIN e /\ f.source = source
               /\ i # tag => f.tag = e.tag
               /\ i # layer => f.layer = e.layer
               /\ Len(tokens) >= n /\ ~IsMissing(ParseInt(tokens[4]))
<1> DEFINE b == Emptied(tokens, i)
           lay(t) == IF Len(t) < layer THEN Missing ELSE ParseInt(t[layer])
           line(t, p) == [tag |-> t[tag], ts |-> ParseInt(t[4]), xyz |-> p, geo |-> geo,
                          layer |-> lay(t), area |-> Missing, status |-> Missing,
                          origin |-> "ls-1000", source |-> source, warned |-> FALSE]
           e == Line(tokens, n, tag, xyz, geo, layer, source)
           f == Line(b, n, tag, other, geo, layer, source)
<1>1. /\ Len(tokens) \in Nat /\ DOMAIN tokens = 1..Len(tokens) /\ Len(b) = Len(tokens)
      /\ \A j \in DOMAIN tokens : j # i => b[j] = tokens[j]
      /\ b[i] = V("blank", 0)
  BY EmptiedFacts
<1>2. e # Declined
  BY DEF IsEvent, Declined
<1>3. Len(tokens) >= n /\ ~IsMissing(ParseInt(tokens[4]))
  <2>1. ~(Len(tokens) < n) /\ ~IsMissing(ParseInt(tokens[4]))
    BY <1>2 DEF Line
  <2>2. Len(tokens) \in Nat
    BY <1>1
  <2> QED BY <2>1, <2>2
<1>4. e = Event(line(tokens, xyz))
  BY <1>2 DEF Line
<1>5. /\ e = line(tokens, xyz)
      /\ Raises \notin {ParseInt(tokens[4]), lay(tokens), geo[1], geo[2]}
  <2> HIDE DEF lay, e
  <2>1. IsEvent(Event(line(tokens, xyz)))
    BY <1>4 DEF e
  <2>2. /\ line(tokens, xyz).ts = ParseInt(tokens[4]) /\ line(tokens, xyz).layer = lay(tokens)
        /\ line(tokens, xyz).geo = geo
    OBVIOUS
  <2> HIDE DEF line
  <2> QED BY <1>4, <2>1, <2>2, EventFields
<1>6. b[4] = tokens[4] /\ (i # tag => b[tag] = tokens[tag])
  BY <1>1, <1>3
<1>7. (i # layer => lay(b) = lay(tokens)) /\ lay(b) # Raises
  <2>1. CASE Len(tokens) < layer
    BY <1>1, <2>1, BlankIsMissing
  <2>2. CASE ~(Len(tokens) < layer)
    <3>1. layer \in DOMAIN tokens
      BY <1>1, <2>2
    <3>2. lay(b) = ParseInt(b[layer]) /\ lay(tokens) = ParseInt(tokens[layer])
      BY <1>1, <2>2
    <3>3. CASE i = layer
      BY <1>1, <3>2, <3>3, BlankIsMissing
    <3>4. CASE i # layer
      BY <1>1, <1>5, <3>1, <3>2, <3>4
    <3> QED BY <3>3, <3>4
  <2> QED BY <2>1, <2>2
<1>8. f = Event(line(b, other))
  <2>1. ~(Len(b) < n) /\ ~IsMissing(ParseInt(b[4]))
    BY <1>1, <1>3, <1>6
  <2> HIDE DEF b
  <2> QED BY <2>1 DEF Line
<1>9. f = line(b, other)
  <2>1. /\ line(b, other).ts = ParseInt(b[4]) /\ line(b, other).layer = lay(b)
        /\ line(b, other).geo = geo /\ line(b, other).xyz = other
    OBVIOUS
  <2> HIDE DEF line, lay, b, f, e
  <2> QED BY <1>5, <1>6, <1>7, <1>8, <2>1 DEF Event, Raising
<1> HIDE DEF b, lay, e, f
<1>10. IsEvent(f)
  BY <1>9 DEF IsEvent
<1> QED BY <1>3, <1>5, <1>6, <1>7, <1>9, <1>10 DEF b, e, f

(* What a line parser reads behind the fixed fields.                         *)
LEMMA CoordinatesKeep ==
    ASSUME NEW tokens, IsSequence(tokens), NEW i \in DOMAIN tokens, i < 6
    PROVE  ExtractXyzFromTokens(Emptied(tokens, i), 6) = ExtractXyzFromTokens(tokens, 6)
<1> DEFINE b == Emptied(tokens, i)
           three(t) == [j \in 1..3 |-> ParseFloat(t[6 + j - 1])]
<1>1. /\ Len(tokens) \in Nat /\ DOMAIN tokens = 1..Len(tokens) /\ Len(b) = Len(tokens)
      /\ \A j \in DOMAIN tokens : j # i => b[j] = tokens[j]
  BY EmptiedFacts
<1> HIDE DEF b
<1>2. CASE Len(tokens) >= 6 + 2
  <2>1. \A j \in 1..3 : b[6 + j - 1] = tokens[6 + j - 1]
    BY <1>1, <1>2
  <2>2. three(b) = three(tokens) /\ b[6] = tokens[6]
    BY <1>1, <1>2, <2>1
  <2> HIDE DEF three
  <2> QED BY <1>1, <2>2 DEF ExtractXyzFromTokens, three, b
<1>3. CASE ~(Len(tokens) >= 6 + 2)
  <2>1. Len(tokens) >= 6 => b[6] = tokens[6]
    BY <1>1
  <2>2. ~(Len(b) >= 6 + 2)
    BY <1>1, <1>3
  <2> QED BY <1>1, <1>3, <2>1, <2>2 DEF ExtractXyzFromTokens, b
<1> QED BY <1>2, <1>3

(* Emptying a token that is not required takes away at most its own field.   *)
LEMMA LinePlaces ==
    ASSUME NEW type, NEW tokens, IsSequence(tokens),
           \A j \in DOMAIN tokens : tokens[j].kind \in TextKinds,
           NEW i \in DOMAIN tokens, i # 4,
           type = "gpsposi" => i \notin {6, 7},
           IsEvent(ParseLine(type, tokens))
    PROVE  LET e == ParseLine(type, tokens)
               f == ParseLine(type, Emptied(tokens, i))
           IN  /\ IsEvent(f) /\ f.ts = e.ts
               /\ i # (IF type = "status1" THEN 3 ELSE 2) => f.tag = e.tag
               /\ i # (IF type = "status1" THEN 6 ELSE 5) => f.layer = e.layer
               /\ i < 6 => f.xyz = e.xyz
               /\ f.geo = e.geo
               /\ i < 6 => f.area = e.area
               /\ i # 8 => f.status = e.status
<1> DEFINE b == Emptied(tokens, i)
           e == ParseLine(type, tokens)
           f == ParseLine(type, b)
<1>0. ~IsEvent(Declined)
  BY DEF IsEvent, Declined
<1>1. /\ Len(tokens) \in Nat /\ DOMAIN tokens = 1..Len(tokens) /\ Len(b) = Len(tokens)
      /\ DOMAIN b = DOMAIN tokens /\ i \in Int
      /\ \A j \in DOMAIN tokens : j # i => b[j] = tokens[j]
  BY EmptiedFacts
<1>2. ~(\A j \in DOMAIN tokens : tokens[j].kind = "blank")
  <2> SUFFICES ASSUME \A j \in DOMAIN tokens : tokens[j].kind = "blank"
               PROVE  ParseLine(type, tokens) = Declined
    BY <1>0
  <2>1. ASSUME NEW n \in Nat, n >= 4, NEW tag, NEW xyz, NEW geo, NEW layer, NEW source
        PROVE  Line(tokens, n, tag, xyz, geo, layer, source) = Declined
    <3>1. Len(tokens) >= n => 4 \in DOMAIN tokens
      BY <1>1, <2>1
    <3>2. Len(tokens) < n \/ IsMissing(ParseInt(tokens[4]))
      BY <1>1, <3>1, BlankIsMissing
    <3> QED BY <3>2 DEF Line
  <2>2. ParseDisplay(tokens) = Declined
    BY <1>0, <2>1 DEF ParseDisplay
  <2>3. ParseStatus1(tokens) = Declined
    BY <1>0, <2>1 DEF ParseStatus1
  <2>4. ParseStatus2(tokens) = Declined
    BY <2>1 DEF ParseStatus2
  <2>5. ParseGpsposi(tokens) = Declined
    BY <2>1 DEF ParseGpsposi
  <2> QED BY <2>2, <2>3, <2>4, <2>5 DEF ParseLine
<1>3. ASSUME Len(tokens) >= 4, ~IsMissing(ParseInt(tokens[4]))
      PROVE  ~(\A j \in DOMAIN b : b[j].kind = "blank")
  <2>1. 4 \in DOMAIN tokens /\ b[4] = tokens[4]
    BY <1>1, <1>3
  <2> QED BY <1>1, <1>3, <2>1, BlankIsMissing
<1>4. /\ IsSequence(b) /\ \A j \in DOMAIN b : b[j].kind \in TextKinds
  <2>1. \A j \in DOMAIN b : b[j].kind \in TextKinds
    BY <1>1, EmptiedFacts DEF TextKinds, V
  <2>2. b \in [1..Len(tokens) -> {b[j] : j \in DOMAIN b}]
    BY <1>1, EmptiedFacts DEF Emptied
  <2> HIDE DEF b
  <2>3. IsSequence(b)
    <3>1. ASSUME NEW S, NEW m \in Nat, NEW q \in [1..m -> S]
          PROVE  q \in Seq(S)
      BY <3>1
    <3> QED BY <1>1, <2>2, <3>1 DEF IsSequence
  <2> QED BY <2>1, <2>3
<1> HIDE DEF b
<1>5. ASSUME NEW j \in Nat, j >= 1, i # j
       PROVE  SafeToken(b, j) = SafeToken(tokens, j)
  BY <1>1, <1>5 DEF SafeToken
<1>6. ~Raising(NoXyz)
  BY DEF NoXyz, Raising, Raises, Missing, V
<1>7. CASE type = "display"
  <2> DEFINE x(t) == ExtractXyzFromTokens(t, 6)
             line(t) == Line(t, 5, 2, x(t), NoGeo, 5, "display")
             shown(t) == IF IsEvent(line(t)) /\ IsMissing(x(t)[1])
                           THEN [line(t) EXCEPT !.area = SafeToken(t, 7)] ELSE line(t)
             fields == {"tag", "ts", "xyz", "geo", "layer", "area", "status",
                        "origin", "source", "warned"}
  <2>1. e = shown(tokens)
    BY <1>2, <1>7 DEF ParseLine, ParseDisplay
  <2>2. IsEvent(line(tokens))
    BY <2>1
  <2>3. ~Raising(x(b))
    BY <1>4, CoordinatesAreRead
  <2>4. /\ IsEvent(line(b)) /\ line(b).ts = line(tokens).ts /\ line(b).xyz = x(b)
        /\ line(tokens).xyz = x(tokens) /\ line(b).geo = NoGeo /\ line(tokens).geo = NoGeo
        /\ line(b).area = Missing /\ line(tokens).area = Missing
        /\ line(b).status = Missing /\ line(tokens).status = Missing
        /\ DOMAIN line(tokens) = fields /\ DOMAIN line(b) = fields
        /\ i # 2 => line(b).tag = line(tokens).tag
        /\ i # 5 => line(b).layer = line(tokens).layer
        /\ Len(tokens) >= 5 /\ ~IsMissing(ParseInt(tokens[4]))
    <3> HIDE DEF x
    <3> QED BY <2>2, <2>3, LineKeeps DEF b
  <2>5. f = shown(b)
    BY <1>1, <1>3, <1>7, <2>4 DEF ParseLine, ParseDisplay
  <2>6. i < 6 => x(b) = x(tokens)
    BY CoordinatesKeep DEF b
  <2>7. i < 6 => SafeToken(b, 7) = SafeToken(tokens, 7)
    BY <1>1, <1>5
  <2>8. ASSUME NEW t \in {tokens, b}
        PROVE  /\ shown(t).ts = line(t).ts /\ shown(t).tag = line(t).tag
               /\ shown(t).layer = line(t).layer /\ shown(t).xyz = line(t).xyz
               /\ shown(t).geo = line(t).geo /\ shown(t).status = line(t).status
               /\ shown(t).area = IF IsMissing(x(t)[1]) THEN SafeToken(t, 7) ELSE Missing
               /\ IsEvent(shown(t))
    <3> HIDE DEF line, x, fields
    <3>1. DOMAIN line(t) = fields /\ IsEvent(line(t)) /\ line(t).area = Missing
      <4>1. CASE t = tokens
        BY <2>2, <2>4, <4>1
      <4>2. CASE t = b
        BY <2>4, <4>2
      <4> QED BY <2>8, <4>1, <4>2
    <3> USE DEF fields
    <3> QED BY <3>1 DEF IsEvent
  <2> HIDE DEF line, x, shown, e, f
  <2>9. /\ IsEvent(f) /\ f.ts = e.ts /\ f.geo = e.geo /\ f.status = e.status
        /\ i # 2 => f.tag = e.tag
        /\ i # 5 => f.layer = e.layer
    BY <2>1, <2>4, <2>5, <2>8
  <2>10. i < 6 => f.xyz = e.xyz /\ f.area = e.area
    BY <2>1, <2>4, <2>5, <2>6, <2>7, <2>8
  <2> QED BY <1>7, <2>9, <2>10 DEF b, e, f
<1>8. CASE type = "status1"
  <2> DEFINE line(t) == Line(t, 6, 3, NoXyz, NoGeo, 6, "status1")
             shown(t) == IF IsEvent(line(t)) THEN [line(t) EXCEPT !.status = SafeToken(t, 8)]
                                             ELSE line(t)
             fields == {"tag", "ts", "xyz", "geo", "layer", "area", "status",
                        "origin", "source", "warned"}
  <2>1. e = shown(tokens)
    BY <1>2, <1>8 DEF ParseLine, ParseStatus1
  <2>2. IsEvent(line(tokens))
    BY <2>1
  <2>3. /\ IsEvent(line(b)) /\ line(b).ts = line(tokens).ts /\ line(b).xyz = NoXyz
        /\ line(tokens).xyz = NoXyz /\ line(b).geo = NoGeo /\ line(tokens).geo = NoGeo
        /\ line(b).area = Missing /\ line(tokens).area = Missing
        /\ DOMAIN line(tokens) = fields /\ DOMAIN line(b) = fields
        /\ i # 3 => line(b).tag = line(tokens).tag
        /\ i # 6 => line(b).layer = line(tokens).layer
        /\ Len(tokens) >= 6 /\ ~IsMissing(ParseInt(tokens[4]))
    BY <1>6, <2>2, LineKeeps DEF b
  <2>4. f = shown(b)
    BY <1>1, <1>3, <1>8, <2>3 DEF ParseLine, ParseStatus1
  <2>5. i # 8 => SafeToken(b, 8) = SafeToken(tokens, 8)
    BY <1>1, <1>5
  <2>6. ASSUME NEW t \in {tokens, b}
        PROVE  /\ shown(t).ts = line(t).ts /\ shown(t).tag = line(t).tag
               /\ shown(t).layer = line(t).layer /\ shown(t).xyz = line(t).xyz
               /\ shown(t).geo = line(t).geo /\ shown(t).area = line(t).area
               /\ shown(t).status = SafeToken(t, 8)
               /\ IsEvent(shown(t))
    <3> HIDE DEF line, fields
    <3>1. DOMAIN line(t) = fields /\ IsEvent(line(t))
      <4>1. CASE t = tokens
        BY <2>2, <2>3, <4>1
      <4>2. CASE t = b
        BY <2>3, <4>2
      <4> QED BY <2>6, <4>1, <4>2
    <3> USE DEF fields
    <3> QED BY <3>1 DEF IsEvent
  <2> HIDE DEF line, shown, e, f
  <2>7. /\ IsEvent(f) /\ f.ts = e.ts /\ f.geo = e.geo /\ f.area = e.area /\ f.xyz = e.xyz
        /\ i # 3 => f.tag = e.tag
        /\ i # 6 => f.layer = e.layer
        /\ i # 8 => f.status = e.status
    BY <2>1, <2>3, <2>4, <2>5, <2>6
  <2> QED BY <1>8, <2>7 DEF b, e, f
<1>9. CASE type = "status2"
  <2>1. e = Line(tokens, 4, 2, NoXyz, NoGeo, 5, "status2")
    BY <1>2, <1>9 DEF ParseLine, ParseStatus2
  <2> DEFINE l == Line(b, 4, 2, NoXyz, NoGeo, 5, "status2")
  <2>2. /\ IsEvent(l) /\ l.ts = e.ts /\ l.xyz = NoXyz
        /\ e.xyz = NoXyz /\ l.geo = NoGeo /\ e.geo = NoGeo
        /\ l.area = Missing /\ e.area = Missing /\ l.status = Missing /\ e.status = Missing
        /\ i # 2 => l.tag = e.tag
        /\ i # 5 => l.layer = e.layer
        /\ Len(tokens) >= 4 /\ ~IsMissing(ParseInt(tokens[4]))
    BY <1>6, <2>1, LineKeeps DEF b
  <2>3. f = l
    BY <1>1, <1>3, <1>9, <2>2 DEF ParseLine, ParseStatus2
  <2> HIDE DEF l, e, f
  <2> QED BY <1>9, <2>2, <2>3 DEF b, e, f
<1>10. CASE type = "gpsposi"
  <2> DEFINE geo(t) == <<ParseFloat(t[6]), ParseFloat(t[7])>>
             z(t)   == IF Len(t) < 8 THEN Missing ELSE ParseFloat(t[8])
             xyz(t) == <<Missing, Missing, z(t)>>
             line(t) == Line(t, 7, 2, xyz(t), geo(t), 5, "gpsposi")
  <2>1. e = ParseGpsposi(tokens)
    BY <1>2, <1>10 DEF ParseLine
  <2>2. /\ e = line(tokens)
        /\ ~(Len(tokens) >= 7 /\ (IsMissing(ParseFloat(tokens[6])) \/ IsMissing(ParseFloat(tokens[7]))))
    BY <1>0, <2>1 DEF ParseGpsposi
  <2>3. ASSUME NEW other, ~Raising(other)
        PROVE  LET l == Line(b, 7, 2, other, geo(tokens), 5, "gpsposi")
               IN  /\ IsEvent(l) /\ l.ts = e.ts /\ l.xyz = other
                   /\ e.xyz = xyz(tokens) /\ l.geo = geo(tokens) /\ e.geo = geo(tokens)
                   /\ l.area = Missing /\ e.area = Missing
                   /\ l.status = Missing /\ e.status = Missing
                   /\ i # 2 => l.tag = e.tag
                   /\ i # 5 => l.layer = e.layer
                   /\ Len(tokens) >= 7 /\ ~IsMissing(ParseInt(tokens[4]))
    <3> HIDE DEF geo, xyz
    <3> QED BY <2>2, <2>3, LineKeeps DEF b
  <2>4. Len(tokens) >= 7
    BY <1>6, <2>3
  <2>5. b[6] = tokens[6] /\ b[7] = tokens[7] /\ geo(b) = geo(tokens)
    BY <1>1, <1>10, <2>4
  <2>6. i < 6 => z(b) = z(tokens)
    BY <1>1
  <2>7. ParseGpsposi(b) = line(b)
    BY <1>1, <2>2, <2>5 DEF ParseGpsposi
  <2>8. f = line(b)
    <3>1. Len(tokens) >= 4 /\ ~IsMissing(ParseInt(tokens[4]))
      BY <1>1, <1>6, <2>3, <2>4
    <3> QED BY <1>1, <1>3, <1>10, <2>7, <3>1 DEF ParseLine
  <2>9. f = Line(b, 7, 2, xyz(b), geo(tokens), 5, "gpsposi")
    BY <2>5, <2>8
  <2>10. i < 6 => xyz(b) = xyz(tokens)
    BY <2>6
  <2>11. ~Raising(xyz(b))
    <3>1. z(b) # Raises
      BY <1>1, <1>4, TextsAreRead DEF Missing, Raises, V
    <3> HIDE DEF z
    <3> QED BY <3>1 DEF Raising, Missing, Raises, V
  <2> HIDE DEF geo, z, xyz, line, e, f
  <2> QED BY <1>10, <2>3, <2>9, <2>10, <2>11 DEF b, e, f
<1>11. type \in {"display", "status1", "status2", "gpsposi"}
  BY <1>0, <1>2 DEF ParseLine
<1> QED BY <1>7, <1>8, <1>9, <1>10, <1>11

(* Fields of a line stand at fixed places: an empty token takes away its own *)
(* field and moves no other (parse_message and the four _parse_<type>).      *)
THEOREM PlacesTheorem == Spec => []FieldsKeepTheirPlace
<1>1. EventIsDecoded => FieldsKeepTheirPlace
  <2> SUFFICES ASSUME EventIsDecoded, datagram.form = "line", Decoded
               PROVE  FieldsKeepTheirPlace
    BY DEF FieldsKeepTheirPlace
  <2> DEFINE type == datagram.type
             tokens == datagram.tokens
  <2>1. IsSequence(tokens) /\ \A j \in DOMAIN tokens : tokens[j].kind \in TextKinds
    BY DecoderAssumption DEF EventIsDecoded
  <2>2. event = ParseLine(type, tokens)
    <3>1. event = ProcessDatagram(datagram, Now)
      BY DEF EventIsDecoded, Decoded, IsEvent, Declined
    <3>2. NormalizeJsonPayload(datagram, Now) = Raised /\ ~IsEvent(Raised) /\ Raised # Declined
      BY DEF NormalizeJsonPayload, IsEvent, Raised, Declined
    <3>3. TryParseLs1000(datagram) = ParseLine(type, tokens)
      BY DEF TryParseLs1000
    <3>4. IsEvent(ProcessDatagram(datagram, Now))
      BY <3>1 DEF Decoded
    <3> QED BY <3>1, <3>2, <3>3, <3>4 DEF ProcessDatagram
  <2>3. IsEvent(ParseLine(type, tokens))
    BY <2>2 DEF Decoded
  <2> HIDE DEF type, tokens
  <2>4. \A i \in DOMAIN tokens \ (IF type = "gpsposi" THEN {4, 6, 7} ELSE {4}) :
           LET f == ParseLine(type, Emptied(tokens, i))
           IN  /\ IsEvent(f) /\ f.ts = event.ts
               /\ i # (IF type = "status1" THEN 3 ELSE 2) => f.tag = event.tag
               /\ i # (IF type = "status1" THEN 6 ELSE 5) => f.layer = event.layer
               /\ i < 6 => f.xyz = event.xyz
               /\ f.geo = event.geo
               /\ i < 6 => f.area = event.area
               /\ i # 8 => f.status = event.status
    BY <2>1, <2>2, <2>3, LinePlaces
  <2> QED BY <2>4 DEF FieldsKeepTheirPlace, Emptied, type, tokens
<1> QED BY <1>1, DecodedTheorem, PTL
==============================================================================
