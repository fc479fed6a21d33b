---------------------------- MODULE DecodingProofs ---------------------------
(****************************************************************************)
(* Facts about the operators of Decoding, for every object and every line.  *)
(****************************************************************************)
EXTENDS Decoding, TLAPS

(* A reading that is missing is None itself.                                 *)
LEMMA MissingReadings ==
    ASSUME NEW v
    PROVE  /\ IsMissing(ParseInt(v)) => ParseInt(v) = Missing
           /\ IsMissing(NormalizerInt(v)) => NormalizerInt(v) = Missing
           /\ IsMissing(ParseFloat(v)) => ParseFloat(v) = Missing
BY DEF IsMissing, ParseInt, NormalizerInt, ParseFloat, Missing, Raises, V

(* What is not there is read as None.                                        *)
LEMMA NothingRead ==
    /\ IsMissing(Missing)
    /\ ParseInt(Missing) = Missing /\ NormalizerInt(Missing) = Missing
    /\ ParseFloat(Missing) = Missing /\ Text(Missing) = Missing
BY DEF IsMissing, ParseInt, NormalizerInt, ParseFloat, Text, Missing, V

(* The first of no readings is none.                                         *)
LEMMA FirstOfNone ==
    ASSUME NEW r, \A i \in DOMAIN r : IsMissing(r[i])
    PROVE  FirstOf(r) = Missing
BY DEF FirstOf

(* A single reading is the first one.                                        *)
LEMMA FirstOfSingle ==
    ASSUME NEW r, NEW k \in DOMAIN r, k \in Int,
           \A i \in DOMAIN r : i # k => IsMissing(r[i]),
           ~IsMissing(r[k])
    PROVE  FirstOf(r) = r[k]
<1>1. {i \in DOMAIN r : ~IsMissing(r[i])} = {k}
  OBVIOUS
<1>2. Min({k}) = k
  BY DEF Min
<1> QED BY <1>1, <1>2 DEF FirstOf
------------------------------------------------------------------------------
(* What the schema guarantees of an object.                                  *)
LEMMA ConformingFacts ==
    ASSUME NEW obj, Validated(obj)
    PROVE  /\ DOMAIN obj \subseteq {"devid", "seq", "timestamp", "samples", "position", "lat", "lng"}
           /\ {"devid", "seq", "timestamp", "samples", "position"} \subseteq DOMAIN obj
           /\ obj["devid"].kind \in {"text", "digits", "decimal"}
           /\ obj["timestamp"].kind = "date"
           /\ obj["samples"].kind = "list" /\ obj["position"].kind = "object"
           /\ \A key \in {"x", "y", "z"} :
                /\ key \in DOMAIN obj["position"].val
                /\ obj["position"].val[key].kind \in NumberKinds
<1>1. DOMAIN Schema = {"devid", "seq", "timestamp", "samples", "position", "lat", "lng"}
  BY DEF Schema
<1>2. Conforms(obj, Schema, {"lat", "lng"})
  BY DEF Validated
<1>3. /\ DOMAIN obj \subseteq DOMAIN Schema
      /\ DOMAIN Schema \ {"lat", "lng"} \subseteq DOMAIN obj
      /\ \A key \in DOMAIN obj : obj[key].kind \in Schema[key]
  BY <1>2 DEF Conforms
<1>4. {"devid", "seq", "timestamp", "samples", "position"} \subseteq DOMAIN obj
  BY <1>1, <1>3
<1>5. /\ Schema["devid"] = {"text", "digits", "decimal"} /\ Schema["timestamp"] = {"date"}
      /\ Schema["samples"] = {"list"} /\ Schema["position"] = {"object"}
  BY DEF Schema
<1>6. /\ obj["devid"].kind \in {"text", "digits", "decimal"}
      /\ obj["timestamp"].kind = "date"
      /\ obj["samples"].kind = "list" /\ obj["position"].kind = "object"
  BY <1>3, <1>4, <1>5
<1>7. DOMAIN PositionSchema = {"rgn", "x", "y", "z"}
  BY DEF PositionSchema
<1>8. \A key \in {"x", "y", "z"} : PositionSchema[key] = NumberKinds
  BY DEF PositionSchema
<1>9. Conforms(obj["position"].val, PositionSchema, {})
  BY DEF Validated
<1>10. /\ DOMAIN PositionSchema \subseteq DOMAIN obj["position"].val
       /\ \A key \in DOMAIN obj["position"].val :
            obj["position"].val[key].kind \in PositionSchema[key]
  BY <1>9 DEF Conforms
<1>11. \A key \in {"x", "y", "z"} :
          /\ key \in DOMAIN obj["position"].val
          /\ obj["position"].val[key].kind \in NumberKinds
  BY <1>7, <1>8, <1>10
<1> QED BY <1>1, <1>3, <1>4, <1>6, <1>11

(* The trace context changes no key but its own.                             *)
LEMMA StripFacts ==
    ASSUME NEW obj
    PROVE  /\ DOMAIN StripTrace(obj) = DOMAIN obj \ TraceKeys
           /\ \A key : key \notin TraceKeys => Get(StripTrace(obj), key) = Get(obj, key)
           /\ \A key \in DOMAIN obj \ TraceKeys : StripTrace(obj)[key] = obj[key]
BY DEF StripTrace, Get

(* The keys that are looked at, by place.                                    *)
LEMMA KeyFacts ==
    /\ DOMAIN TagKeys = 1..5 /\ DOMAIN TimeKeys = 1..3 /\ DOMAIN LayerKeys = 1..3
    /\ DOMAIN LngKeys = 1..3 /\ DOMAIN LatKeys = 1..2
    /\ TagKeys[1] = "tag_id" /\ TagKeys[2] = "devid" /\ TagKeys[3] = "dev_id"
    /\ TagKeys[4] = "tag" /\ TagKeys[5] = "id"
    /\ TimeKeys[1] = "ts_utc_ms" /\ TimeKeys[2] = "timestamp" /\ TimeKeys[3] = "ts"
    /\ LayerKeys[1] = "layer" /\ LayerKeys[2] = "layid" /\ LayerKeys[3] = "floor"
    /\ LngKeys[1] = "lng" /\ LngKeys[2] = "lon" /\ LngKeys[3] = "longitude"
    /\ LatKeys[1] = "lat" /\ LatKeys[2] = "latitude"
BY DEF TagKeys, TimeKeys, LayerKeys, LngKeys, LatKeys

(* An object that conforms to the schema but for a trace context.            *)
IsMessage(obj) ==
    /\ DOMAIN obj \subseteq {"devid", "seq", "timestamp", "samples", "position", "lat", "lng"}
                             \cup TraceKeys
    /\ {"devid", "seq", "timestamp", "samples", "position"} \subseteq DOMAIN obj
    /\ obj["devid"].kind \in {"text", "digits", "decimal"}
    /\ obj["timestamp"].kind = "date"
    /\ obj["samples"].kind = "list" /\ obj["position"].kind = "object"
    /\ \A key \in {"x", "y", "z"} :
          /\ key \in DOMAIN obj["position"].val
          /\ obj["position"].val[key].kind \in NumberKinds

(* Both the datagram's object and what is left without the trace are such.   *)
LEMMA BothAreMessages ==
    ASSUME NEW obj, Validated(StripTrace(obj))
    PROVE  IsMessage(obj) /\ IsMessage(StripTrace(obj))
<1> DEFINE o == StripTrace(obj)
<1>1. /\ DOMAIN o \subseteq {"devid", "seq", "timestamp", "samples", "position", "lat", "lng"}
      /\ {"devid", "seq", "timestamp", "samples", "position"} \subseteq DOMAIN o
      /\ o["devid"].kind \in {"text", "digits", "decimal"}
      /\ o["timestamp"].kind = "date"
      /\ o["samples"].kind = "list" /\ o["position"].kind = "object"
      /\ \A key \in {"x", "y", "z"} :
           /\ key \in DOMAIN o["position"].val
           /\ o["position"].val[key].kind \in NumberKinds
  BY ConformingFacts
<1>2. /\ DOMAIN o = DOMAIN obj \ TraceKeys
      /\ \A key \in DOMAIN obj \ TraceKeys : o[key] = obj[key]
  BY StripFacts
<1> HIDE DEF o
<1>3. IsMessage(o)
  BY <1>1 DEF IsMessage
<1>4. \A key \in DOMAIN o : key \in DOMAIN obj /\ obj[key] = o[key]
  BY <1>2
<1>5. /\ obj["devid"] = o["devid"] /\ obj["timestamp"] = o["timestamp"]
      /\ obj["samples"] = o["samples"] /\ obj["position"] = o["position"]
      /\ {"devid", "seq", "timestamp", "samples", "position"} \subseteq DOMAIN obj
  BY <1>1, <1>4
<1>6. DOMAIN obj \subseteq DOMAIN o \cup TraceKeys
  BY <1>2
<1>7. IsMessage(obj)
  BY <1>1, <1>5, <1>6 DEF IsMessage
<1> QED BY <1>3, <1>7 DEF o

(* What the lookups find in one: the devid, no timestamp, no layer.          *)
LEMMA MessageReadings ==
    ASSUME NEW obj, IsMessage(obj)
    PROVE  /\ FirstStr(obj, TagKeys) = obj["devid"] /\ ~IsMissing(obj["devid"])
           /\ FirstInt(obj, TimeKeys) = Missing
           /\ NormalizerFirstInt(obj, TimeKeys) = Missing
           /\ NormalizerFirstInt(obj, LayerKeys) = Missing
           /\ FirstFloat(obj, LngKeys) = ParseFloat(Get(obj, "lng"))
           /\ FirstFloat(obj, LatKeys) = ParseFloat(Get(obj, "lat"))
           /\ FirstStr(obj, <<"area", "rgn">>) = Missing
           /\ FirstStr(obj, <<"status">>) = Missing
<1>0. \A key \in {"tag_id", "dev_id", "tag", "id", "ts_utc_ms", "ts", "layer", "layid", "floor",
                  "lon", "longitude", "latitude", "area", "rgn", "status"} : Get(obj, key) = Missing
  BY DEF IsMessage, Get, TraceKeys
<1>1. FirstStr(obj, TagKeys) = obj["devid"] /\ ~IsMissing(obj["devid"])
  <2> DEFINE r == [i \in DOMAIN TagKeys |-> Text(Get(obj, TagKeys[i]))]
  <2>1. Get(obj, "devid") = obj["devid"] /\ obj["devid"].kind \in {"text", "digits", "decimal"}
    BY DEF IsMessage, Get
  <2>2. Text(obj["devid"]) = obj["devid"] /\ ~IsMissing(obj["devid"])
    BY <2>1 DEF Text, IsMissing
  <2>3. \A i \in {1, 3, 4, 5} : Get(obj, TagKeys[i]) = Missing
    BY <1>0, KeyFacts
  <2>4. /\ DOMAIN r = 1..5 /\ r[2] = obj["devid"]
        /\ \A i \in {1, 3, 4, 5} : r[i] = Missing
    BY <2>1, <2>2, <2>3, KeyFacts, NothingRead
  <2> HIDE DEF r
  <2>5. \A i \in DOMAIN r : i # 2 => IsMissing(r[i])
    BY <2>4, NothingRead
  <2>6. FirstOf(r) = r[2]
    BY <2>2, <2>4, <2>5, FirstOfSingle
  <2> QED BY <2>2, <2>4, <2>6 DEF FirstStr, r
<1>2. /\ ParseInt(Get(obj, "timestamp")) = Missing
      /\ NormalizerInt(Get(obj, "timestamp")) = Missing
  BY DEF IsMessage, Get, ParseInt, NormalizerInt
<1>3. \A i \in 1..3 : /\ ParseInt(Get(obj, TimeKeys[i])) = Missing
                      /\ NormalizerInt(Get(obj, TimeKeys[i])) = Missing
                      /\ NormalizerInt(Get(obj, LayerKeys[i])) = Missing
  BY <1>0, <1>2, KeyFacts, NothingRead
<1>4. FirstInt(obj, TimeKeys) = Missing
  BY <1>3, KeyFacts, NothingRead, FirstOfNone DEF FirstInt
<1>5. NormalizerFirstInt(obj, TimeKeys) = Missing
  BY <1>3, KeyFacts, NothingRead, FirstOfNone DEF NormalizerFirstInt
<1>6. NormalizerFirstInt(obj, LayerKeys) = Missing
  BY <1>3, KeyFacts, NothingRead, FirstOfNone DEF NormalizerFirstInt
<1>7. ASSUME NEW keys, NEW n \in Nat, DOMAIN keys = 1..n, 1 \in 1..n,
             \A i \in 1..n : i # 1 => Get(obj, keys[i]) = Missing
      PROVE  FirstFloat(obj, keys) = ParseFloat(Get(obj, keys[1]))
  <2> DEFINE r == [i \in DOMAIN keys |-> ParseFloat(Get(obj, keys[i]))]
  <2>1. /\ DOMAIN r = 1..n /\ 1 \in DOMAIN r /\ r[1] = ParseFloat(Get(obj, keys[1]))
        /\ \A i \in DOMAIN r : i # 1 => r[i] = Missing
    BY <1>7, NothingRead
  <2>2. FirstFloat(obj, keys) = FirstOf(r)
    BY DEF FirstFloat
  <2> HIDE DEF r
  <2>3. \A i \in DOMAIN r : i # 1 => IsMissing(r[i])
    BY <2>1, NothingRead
  <2>4. CASE IsMissing(r[1])
    <3>1. FirstOf(r) = Missing
      BY <2>3, <2>4, FirstOfNone
    <3> QED BY <2>1, <2>2, <2>4, <3>1, MissingReadings
  <2>5. CASE ~IsMissing(r[1])
    BY <2>1, <2>2, <2>3, <2>5, FirstOfSingle
  <2> QED BY <2>4, <2>5
<1>8. FirstFloat(obj, LngKeys) = ParseFloat(Get(obj, "lng"))
  <2>1. \A i \in 1..3 : i # 1 => Get(obj, LngKeys[i]) = Missing
    BY <1>0, KeyFacts
  <2>2. DOMAIN LngKeys = 1..3 /\ 1 \in 1..3 /\ 3 \in Nat
    BY KeyFacts
  <2>3. FirstFloat(obj, LngKeys) = ParseFloat(Get(obj, LngKeys[1]))
    BY <1>7, <2>1, <2>2
  <2> QED BY <2>3, KeyFacts
<1>9. FirstFloat(obj, LatKeys) = ParseFloat(Get(obj, "lat"))
  <2>1. \A i \in 1..2 : i # 1 => Get(obj, LatKeys[i]) = Missing
    BY <1>0, KeyFacts
  <2>2. DOMAIN LatKeys = 1..2 /\ 1 \in 1..2 /\ 2 \in Nat
    BY KeyFacts
  <2>3. FirstFloat(obj, LatKeys) = ParseFloat(Get(obj, LatKeys[1]))
    BY <1>7, <2>1, <2>2
  <2> QED BY <2>3, KeyFacts
<1>10. FirstStr(obj, <<"area", "rgn">>) = Missing
  <2> DEFINE keys == <<"area", "rgn">>
  <2>1. DOMAIN keys = 1..2 /\ \A i \in 1..2 : Get(obj, keys[i]) = Missing
    BY <1>0
  <2> HIDE DEF keys
  <2>2. FirstStr(obj, keys) = Missing
    BY <2>1, NothingRead, FirstOfNone DEF FirstStr
  <2> QED BY <2>2 DEF keys
<1>11. FirstStr(obj, <<"status">>) = Missing
  <2> DEFINE keys == <<"status">>
  <2>1. DOMAIN keys = 1..1 /\ \A i \in 1..1 : Get(obj, keys[i]) = Missing
    BY <1>0
  <2> HIDE DEF keys
  <2>2. FirstStr(obj, keys) = Missing
    BY <2>1, NothingRead, FirstOfNone DEF FirstStr
  <2> QED BY <2>2 DEF keys
<1> QED BY <1>1, <1>4, <1>5, <1>6, <1>8, <1>9, <1>10, <1>11

(* The nested position of one has all its coordinates.                       *)
LEMMA MessageXyz ==
    ASSUME NEW obj, IsMessage(obj)
    PROVE  ExtractXyz(obj) = Xyz(obj["position"].val)
<1>1. Get(obj, "position") = obj["position"] /\ obj["position"].kind = "object"
  BY DEF IsMessage, Get
<1> DEFINE p == obj["position"].val
<1>2. Get(p, "x") = p["x"] /\ p["x"].kind \in NumberKinds
  BY DEF IsMessage, Get
<1> HIDE DEF p
<1>3. ~IsMissing(ParseFloat(p["x"]))
  BY <1>2 DEF ParseFloat, IsMissing, V, NumberKinds, Raises
<1>4. Xyz(p)[1] = ParseFloat(p["x"])
  BY <1>2 DEF Xyz
<1>5. Xyz(p) # NoXyz
  BY <1>3, <1>4, NothingRead DEF NoXyz
<1> QED BY <1>1, <1>5 DEF ExtractXyz, p

(* float() raises only for an integer that is too large.                     *)
LEMMA RaisingFloats ==
    ASSUME NEW v
    PROVE  ParseFloat(v) = Raises <=> v.kind = "huge"
BY DEF ParseFloat, Raises, Missing, V

(* A conforming message becomes an event of its devid at its own             *)
(* coordinates, with or without a trace context, unless one of them is too   *)
(* large; it has neither area nor status.                                    *)
LEMMA MessageIsDecoded ==
    ASSUME NEW d, NEW now, d.form = "object", Validated(StripTrace(d.fields))
    PROVE  LET e == ProcessDatagram(d, now) IN
           /\ e # Declined
           /\ CoordinatesFit(d.fields) =>
                /\ IsEvent(e)
                /\ e.tag = d.fields["devid"]
                /\ e.tag.kind \in {"text", "digits", "decimal"}
                /\ e.xyz = Xyz(d.fields["position"].val)
                /\ e.geo = <<ParseFloat(Get(d.fields, "lng")), ParseFloat(Get(d.fields, "lat"))>>
                /\ e.area = Missing /\ e.status = Missing
           /\ ~CoordinatesFit(d.fields) => e = Raised
<1> DEFINE obj == d.fields
           o == StripTrace(obj)
           e == Normalize(o, now)
           xyz == Xyz(o["position"].val)
           geo == <<ParseFloat(Get(o, "lng")), ParseFloat(Get(o, "lat"))>>
           full == [tag |-> o["devid"], ts |-> V("integer", now), xyz |-> xyz, geo |-> geo,
                    layer |-> Missing, area |-> Missing, status |-> Missing,
                    origin |-> ConfiguredOrigin, source |-> "json", warned |-> IsMissing(Missing)]
<1>1. IsMessage(obj) /\ IsMessage(o)
  BY BothAreMessages
<1>2. ParseJson(obj) = Declined
  BY <1>1, MessageReadings, NothingRead DEF ParseJson
<1>3. NormalizeJsonPayload(d, now) = e
  BY DEF NormalizeJsonPayload
<1>4. TryParseLs1000(d) = Declined
  BY <1>2 DEF TryParseLs1000
<1>5. /\ o["devid"] = obj["devid"] /\ o["position"] = obj["position"]
      /\ Get(o, "lng") = Get(obj, "lng") /\ Get(o, "lat") = Get(obj, "lat")
  BY <1>1, StripFacts DEF IsMessage, TraceKeys
<1>6. e = Event(full)
  <2> HIDE DEF o
  <2>1. /\ FirstStr(o, TagKeys) = o["devid"] /\ ~IsMissing(o["devid"])
        /\ NormalizerFirstInt(o, TimeKeys) = Missing
        /\ NormalizerFirstInt(o, LayerKeys) = Missing
        /\ FirstFloat(o, LngKeys) = ParseFloat(Get(o, "lng"))
        /\ FirstFloat(o, LatKeys) = ParseFloat(Get(o, "lat"))
        /\ FirstStr(o, <<"area", "rgn">>) = Missing
        /\ FirstStr(o, <<"status">>) = Missing
    BY <1>1, MessageReadings
  <2>2. ExtractXyz(o) = xyz
    BY <1>1, MessageXyz
  <2> QED BY <2>1, <2>2, NothingRead DEF Normalize
<1>7. Raises \notin {V("integer", now), Missing}
  BY DEF Raises, Missing, V
<1>8. Raises \in {xyz[1], xyz[2], xyz[3], geo[1], geo[2]} <=> ~CoordinatesFit(obj)
  <2> DEFINE p == obj["position"].val
  <2>1. \A key \in {"x", "y", "z"} : Get(p, key) = p[key]
    BY <1>1 DEF IsMessage, Get
  <2>2. /\ xyz[1] = ParseFloat(p["x"]) /\ xyz[2] = ParseFloat(p["y"])
        /\ xyz[3] = ParseFloat(p["z"])
    <3> HIDE DEF o, p
    <3>1. xyz = Xyz(p)
      BY <1>5 DEF p
    <3> QED BY <2>1, <3>1 DEF Xyz
  <2>3. geo[1] = ParseFloat(Get(obj, "lng")) /\ geo[2] = ParseFloat(Get(obj, "lat"))
    BY <1>5
  <2> HIDE DEF xyz, geo, o
  <2>4. CoordinatesFit(obj) <=> /\ \A key \in {"x", "y", "z"} : p[key].kind # "huge"
                               /\ Get(obj, "lng").kind # "huge" /\ Get(obj, "lat").kind # "huge"
    BY DEF CoordinatesFit
  <2> HIDE DEF p
  <2> QED BY <2>2, <2>3, <2>4, RaisingFloats
<1>9. e = IF CoordinatesFit(obj) THEN full ELSE Raised
  <2> HIDE DEF xyz, geo, o
  <2>1. /\ full.ts = V("integer", now) /\ full.layer = Missing
        /\ full.xyz = xyz /\ full.geo = geo
    OBVIOUS
  <2> HIDE DEF full
  <2> QED BY <1>6, <1>7, <1>8, <2>1 DEF Event
<1>10. IsEvent(full) /\ full # Declined /\ Raised # Declined
  BY DEF IsEvent, Declined, Raised
<1>11. ProcessDatagram(d, now) = e
  <2>1. e # Declined
    BY <1>9, <1>10
  <2> HIDE DEF e
  <2> QED BY <1>3, <1>4, <2>1 DEF ProcessDatagram
<1>12. full.tag.kind \in {"text", "digits", "decimal"}
  BY <1>1 DEF IsMessage
<1> HIDE DEF e
<1> QED BY <1>5, <1>9, <1>10, <1>11, <1>12
==============================================================================
