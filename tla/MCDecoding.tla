------------------------------ MODULE MCDecoding -----------------------------
(* Every datagram of a bounded family is decoded once.  Values are chosen so *)
(* that a coordinate tells where it came from: 1..3 stands in a nested       *)
(* position, 4..6 at the top level, 7 and 8 in tokens.                       *)
EXTENDS Decoder, TLC

(* Objects: each key is there or not, with readings of every kind.           *)
Part(key, values) ==
    {(key :> v) : v \in values} \cup {[k \in {} |-> Missing]}

Join(A, B) == {a @@ b : a \in A, b \in B}

Nested ==
    Join(Join(Part("x", {V("number", 1), V("text", 0), V("huge", 1)}),
              Part("y", {V("integer", 2)})),
         Join(Part("z", {V("whole", 3), V("huge", 3)}),
              Part("rgn", {V("integer", 9), V("surrogate", 9)})))

TopLevel ==
    Join(Join(Part("x", {V("digits", 4), V("huge", 4)}), Part("y", {V("decimal", 5)})),
         Part("z", {V("huge_digits", 6)}))

Names ==
    Join(Part("area", {V("text", 36), V("blank", 0)}),
         Join(Part("rgn", {V("integer", 37), V("blank", 0)}), Part("status", {V("huge", 38)})))

Identity ==
    Join(Part("tag_id", {V("blank", 0), V("digits", 11)}),
         Part("devid", {V("text", 12), Missing}))

Time ==
    Join(Part("timestamp", {V("date", 20), V("integer", 21), V("hex", 22), V("nan", 0)}),
         Part("ts_utc_ms", {V("boolean", 1), V("digits", 23), V("decimal", 24)}))

SomeTag  == "devid" :> V("text", 12)
SomeTime == "timestamp" :> V("integer", 21)

Extras ==
    Join(Part("seq", {V("integer", 30)}),
         Join(Part("samples", {V("list", 0)}),
              Join(Part("layer", {V("hex", 31), V("number", 32)}),
                   Part("traceparent", {V("text", 33)}))))

Positions == Part("position", {V("object", n) : n \in Nested} \cup {V("text", 34)})

(* All identities and times with two positions, all positions with all       *)
(* coordinates at the top level, all names, and objects near the schema.     *)
Objects ==
    LET whole == {p \in Positions :
                    \/ DOMAIN p = {}
                    \/ p["position"].kind = "object"
                         /\ DOMAIN p["position"].val = {"rgn", "x", "y", "z"}
                         /\ p["position"].val["rgn"].kind = "integer"}
    IN  Join(Join(Identity, Time), Join(Extras, whole))
        \cup Join({SomeTag @@ SomeTime}, Join(Positions, TopLevel))
        \cup Join({SomeTag @@ SomeTime}, Names)
        \cup Join({SomeTag @@ "timestamp" :> V("date", 20)
                    @@ "seq" :> V("whole", 30) @@ "samples" :> V("list", 0)},
                  Join(Positions,
                       Join(Join(Part("lat", {V("number", 7), V("huge", 7)}),
                                 Part("lng", {V("nan", 0)})),
                            Join(Part("traceparent", {V("text", 33)}),
                                 Part("tracestate", {V("text", 35)})))))

(* Lines: up to eight tokens, each of them empty or of the kinds it can have.*)
TokenKinds ==
    << {V("digits", 40)},
       {V("text", 12), V("blank", 0)},
       {V("text", 41), V("blank", 0)},
       {V("digits", 20), V("hex", 21), V("date", 20), V("blank", 0)},
       {V("digits", 32), V("blank", 0)},
       {V("decimal", 7), V("packed", 8), V("date", 8), V("text", 0), V("blank", 0)},
       {V("digits", 7), V("text", 0), V("blank", 0)},
       {V("decimal", 7), V("nan_text", 0), V("blank", 0)} >>

Extended(lines, i) == {Append(line, v) : line \in lines, v \in TokenKinds[i]}

FourTokens == Extended(Extended(Extended(Extended({<<>>}, 1), 2), 3), 4)
FiveTokens == Extended(FourTokens, 5)
SixTokens  == Extended(FiveTokens, 6)
TokenLists ==
    LET seven == Extended(SixTokens, 7)
    IN  {<<>>, <<V("blank", 0)>>} \cup FourTokens \cup FiveTokens \cup SixTokens
        \cup seven \cup Extended(seven, 8)

Types == {"display", "status1", "status2", "gpsposi", "warning"}

AllDatagrams ==
    {[form |-> "object", fields |-> obj] : obj \in Objects}
    \cup {[form |-> "line", type |-> type, tokens |-> tokens] :
            type \in Types, tokens \in TokenLists}
    \cup {[form |-> "bytes"], [form |-> "other"]}
==============================================================================
