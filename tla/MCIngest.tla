------------------------------- MODULE MCIngest ------------------------------
(* A file with a sample object between a line that is no JSON and an object  *)
(* without a position, and at its end an object whose region cannot be       *)
(* encoded; a device that sends an object with such a tag, and a line.       *)
EXTENDS Ingest, TLC

SampleOf(rgn) ==
    [form |-> "object",
     fields |-> [devid     |-> T(1),
                 seq       |-> V("integer", 0),
                 timestamp |-> V("date", 10),
                 samples   |-> V("list", 0),
                 position  |-> V("object", [rgn |-> rgn,
                                            x |-> V("number", 1),
                                            y |-> V("number", 2),
                                            z |-> V("number", 3)])]]

Noise == [form |-> "other"]
Sample == SampleOf(V("integer", 3))
Unencodable == SampleOf(V("surrogate", 3))
Partial == [form |-> "object", fields |-> [devid |-> T(1)]]

DisplayLine ==
    [form |-> "line", type |-> "display",
     tokens |-> <<V("digits", 68), T(1), V("digits", 5), V("digits", 20),
                  V("digits", 2), V("decimal", 9), V("decimal", 3), V("decimal", 1)>>]

NamelessTag ==
    [form |-> "object", fields |-> [devid |-> V("surrogate", 1), ts |-> V("integer", 20)]]

File == <<Noise, Sample, Partial, Unencodable>>
TagAndLine == <<NamelessTag, DisplayLine>>

(* config/settings.yaml; every key with a default may be left out, and so    *)
(* may the sections that only have such keys.                                *)
Section(required, optional) ==
    {V("object", [key \in DOMAIN required \cup keys |->
                    IF key \in keys THEN optional[key] ELSE required[key]]) :
        keys \in SUBSET DOMAIN optional}

Nothing == [key \in {} |-> Missing]

Rabbit == [exchange_type |-> T("topic"), routing_key |-> T("rtls.events")]

Files(udpSections, brokerSections) ==
    {V("object", [validation |-> V("object", [schema_path |-> T("config")]),
                  logging    |-> V("object", [level |-> T("INFO"), format |-> T("")]),
                  udp_server |-> udp, broker |-> broker, rabbitmq |-> rabbit]) :
        udp \in udpSections, broker \in brokerSections,
        rabbit \in Section(Nothing, Rabbit) \cup {Missing}}

Address == [ip |-> T("0.0.0.0"), port |-> V("integer", 9999)]
WithTopic(topic) == Section(Address, [topic |-> topic])

(* An unquoted version is a number and refused.                              *)
SettingsFiles ==
    Files(WithTopic(T("rtls.events")) \cup WithTopic(V("blank", 0)),
          Section(Nothing, [envelope_version |-> T("1.0")]) \cup {Missing})
    \cup Files(WithTopic(T("rtls.events")), Section(Nothing, [envelope_version |-> V("number", 1)]))
    \cup Files(Section(Nothing, Address), {Missing})
==============================================================================
