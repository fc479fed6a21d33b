------------------------------- MODULE Config --------------------------------
(****************************************************************************)
(* core/config.py: what load_config makes of config/settings.yaml.  A YAML  *)
(* value is a kind and a content, as in Decoding; a section is an "object", *)
(* an empty text is "blank", and "missing" says that there is no such key.  *)
(* Connection strings and addresses are read, and can be refused, but take  *)
(* no part in what is decided later.                                        *)
(****************************************************************************)
EXTENDS Decoding

T(text) == V("text", text)

(* raw[path[1]][path[2]]...; a step into what is no mapping finds nothing.   *)
At(raw, path) ==
    LET walk[i \in 0..Len(path)] ==
            IF i = 0 THEN raw
            ELSE IF walk[i - 1].kind = "object" THEN Get(walk[i - 1].val, path[i])
            ELSE Missing
    IN  walk[Len(path)]

SameType(v, default) ==
    IF default.kind = "text" THEN v.kind \in {"text", "blank"}
                             ELSE v.kind \in {"integer", "boolean"}

(* _get_or_use_default: a key that is there must have the default's type.    *)
GetOrUseDefault(raw, path, default) ==
    LET v == At(raw, path)
    IN  IF IsMissing(v) THEN default ELSE IF SameType(v, default) THEN v ELSE Raises

(* raw_config[section][key]                                                  *)
Required(raw, path) == IF IsMissing(At(raw, path)) THEN Raises ELSE At(raw, path)

(* _build_validation_config: schema_path has no default.                     *)
SchemaPath(raw) ==
    LET v == At(raw, <<"validation", "schema_path">>)
    IN  IF SameType(v, T("")) THEN v ELSE Raises

(* _build_udp_server_config, _build_broker_config, _build_rabbitmq_config    *)
Topic(raw) == GetOrUseDefault(raw, <<"udp_server", "topic">>, T("rtls.events"))

EnvelopeVersion(raw) == GetOrUseDefault(raw, <<"broker", "envelope_version">>, T("1.0"))

(* Mutant: the default key of the binding is another than the topic's.       *)
RoutingKeyOther(raw) == GetOrUseDefault(raw, <<"rabbitmq", "routing_key">>, T("rtls"))

RoutingKey(raw) == GetOrUseDefault(raw, <<"rabbitmq", "routing_key">>, T("rtls.events"))

Settings(raw) ==
    [topic            |-> Topic(raw),
     envelope_version |-> EnvelopeVersion(raw),
     exchange_type    |-> GetOrUseDefault(raw, <<"rabbitmq", "exchange_type">>, T("topic")),
     routing_key      |-> RoutingKey(raw)]

(* The settings that are only read.                                          *)
Others(raw) ==
    {SchemaPath(raw)}
    \cup {Required(raw, path) : path \in {<<"logging", "level">>, <<"logging", "format">>,
                                          <<"udp_server", "ip">>, <<"udp_server", "port">>}}
    \cup {GetOrUseDefault(raw, path, T("")) :
            path \in {<<"validation", "origin">>, <<"rabbitmq", "url">>,
                      <<"rabbitmq", "exchange">>, <<"rabbitmq", "queue">>,
                      <<"backend", "api", "host">>, <<"database", "dsn">>}}
    \cup {GetOrUseDefault(raw, <<"backend", "api", "port">>, V("integer", 8000))}

(* load_config raised; no process that needs the settings starts.            *)
Refused == [s \in {} |-> Missing]

LoadConfig(raw) ==
    LET settings == Settings(raw) IN
    IF \/ raw.kind # "object"
       \/ Raises \in Others(raw) \cup {settings[name] : name \in DOMAIN settings}
      THEN Refused
      ELSE settings
==============================================================================
