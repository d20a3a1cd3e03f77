------------------------------- MODULE ConfigPath -------------------------------
(*******************************************************************************)
(* The way of a configuration: the upstream JSON is parsed and flattened by    *)
(* the app (config_service.dart), kept across launches, completed with the     *)
(* user's exit country by FfVpnService, and parsed once more, flat, by the     *)
(* native start.  The core has a parser of the upstream JSON of its own        *)
(* (config.rs from_json), which the app's is meant to mirror.                  *)
(*                                                                             *)
(* An upstream document is what its fields are: a value that is right, or one  *)
(* of the ways in which it can be otherwise.                                   *)
(*******************************************************************************)
EXTENDS Naturals, FiniteSets

CONSTANT MaxOddities        \* bound: fields of a document that are not as in Sample

ASSUME ConfigAssumption == MaxOddities \in Nat

\* "front": the outbound before the VLESS one: none, a complete one, one without
\* streamSettings, one without protocol.  "hollow": an object without its fields.
Choices ==
    [bridge_rsa_id |-> {"str", "null", "absent"},
     doh_server_ip |-> {"addr", "null", "absent", "empty", "blank", "junk", "num"},
     front |-> {"none", "full", "bare", "odd"},
     protocol |-> {"vless", "VLESS", "trojan", "absent"},
     tag |-> {"str", "null", "absent"},
     security |-> {"reality", "REALITY", "tls", "absent"},
     network |-> {"grpc", "GRPC", "tcp", "absent"},
     grpcSettings |-> {"obj", "null", "absent", "hollow"},
     realitySettings |-> {"obj", "null", "absent", "hollow"},
     vnext |-> {"one", "empty", "absent"},
     port |-> {"ok", "big", "negative", "str", "absent"},
     users |-> {"one", "empty"},
     flow |-> {"str", "null", "absent"}]

Sample ==
    [bridge_rsa_id |-> "str", doh_server_ip |-> "addr", front |-> "none",
     protocol |-> "vless", tag |-> "str", security |-> "reality", network |-> "grpc",
     grpcSettings |-> "obj", realitySettings |-> "obj", vnext |-> "one",
     port |-> "ok", users |-> "one", flow |-> "str"]

Fields == DOMAIN Sample

Countries == {"null", "blank", "code"}

VARIABLES
    raw,                    \* the upstream document
    country,                \* VpnState.exitCountry as the intent carries it
    ui,                     \* VpnState.config
    saved,                  \* the JSON kept in the preferences
    relaunched,             \* was the app started again since the last import?
    engine,                 \* the core's AppConfig
    refused                 \* has the native start refused a configuration?

vars == <<raw, country, ui, saved, relaunched, engine, refused>>

Nothing == [kind |-> "nothing"]

-----------------------------------------------------------------------------
(* The three parsers *)

AnyCase(value, word, other) == value \in {word, other}

\* serde: every outbound is deserialized before the VLESS one is looked for.
Deserializes(r) ==
    /\ r.bridge_rsa_id = "str"
    /\ r.doh_server_ip # "num"
    /\ r.front \in {"none", "full"}
    /\ r.protocol # "absent"
    /\ r.tag # "null"
    /\ r.security # "absent"
    /\ r.network # "absent"
    /\ r.grpcSettings # "hollow"
    /\ r.realitySettings # "hollow"
    /\ r.vnext # "absent"
    /\ r.vnext = "one" => r.port = "ok" /\ (r.users = "one" => r.flow # "null")

\* What both parsers ask of the outbound they found.
Supported(r) ==
    /\ AnyCase(r.protocol, "vless", "VLESS")
    /\ AnyCase(r.security, "reality", "REALITY")
    /\ AnyCase(r.network, "grpc", "GRPC")
    /\ r.grpcSettings = "obj"
    /\ r.realitySettings = "obj"
    /\ r.vnext = "one"
    /\ r.users = "one"

\* A blank address is no address.
RustAccepts(r) == Deserializes(r) /\ Supported(r) /\ r.doh_server_ip # "junk"

RustParse(r) ==
    [kind |-> "config",
     doh_server_ip |-> IF r.doh_server_ip = "addr" THEN "addr" ELSE "none",
     port |-> r.port,
     tag |-> IF r.tag = "str" THEN "str" ELSE "empty",
     flow |-> IF r.flow = "str" THEN "str" ELSE "empty"]

\* Mutation: the app does not look at the security.
DartAcceptsInsecure(r) ==
    /\ r.front # "odd"
    /\ Supported([r EXCEPT !.security = "reality"])
    /\ r.bridge_rsa_id = "str"
    /\ r.doh_server_ip # "num"
    /\ r.port \in {"ok", "big", "negative"}

\* A cast that fails throws as well as an unsupported value does.
DartAccepts(r) ==
    /\ r.front # "odd"
    /\ Supported(r)
    /\ r.bridge_rsa_id = "str"
    /\ r.doh_server_ip # "num"
    /\ r.port \in {"ok", "big", "negative"}

\* Mutation: a missing address becomes an empty one.
DartParseBlanking(r) ==
    [kind |-> "config",
     doh_server_ip |-> IF r.doh_server_ip \in {"null", "absent"} THEN "empty" ELSE r.doh_server_ip,
     port |-> r.port,
     tag |-> IF r.tag = "str" THEN "str" ELSE "proxy",
     flow |-> IF r.flow = "str" THEN "str" ELSE "empty"]

DartParse(r) ==
    [kind |-> "config",
     doh_server_ip |-> IF r.doh_server_ip \in {"null", "absent"} THEN "none" ELSE r.doh_server_ip,
     port |-> r.port,
     tag |-> IF r.tag = "str" THEN "str" ELSE "proxy",
     flow |-> IF r.flow = "str" THEN "str" ELSE "empty"]

\* toJson: the flat document, with a null for an address that is none.
ToJson(c) ==
    [kind |-> "flat",
     doh_server_ip |-> IF c.doh_server_ip = "none" THEN "null" ELSE c.doh_server_ip,
     port |-> c.port, tag |-> c.tag, flow |-> c.flow, exit_country |-> "absent"]

FromJson(j) ==
    [kind |-> "config",
     doh_server_ip |-> IF j.doh_server_ip = "null" THEN "none" ELSE j.doh_server_ip,
     port |-> j.port, tag |-> j.tag, flow |-> j.flow]

\* Mutation: the country is put beside `user', where the core does not look.
InjectBeside(j, code) == j

\* A country that is not blank is put under user.exit_country.
Inject(j, code) == IF code = "code" THEN [j EXCEPT !.exit_country = code] ELSE j

\* serde_json::from_str::<AppConfig>: IpAddr and u16 are parsed, not blanks.
NativeAccepts(j) == j.doh_server_ip \in {"null", "addr"} /\ j.port = "ok"

NativeParse(j) ==
    [kind |-> "config",
     doh_server_ip |-> IF j.doh_server_ip = "null" THEN "none" ELSE j.doh_server_ip,
     port |-> j.port, tag |-> j.tag, flow |-> j.flow,
     exit_country |-> IF j.exit_country = "absent" THEN "none" ELSE j.exit_country]

-----------------------------------------------------------------------------
Oddities(r) == {f \in Fields : r[f] # Sample[f]}

TypeOK ==
    /\ \A f \in Fields : raw[f] \in Choices[f]
    /\ country \in Countries
    /\ ui.kind \in {"nothing", "config"}
    /\ saved.kind \in {"nothing", "flat"}
    /\ relaunched \in BOOLEAN
    /\ engine.kind \in {"nothing", "config"}
    /\ refused \in BOOLEAN

Deviations(F) == {f \in [F -> UNION {Choices[g] : g \in F}] :
                      \A g \in F : f[g] \in Choices[g] \ {Sample[g]}}

Init ==
    /\ \E F \in {G \in SUBSET Fields : Cardinality(G) <= MaxOddities} :
        \E d \in Deviations(F) :
            raw = [f \in Fields |-> IF f \in F THEN d[f] ELSE Sample[f]]
    /\ country \in Countries
    /\ ui = Nothing
    /\ saved = Nothing
    /\ relaunched = FALSE
    /\ engine = Nothing
    /\ refused = FALSE

\* importFromText and importFromUrl: parse, save, show.
Import ==
    /\ DartAccepts(raw)
    /\ ui' = DartParse(raw)
    /\ saved' = ToJson(DartParse(raw))
    /\ relaunched' = FALSE
    /\ UNCHANGED <<raw, country, engine, refused>>

\* save() fails after the preferences were written: the state is not updated.
ImportSavesHalf ==
    /\ DartAccepts(raw)
    /\ saved' = ToJson(DartParse(raw))
    /\ relaunched' = FALSE
    /\ UNCHANGED <<raw, country, ui, engine, refused>>

\* Mutation: the saved document is loaded by the parser of the upstream one.
RelaunchByParse ==
    /\ ui' = Nothing
    /\ relaunched' = TRUE
    /\ engine' = Nothing
    /\ UNCHANGED <<raw, country, saved, refused>>

\* A new process: _bootstrap loads what was saved.
Relaunch ==
    /\ ui' = IF saved = Nothing THEN Nothing ELSE FromJson(saved)
    /\ relaunched' = TRUE
    /\ engine' = Nothing
    /\ UNCHANGED <<raw, country, saved, refused>>

\* connect(), startTunnel and the native start up to crate::start.
Connect ==
    LET sent == Inject(ToJson(ui), country)
    IN  /\ ui # Nothing
        /\ engine = Nothing
        /\ IF NativeAccepts(sent)
           THEN engine' = NativeParse(sent) /\ UNCHANGED refused
           ELSE refused' = TRUE /\ UNCHANGED engine
        /\ UNCHANGED <<raw, country, ui, saved, relaunched>>

Next == Import \/ ImportSavesHalf \/ Relaunch \/ Connect

Spec == Init /\ [][Next]_vars

-----------------------------------------------------------------------------
(* Properties *)

\* A launch finds the configuration that was imported, even if the import failed
\* half-way (config_service.dart:162-189).
ImportSurvives ==
    relaunched /\ saved # Nothing => ui = DartParse(raw)

\* The engine runs with the country the user chose: "without this the country
\* picker would silently no-op" (FfVpnService.kt:84-92).
CountryArrives ==
    engine # Nothing => (engine.exit_country = "code" <=> country = "code")

\* The engine runs only a configuration with reality and grpc, and where the
\* core's own parser accepts the document as well, with what that one would have
\* read, the unused tag aside (config.rs:135-210).
EngineRunsUpstream ==
    engine # Nothing =>
        /\ Supported(raw)
        /\ RustAccepts(raw) =>
            \A f \in {"doh_server_ip", "port", "flow"} : engine[f] = RustParse(raw)[f]

\* A document without an address starts like one with an address: an optional
\* field that is left out does not make the native start fail.
OptionalIsOptional ==
    raw.doh_server_ip \in {"addr", "null", "absent"} /\ raw.port = "ok" => ~refused

\* "so the two parsers cannot drift silently" (config_service_test.dart:2-3).
ParsersAgree == DartAccepts(raw) <=> RustAccepts(raw)

\* The app hands the core "the *full* parsed `AppConfig` JSON" (ffi.rs:45-46):
\* what the app has parsed, the native start accepts.
ParsedStarts == ~refused
==================================================================================
