----------------------------- MODULE ConfigPathProofs -----------------------------
(*******************************************************************************)
(* Proofs about ConfigPath, for documents with any number of odd fields.       *)
(*                                                                             *)
(* The document and the country do not change, so whatever is shown, saved or  *)
(* run is a function of them: the inductive invariant says which.  What is     *)
(* left to argue is that saving and loading a parsed configuration gives it    *)
(* back, and what the native parser makes of the flat document.                *)
(*******************************************************************************)
EXTENDS ConfigPath, TLAPS

Parsed == DartParse(raw)
Flat == ToJson(Parsed)
Sent == Inject(Flat, country)

DocumentInv ==
    /\ \A f \in Fields : raw[f] \in Choices[f]
    /\ country \in Countries
    /\ relaunched \in BOOLEAN
    /\ refused \in BOOLEAN

\* The app shows and keeps nothing but what it has parsed; the two differ only
\* until the next launch.
AppInv ==
    /\ ui # Nothing => DartAccepts(raw) /\ ui = Parsed
    /\ saved # Nothing => DartAccepts(raw) /\ saved = Flat
    /\ relaunched /\ saved # Nothing => ui = Parsed

\* The engine runs, and the native start refuses, nothing but that document with
\* the country put in.
NativeInv ==
    /\ engine # Nothing =>
        DartAccepts(raw) /\ NativeAccepts(Sent) /\ engine = NativeParse(Sent)
    /\ refused => DartAccepts(raw) /\ ~NativeAccepts(Sent)

IInv == DocumentInv /\ AppInv /\ NativeInv

-----------------------------------------------------------------------------
(* The parsers *)

\* What was parsed by the app is what it loads again: a missing address goes
\* through a null and comes back as a missing one.
LEMMA LoadsWhatWasSaved ==
    ASSUME NEW r PROVE FromJson(ToJson(DartParse(r))) = DartParse(r)
<1>. DEFINE d == DartParse(r)
            j == ToJson(d)
<1>1. d.doh_server_ip # "null"
  BY DEF DartParse
<1>2. j.doh_server_ip = IF d.doh_server_ip = "none" THEN "null" ELSE d.doh_server_ip
  BY DEF ToJson
<1>3. j.port = d.port /\ j.tag = d.tag /\ j.flow = d.flow
  BY DEF ToJson
<1>4. (IF j.doh_server_ip = "null" THEN "none" ELSE j.doh_server_ip) = d.doh_server_ip
  BY <1>1, <1>2
<1>5. FromJson(j) = [kind |-> "config", doh_server_ip |-> d.doh_server_ip,
                     port |-> d.port, tag |-> d.tag, flow |-> d.flow]
  <2>. HIDE DEF d, j
  <2>. QED  BY <1>3, <1>4 DEF FromJson
<1>6. d = [kind |-> "config", doh_server_ip |-> d.doh_server_ip,
           port |-> d.port, tag |-> d.tag, flow |-> d.flow]
  BY DEF DartParse
<1>. QED  BY <1>5, <1>6

\* The flat document of a configuration that was parsed: what the native start
\* reads of it, whatever country was put in.
LEMMA FlatFields ==
    ASSUME NEW r, NEW code
    PROVE  LET j == Inject(ToJson(DartParse(r)), code)
           IN  /\ j.doh_server_ip = IF r.doh_server_ip \in {"null", "absent", "none"}
                                    THEN "null" ELSE r.doh_server_ip
               /\ j.port = r.port
               /\ j.flow = IF r.flow = "str" THEN "str" ELSE "empty"
               /\ j.exit_country = IF code = "code" THEN "code" ELSE "absent"
<1>. DEFINE f == ToJson(DartParse(r))
            j == Inject(f, code)
<1>1. /\ f.doh_server_ip = IF r.doh_server_ip \in {"null", "absent", "none"}
                           THEN "null" ELSE r.doh_server_ip
      /\ f.port = r.port
      /\ f.flow = IF r.flow = "str" THEN "str" ELSE "empty"
      /\ f.exit_country = "absent"
  BY DEF ToJson, DartParse
<1>2. DOMAIN f = {"kind", "doh_server_ip", "port", "tag", "flow", "exit_country"}
  BY DEF ToJson
<1>3. /\ j.doh_server_ip = f.doh_server_ip
      /\ j.port = f.port
      /\ j.flow = f.flow
      /\ j.exit_country = IF code = "code" THEN "code" ELSE f.exit_country
  BY DEF Inject, ToJson
<1>. QED  BY <1>1, <1>3

\* Nothing the parsers return is taken for no configuration.
LEMMA ParsedIsSomething ==
    ASSUME NEW r, NEW j
    PROVE  DartParse(r) # Nothing /\ ToJson(r) # Nothing /\ NativeParse(j) # Nothing
<1>1. Nothing.kind = "nothing"
  BY DEF Nothing
<1>2. /\ DartParse(r).kind = "config"
      /\ ToJson(r).kind = "flat"
      /\ NativeParse(j).kind = "config"
  BY DEF DartParse, ToJson, NativeParse
<1>. QED  BY <1>1, <1>2

-----------------------------------------------------------------------------
(* The invariant is inductive *)

\* At the start every field of the document is one of its choices, however many
\* of them are odd.
LEMMA InitKeeps == Init => IInv
<1>. SUFFICES ASSUME Init PROVE IInv
  OBVIOUS
<1>1. PICK F \in SUBSET Fields : \E d \in Deviations(F) :
          raw = [f \in Fields |-> IF f \in F THEN d[f] ELSE Sample[f]]
  BY DEF Init
<1>2. PICK d \in Deviations(F) :
          raw = [f \in Fields |-> IF f \in F THEN d[f] ELSE Sample[f]]
  BY <1>1
<1>3. \A f \in F : d[f] \in Choices[f]
  BY DEF Deviations
<1>4. \A f \in Fields : Sample[f] \in Choices[f]
  BY DEF Fields, Sample, Choices
<1>5. \A f \in Fields : raw[f] \in Choices[f]
  BY <1>2, <1>3, <1>4
<1>. QED  BY <1>5 DEF Init, IInv, DocumentInv, AppInv, NativeInv

\* Every step keeps it.  A launch needs LoadsWhatWasSaved.
LEMMA NextKeeps == IInv /\ [Next]_vars => IInv'
<1>. SUFFICES ASSUME IInv, [Next]_vars PROVE IInv'
  OBVIOUS
<1>. USE DEF IInv, DocumentInv, AppInv, NativeInv
<1>1. raw' = raw /\ country' = country
  BY DEF Next, Import, ImportSavesHalf, Relaunch, Connect, vars
<1>2. Parsed' = Parsed /\ Flat' = Flat /\ Sent' = Sent
  BY <1>1 DEF Parsed, Flat, Sent
<1>3. CASE Import
  BY <1>1, <1>2, <1>3 DEF Import, Parsed, Flat
<1>4. CASE ImportSavesHalf
  BY <1>1, <1>2, <1>4 DEF ImportSavesHalf, Parsed, Flat
<1>5. CASE Relaunch
  <2>1. saved # Nothing => ui' = Parsed
    BY <1>5, LoadsWhatWasSaved DEF Relaunch, Parsed, Flat
  <2>2. saved = Nothing => ui' = Nothing
    BY <1>5 DEF Relaunch
  <2>. QED  BY <1>1, <1>2, <1>5, <2>1, <2>2 DEF Relaunch
<1>6. CASE Connect
  <2>1. Inject(ToJson(ui), country) = Sent /\ DartAccepts(raw)
    BY <1>6 DEF Connect, Sent, Flat
  <2>2. CASE NativeAccepts(Sent)
    BY <1>1, <1>2, <1>6, <2>1, <2>2 DEF Connect
  <2>3. CASE ~NativeAccepts(Sent)
    BY <1>1, <1>2, <1>6, <2>1, <2>3 DEF Connect
  <2>. QED  BY <2>2, <2>3
<1>7. CASE UNCHANGED vars
  BY <1>1, <1>2, <1>7 DEF vars
<1>. QED  BY <1>3, <1>4, <1>5, <1>6, <1>7 DEF Next

\* What is shown, saved and run is always the one document, in the form of its place.
THEOREM Inductive == Spec => []IInv
<1>. QED  BY InitKeeps, NextKeeps, PTL DEF Spec

-----------------------------------------------------------------------------
(* The properties *)

\* ConfigPath keeps its types, for documents with any number of odd fields.
THEOREM TypeCorrect == Spec => []TypeOK
<1>1. IInv => TypeOK
  <2>. SUFFICES ASSUME IInv PROVE TypeOK
    OBVIOUS
  <2>1. ui.kind \in {"nothing", "config"}
    BY DEF IInv, AppInv, Parsed, DartParse, Nothing
  <2>2. saved.kind \in {"nothing", "flat"}
    BY DEF IInv, AppInv, Flat, ToJson, Nothing
  <2>3. engine.kind \in {"nothing", "config"}
    BY DEF IInv, NativeInv, NativeParse, Nothing
  <2>. QED  BY <2>1, <2>2, <2>3 DEF IInv, DocumentInv, TypeOK
<1>. QED  BY <1>1, Inductive, PTL

\* A launch shows the configuration that was imported last, whether or not that
\* import got as far as the screen (config_service.dart:162-189).
THEOREM LoadsWhatWasImported == Spec => []ImportSurvives
<1>1. IInv => ImportSurvives
  BY DEF IInv, AppInv, Parsed, ImportSurvives
<1>. QED  BY <1>1, Inductive, PTL

\* The engine has the exit country exactly when the user chose one
\* (FfVpnService.kt:84-92).
THEOREM CountryReachesEngine == Spec => []CountryArrives
<1>1. IInv => CountryArrives
  <2>. SUFFICES ASSUME IInv, engine # Nothing
                PROVE  engine.exit_country = "code" <=> country = "code"
    BY DEF CountryArrives
  <2>1. Sent.exit_country = IF country = "code" THEN "code" ELSE "absent"
    BY FlatFields DEF Sent, Flat, Parsed
  <2>2. engine.exit_country = IF Sent.exit_country = "absent" THEN "none" ELSE Sent.exit_country
    BY DEF IInv, NativeInv, NativeParse
  <2>. QED  BY <2>1, <2>2
<1>. QED  BY <1>1, Inductive, PTL

\* The engine runs only supported documents, with what the core's own parser
\* would have read where that accepts them (config.rs:135-210).
THEOREM EngineRunsWhatWasRead == Spec => []EngineRunsUpstream
<1>1. IInv => EngineRunsUpstream
  <2>. SUFFICES ASSUME IInv, engine # Nothing
                PROVE  /\ Supported(raw)
                       /\ RustAccepts(raw) =>
                           \A f \in {"doh_server_ip", "port", "flow"} :
                               engine[f] = RustParse(raw)[f]
    BY DEF EngineRunsUpstream
  <2>1. DartAccepts(raw) /\ NativeAccepts(Sent) /\ engine = NativeParse(Sent)
    BY DEF IInv, NativeInv
  <2>2. Supported(raw)
    BY <2>1 DEF DartAccepts
  <2>3. /\ Sent.doh_server_ip = IF raw.doh_server_ip \in {"null", "absent", "none"}
                                THEN "null" ELSE raw.doh_server_ip
        /\ Sent.port = raw.port
        /\ Sent.flow = IF raw.flow = "str" THEN "str" ELSE "empty"
    BY FlatFields DEF Sent, Flat, Parsed
  <2>4. engine.doh_server_ip = RustParse(raw).doh_server_ip
    BY <2>1, <2>3 DEF NativeParse, NativeAccepts, RustParse
  <2>5. engine.port = RustParse(raw).port /\ engine.flow = RustParse(raw).flow
    BY <2>1, <2>3 DEF NativeParse, RustParse
  <2>. QED  BY <2>2, <2>4, <2>5
<1>. QED  BY <1>1, Inductive, PTL

\* No start is refused because of an address that was left out: a missing one is
\* sent as a null, which the core reads as none.
THEOREM OptionalStaysOptional == Spec => []OptionalIsOptional
<1>1. IInv => OptionalIsOptional
  <2>. SUFFICES ASSUME IInv, refused, raw.port = "ok",
                       raw.doh_server_ip \in {"addr", "null", "absent"}
                PROVE  FALSE
    BY DEF OptionalIsOptional
  <2>1. Sent.doh_server_ip \in {"null", "addr"} /\ Sent.port = "ok"
    BY FlatFields DEF Sent, Flat, Parsed
  <2>2. ~NativeAccepts(Sent)
    BY DEF IInv, NativeInv
  <2>. QED  BY <2>1, <2>2 DEF NativeAccepts
<1>. QED  BY <1>1, Inductive, PTL
=============================================================================
