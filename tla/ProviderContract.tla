----------------------------- MODULE ProviderContract -----------------------------
(*******************************************************************************)
(* What NetworkExtension expects of a provider: every startTunnel and every    *)
(* stopTunnel has its completion handler called once, unless the process of    *)
(* the provider is gone by then (PacketTunnelProvider.swift:59-63).            *)
(*******************************************************************************)
EXTENDS Naturals

CONSTANT Calls

VARIABLES
    asked,          \* the calls made
    answers,        \* how often each completion handler was called
    gone            \* the calls whose process was gone before an answer

vars == <<asked, answers, gone>>

Init ==
    /\ asked = {}
    /\ answers = [c \in Calls |-> 0]
    /\ gone = {}

Ask(c) ==
    /\ c \notin asked
    /\ asked' = asked \cup {c}
    /\ UNCHANGED <<answers, gone>>

Answer(c) ==
    /\ c \in asked \ gone /\ answers[c] = 0
    /\ answers' = [answers EXCEPT ![c] = 1]
    /\ UNCHANGED <<asked, gone>>

Die ==
    /\ gone' = gone \cup {c \in asked : answers[c] = 0}
    /\ UNCHANGED <<asked, answers>>

Next == Die \/ \E c \in Calls : Ask(c) \/ Answer(c)

Spec == Init /\ [][Next]_vars /\ \A c \in Calls : WF_vars(Answer(c))
===================================================================================
