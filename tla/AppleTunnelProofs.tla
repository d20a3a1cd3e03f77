----------------------------- MODULE AppleTunnelProofs -----------------------------
(*******************************************************************************)
(* Proofs about AppleTunnel, for any starts, stops, threads and kills.         *)
(*******************************************************************************)
EXTENDS AppleTunnel, TLAPS

\* A call of ff_vpn_start has a thread of its own until it is reported, and keeps
\* its message there.
OwnThreads ==
    /\ \A a \in Starts : pc[a] \in OnThread => thread[a] \in Threads
    /\ \A a, b \in Starts :
        pc[a] \in OnThread /\ pc[b] \in OnThread /\ thread[a] = thread[b] => a = b
    /\ \A a \in Starts : pc[a] = "failed" => lastErr[thread[a]] \in {a, None}

\* The engine in the slot belongs to a start that succeeded; one that succeeded
\* has its engine there until it is reaped.
SlotOwner ==
    /\ \A a \in Starts : slot = a => pc[a] = "ok" \/ told[a].kind = "connected"
    /\ \A a \in Starts : pc[a] = "ok" => slot = a \/ a \in reaped

\* A call is answered when it is done.
DoneOnce ==
    /\ \A c \in Calls : answers[c] = IF pc[c] = "done" THEN 1 ELSE 0
    /\ \A a \in Starts : told[a].kind # "none" => pc[a] = "done"

IInv == TypeOK /\ OwnThreads /\ SlotOwner /\ DoneOnce /\ ReportedErrorIsOwn /\ AnswersAreTrue

LEMMA InitKeeps == Init => IInv
<1>. SUFFICES ASSUME Init PROVE IInv
  OBVIOUS
<1>. USE AppleAssumption DEF Init, Untold
<1>1. TypeOK
  BY DEF TypeOK, States, OnThread, Calls
<1>2. OwnThreads /\ SlotOwner /\ DoneOnce
  BY DEF OwnThreads, SlotOwner, DoneOnce, Calls, OnThread
<1>3. ReportedErrorIsOwn /\ AnswersAreTrue
  BY DEF ReportedErrorIsOwn, AnswersAreTrue
<1>4. QED
  BY <1>1, <1>2, <1>3 DEF IInv

\* Steps that answer nobody and leave the slot alone.
LEMMA QuietKeeps ==
    ASSUME IInv, NEW c \in Calls,
           \/ StartTunnel(c) /\ c \in Starts
           \/ ApplySettings(c) /\ c \in Starts
           \/ EnterStart(c) /\ c \in Starts
           \/ StopTunnel(c) /\ c \in Stops
    PROVE  IInv'
<1>. USE AppleAssumption DEF IInv, StartTunnel, ApplySettings, EnterStart, StopTunnel, Go,
                             system, engine
<1>1. TypeOK'
  BY DEF TypeOK, States, OnThread, Calls
<1>2. OwnThreads'
  BY DEF OwnThreads, TypeOK, OnThread, Calls
<1>3. SlotOwner' /\ DoneOnce'
  BY DEF SlotOwner, DoneOnce, TypeOK, Calls
<1>4. ReportedErrorIsOwn' /\ AnswersAreTrue'
  BY DEF ReportedErrorIsOwn, AnswersAreTrue
<1>5. QED
  BY <1>1, <1>2, <1>3, <1>4

LEMMA AppliedKeeps ==
    ASSUME IInv, NEW a \in Starts, SettingsApplied(a)
    PROVE  IInv'
<1>. USE AppleAssumption DEF IInv, Go, system, engine
<1>1. PICK t \in Threads : /\ ~Busy(t)
                           /\ Go(a, "settings", "call")
                           /\ thread' = [thread EXCEPT ![a] = t]
                           /\ UNCHANGED <<system, lastErr, engine>>
  BY DEF SettingsApplied
<1>2. TypeOK'
  BY <1>1 DEF TypeOK, States, OnThread, Calls
<1>3. OwnThreads'
  BY <1>1 DEF OwnThreads, TypeOK, OnThread, Calls, Busy
<1>4. SlotOwner' /\ DoneOnce'
  BY <1>1 DEF SlotOwner, DoneOnce, TypeOK, Calls
<1>5. ReportedErrorIsOwn' /\ AnswersAreTrue'
  BY <1>1 DEF ReportedErrorIsOwn, AnswersAreTrue
<1>6. QED
  BY <1>2, <1>3, <1>4, <1>5

LEMMA FailsKeeps ==
    ASSUME IInv, NEW a \in Starts, ArgumentsRefused(a) \/ StartFails(a)
    PROVE  IInv'
<1>. USE AppleAssumption DEF IInv, Go, system, engine
<1>1. pc[a] \in {"call", "entered"} /\ pc' = [pc EXCEPT ![a] = "failed"]
  BY DEF ArgumentsRefused, StartFails
<1>2. UNCHANGED <<system, thread, slot, reaped>> /\ lock' \in {lock, None}
  BY DEF ArgumentsRefused, StartFails
<1>3. PICK m \in {a, None} : lastErr' = [lastErr EXCEPT ![thread[a]] = m]
  BY DEF ArgumentsRefused, StartFails, SetLastErr
<1>4. TypeOK'
  BY <1>1, <1>2, <1>3 DEF TypeOK, States, OnThread, Calls
<1>5. OwnThreads'
  BY <1>1, <1>2, <1>3 DEF OwnThreads, TypeOK, OnThread, Calls
<1>6. SlotOwner' /\ DoneOnce'
  BY <1>1, <1>2 DEF SlotOwner, DoneOnce, TypeOK, Calls
<1>7. ReportedErrorIsOwn' /\ AnswersAreTrue'
  BY <1>2 DEF ReportedErrorIsOwn, AnswersAreTrue
<1>8. QED
  BY <1>4, <1>5, <1>6, <1>7

LEMMA SucceedsKeeps ==
    ASSUME IInv, NEW a \in Starts, StartSucceeds(a)
    PROVE  IInv'
<1>. USE AppleAssumption DEF IInv, StartSucceeds, Go, system
<1>1. TypeOK'
  BY DEF TypeOK, States, OnThread, Calls
<1>2. OwnThreads'
  BY DEF OwnThreads, TypeOK, OnThread, Calls
<1>3. SlotOwner' /\ DoneOnce'
  BY DEF SlotOwner, DoneOnce, TypeOK, Calls
<1>4. ReportedErrorIsOwn' /\ AnswersAreTrue'
  BY DEF ReportedErrorIsOwn, AnswersAreTrue, SlotOwner, DoneOnce
<1>5. QED
  BY <1>1, <1>2, <1>3, <1>4

\* A start is answered: with its success, its own message or none.
LEMMA AnswerKeeps ==
    ASSUME IInv, NEW a \in Starts,
           ConfigMissing(a) \/ SettingsRefused(a) \/ ReportFailure(a) \/ ReportSuccess(a)
    PROVE  IInv'
<1>. USE AppleAssumption DEF IInv, Go, engine
<1>0. UNCHANGED <<kills, thread, lastErr, engine>>
  BY DEF ConfigMissing, SettingsRefused, ReportFailure, ReportSuccess, Complete
<1>1. pc[a] \in {"asked", "settings", "failed", "ok"} /\ pc' = [pc EXCEPT ![a] = "done"]
  BY DEF ConfigMissing, SettingsRefused, ReportFailure, ReportSuccess
<1>2. answers' = [answers EXCEPT ![a] = @ + 1] /\ current' \in {current, None}
  BY DEF ConfigMissing, SettingsRefused, ReportFailure, ReportSuccess, Complete
<1>3. PICK m \in {a, None}, k \in {"connected", "refused"} :
        /\ told' = [told EXCEPT ![a] = [kind |-> k, text |-> m]]
        /\ k = "connected" <=> pc[a] = "ok"
  <2>1. CASE ConfigMissing(a) \/ SettingsRefused(a)
    BY <2>1 DEF ConfigMissing, SettingsRefused, Complete, Refusal
  <2>2. CASE ReportFailure(a)
    BY <2>2 DEF ReportFailure, Complete, Refusal, OwnThreads
  <2>3. CASE ReportSuccess(a)
    BY <2>3 DEF ReportSuccess, Complete, Connected
  <2>4. QED
    BY <2>1, <2>2, <2>3
<1>4. TypeOK'
  <2>1. answers' \in [Calls -> Nat]
    <3>1. answers[a] + 1 \in Nat
      BY DEF TypeOK, Calls
    <3>2. QED
      BY <1>2, <3>1 DEF TypeOK, Calls
  <2>2. told' \in [Starts -> Answer \cup {Untold}]
    BY <1>3 DEF TypeOK, Answer
  <2>3. QED
    BY <1>0, <1>1, <1>2, <2>1, <2>2 DEF TypeOK, States
<1>5. OwnThreads'
  BY <1>0, <1>1 DEF OwnThreads, TypeOK, OnThread, Calls
<1>6. SlotOwner'
  BY <1>0, <1>1, <1>3 DEF SlotOwner, TypeOK, Calls, DoneOnce
<1>7. DoneOnce'
  <2>1. \A c \in Calls : answers'[c] = IF pc'[c] = "done" THEN 1 ELSE 0
    BY <1>1, <1>2 DEF DoneOnce, TypeOK, Calls
  <2>2. QED
    BY <1>1, <1>3, <2>1 DEF DoneOnce, TypeOK, Calls
<1>8. ReportedErrorIsOwn'
  BY <1>3 DEF ReportedErrorIsOwn, TypeOK
<1>9. AnswersAreTrue'
  BY <1>0, <1>1, <1>3 DEF AnswersAreTrue, SlotOwner, DoneOnce, TypeOK
<1>10. QED
  BY <1>4, <1>5, <1>6, <1>7, <1>8, <1>9

LEMMA StopKeeps ==
    ASSUME IInv, NEW b \in Stops, StopStep(b)
    PROVE  IInv'
<1>. USE AppleAssumption DEF IInv, Go, system, engine
<1>1. CASE StopTakes(b)
  <2>. USE <1>1 DEF StopTakes
  <2>1. TypeOK'
    BY DEF TypeOK, States, OnThread, Calls
  <2>2. OwnThreads'
    BY DEF OwnThreads, TypeOK, OnThread, Calls
  <2>3. SlotOwner' /\ DoneOnce'
    BY DEF SlotOwner, DoneOnce, TypeOK, Calls
  <2>4. ReportedErrorIsOwn' /\ AnswersAreTrue'
    BY DEF ReportedErrorIsOwn, AnswersAreTrue
  <2>5. QED
    BY <2>1, <2>2, <2>3, <2>4
<1>2. CASE StopCompletes(b)
  <2>. USE <1>2 DEF StopCompletes
  <2>1. answers' \in [Calls -> Nat]
    <3>1. answers[b] + 1 \in Nat
      BY DEF TypeOK, Calls
    <3>2. QED
      BY <3>1 DEF TypeOK, Calls
  <2>2. TypeOK'
    BY <2>1 DEF TypeOK, States, Calls
  <2>3. OwnThreads'
    BY DEF OwnThreads, TypeOK, OnThread, Calls
  <2>4. \A c \in Calls : answers'[c] = IF pc'[c] = "done" THEN 1 ELSE 0
    BY DEF DoneOnce, TypeOK, Calls
  <2>5. SlotOwner' /\ DoneOnce'
    BY <2>4 DEF SlotOwner, DoneOnce, TypeOK, Calls
  <2>6. ReportedErrorIsOwn' /\ AnswersAreTrue'
    BY DEF ReportedErrorIsOwn, AnswersAreTrue
  <2>7. QED
    BY <2>2, <2>3, <2>5, <2>6
<1>3. QED
  BY <1>1, <1>2 DEF StopStep

LEMMA KillKeeps == IInv /\ Kill => IInv'
<1>. SUFFICES ASSUME IInv, Kill PROVE IInv'
  OBVIOUS
<1>. USE AppleAssumption DEF IInv, Kill
<1>1. TypeOK'
  <2>1. kills' \in 0..MaxKills
    BY DEF TypeOK
  <2>2. pc' \in [Calls -> States]
    BY DEF TypeOK, States
  <2>3. QED
    BY <2>1, <2>2 DEF TypeOK
<1>2. OwnThreads'
  BY DEF OwnThreads, OnThread, Calls
<1>3. SlotOwner' /\ DoneOnce'
  BY DEF SlotOwner, DoneOnce, Calls
<1>4. ReportedErrorIsOwn' /\ AnswersAreTrue'
  BY DEF ReportedErrorIsOwn, AnswersAreTrue
<1>5. QED
  BY <1>1, <1>2, <1>3, <1>4

LEMMA StepKeeps == IInv /\ [Next]_vars => IInv'
<1>. SUFFICES ASSUME IInv, [Next]_vars PROVE IInv'
  OBVIOUS
<1>1. ASSUME NEW a \in Starts, StartTunnel(a) \/ StartStep(a) PROVE IInv'
  BY <1>1, QuietKeeps, AppliedKeeps, FailsKeeps, SucceedsKeeps, AnswerKeeps
     DEF StartStep, Calls
<1>2. ASSUME NEW b \in Stops, StopTunnel(b) \/ StopStep(b) PROVE IInv'
  BY <1>2, QuietKeeps, StopKeeps DEF Calls
<1>3. CASE UNCHANGED vars
  BY <1>3 DEF vars, system, engine, IInv, TypeOK, OwnThreads, SlotOwner, DoneOnce,
              ReportedErrorIsOwn, AnswersAreTrue
<1>4. QED
  BY <1>1, <1>2, <1>3, KillKeeps DEF Next

LEMMA Inductive == Spec => []IInv
<1>1. QED
  BY InitKeeps, StepKeeps, PTL DEF Spec

\* The variables keep their types.
THEOREM TypeCorrect == Spec => []TypeOK
<1>1. QED
  BY Inductive, PTL DEF IInv

\* A failed start is reported with its own message or with none.
THEOREM ErrorsAreOwn == Spec => []ReportedErrorIsOwn
<1>1. QED
  BY Inductive, PTL DEF IInv

\* What the system was told of a start is so.
THEOREM AnswersStayTrue == Spec => []AnswersAreTrue
<1>1. QED
  BY Inductive, PTL DEF IInv

\* The completion handlers are called as the contract has it: never twice, never
\* unasked, and not by a process that is gone.
THEOREM NeverAnsweredTwice == Spec => Contract!Init /\ [][Contract!Next]_(Contract!vars)
<1>. USE AppleAssumption
<1>1. Init => Contract!Init
  BY DEF Init, Contract!Init
<1>2. ASSUME IInv, [Next]_vars PROVE [Contract!Next]_(Contract!vars)
  <2>. USE DEF Contract!Next, Contract!vars, Contract!Ask, Contract!Answer, Contract!Die
  <2>1. ASSUME NEW c \in Calls, NEW to \in States \ {"idle", "done", "gone"},
               pc[c] = "idle", pc' = [pc EXCEPT ![c] = to], UNCHANGED answers
        PROVE  Contract!Ask(c)
    <3>1. \A x \in Calls : pc'[x] = IF x = c THEN to ELSE pc[x]
      BY <1>2, <2>1 DEF IInv, TypeOK
    <3>2. \A x \in Calls : pc'[x] # "idle" <=> pc[x] # "idle" \/ x = c
      BY <2>1, <3>1
    <3>3. \A x \in Calls : pc'[x] = "gone" <=> pc[x] = "gone"
      BY <2>1, <3>1
    <3>4. QED
      BY <2>1, <3>2, <3>3
  <2>2. ASSUME NEW c \in Calls, NEW to \in States \ {"idle", "done", "gone"},
               pc[c] \notin {"idle", "gone"}, pc' = [pc EXCEPT ![c] = to], UNCHANGED answers
        PROVE  UNCHANGED Contract!vars
    BY <2>2 DEF IInv, TypeOK
  <2>3. ASSUME NEW c \in Calls, pc[c] \notin {"idle", "gone", "done"},
               pc' = [pc EXCEPT ![c] = "done"], answers' = [answers EXCEPT ![c] = @ + 1]
        PROVE  Contract!Answer(c)
    <3>1. \A x \in Calls : pc'[x] = IF x = c THEN "done" ELSE pc[x]
      BY <1>2, <2>3 DEF IInv, TypeOK
    <3>2. \A x \in Calls : pc'[x] # "idle" <=> pc[x] # "idle"
      BY <2>3, <3>1
    <3>3. \A x \in Calls : pc'[x] = "gone" <=> pc[x] = "gone"
      BY <2>3, <3>1
    <3>4. answers[c] = 0
      BY <1>2, <2>3 DEF IInv, DoneOnce
    <3>5. answers' = [answers EXCEPT ![c] = 1]
      BY <2>3, <3>4
    <3>6. QED
      BY <2>3, <3>2, <3>3, <3>4, <3>5
  <2>4. ASSUME NEW a \in Starts, StartTunnel(a) PROVE Contract!Ask(a)
    BY <2>1, <2>4 DEF StartTunnel, Go, Calls, States
  <2>5. ASSUME NEW b \in Stops, StopTunnel(b) PROVE Contract!Ask(b)
    BY <2>1, <2>5 DEF StopTunnel, Go, Calls, States, OnThread, system
  <2>6. ASSUME NEW a \in Starts,
               \/ ConfigMissing(a) \/ SettingsRefused(a) \/ ReportFailure(a) \/ ReportSuccess(a)
        PROVE  Contract!Answer(a)
    BY <2>3, <2>6 DEF ConfigMissing, SettingsRefused, ReportFailure, ReportSuccess, Go,
                      Complete, Calls
  <2>7. ASSUME NEW b \in Stops, StopCompletes(b) PROVE Contract!Answer(b)
    BY <2>3, <2>7 DEF StopCompletes, Go, Calls
  <2>8. ASSUME NEW a \in Starts,
               \/ ApplySettings(a) \/ SettingsApplied(a) \/ ArgumentsRefused(a)
               \/ EnterStart(a) \/ StartFails(a) \/ StartSucceeds(a)
        PROVE  UNCHANGED Contract!vars
    BY <2>2, <2>8 DEF ApplySettings, SettingsApplied, ArgumentsRefused, EnterStart,
                      StartFails, StartSucceeds, Go, Calls, States, OnThread, system
  <2>9. ASSUME NEW b \in Stops, StopTakes(b) PROVE UNCHANGED Contract!vars
    BY <2>2, <2>9 DEF StopTakes, Go, Calls, States, system
  <2>10. ASSUME Kill PROVE Contract!Die
    <3>1. \A x \in Calls : pc'[x] # "idle" <=> pc[x] # "idle"
      BY <2>10 DEF Kill
    <3>2. \A x \in Calls : answers[x] = 0 <=> pc[x] # "done"
      BY <1>2 DEF IInv, DoneOnce
    <3>3. \A x \in Calls :
            pc'[x] = "gone" <=> pc[x] = "gone" \/ (pc[x] # "idle" /\ answers[x] = 0)
      BY <2>10, <3>2 DEF Kill
    <3>4. UNCHANGED answers
      BY <2>10 DEF Kill
    <3>5. QED
      BY <3>1, <3>3, <3>4
  <2>11. CASE UNCHANGED vars
    BY <2>11 DEF vars, system
  <2>. HIDE DEF Contract!vars, Contract!Ask, Contract!Answer, Contract!Die
  <2>12. QED
    BY <1>2, <2>4, <2>5, <2>6, <2>7, <2>8, <2>9, <2>10, <2>11
       DEF Next, StartStep, StopStep, Calls
<1>3. QED
  BY <1>1, <1>2, Inductive, PTL DEF Spec
====================================================================================
