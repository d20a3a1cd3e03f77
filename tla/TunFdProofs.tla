------------------------------- MODULE TunFdProofs -------------------------------
(*******************************************************************************)
(* Proofs about TunFd, for any descriptor numbers and any number of attempts.  *)
(*******************************************************************************)
EXTENDS TunFd, TLAPS

\* How often an attempt that did not fail late has been closed: once if leaf
\* closed it, or if it never got as far as leaf and is in nobody's hands.
Expected(a) ==
    IF leaf[a] = "closed" \/ (leaf[a] = "none" /\ a \notin Guarded /\ a <= cur)
    THEN 1 ELSE 0

\* Leaf has the descriptor exactly from the step that spawns it on.
Order ==
    /\ stage # "idle" => cur \in Attempts
    /\ stage \in {"kotlin", "jni", "core"} => leaf[cur] = "none"
    /\ stage = "wired" => leaf[cur] # "none"
    /\ Guarded \cap late = {}
    /\ late \subseteq 1..cur
    /\ \A a \in Attempts : a > cur => leaf[a] = "none"

\* The count, and what an unclosed number refers to while nothing failed late.
Counted ==
    /\ \A a \in Attempts \ late : closes[a] = Expected(a)
    /\ \A a \in late : closes[a] >= 1
    /\ late = {} => struck = {}
    /\ late = {} => \A a \in 1..cur : closes[a] = 0 => table[num[a]] = a

IInv == TypeOK /\ Order /\ Counted

\* Every step keeps the types.
LEMMA TypingStep == TypeOK /\ Order /\ [Next]_vars => TypeOK'
<1>. SUFFICES ASSUME TypeOK, Order, [Next]_vars PROVE TypeOK'
  OBVIOUS
<1>. USE FdAssumption DEF TypeOK, Order, Attempts, NoAttempt, Stages, LeafStates, KeepFds, Advance
<1>1. ASSUME NEW a \in Attempts, Close(a)
      PROVE  /\ table' \in [Fds -> Attempts \cup {Free, Other}]
             /\ closes' \in [Attempts -> Nat]
             /\ struck' \subseteq Attempts \cup {Other}
  <2>1. num[a] \in Fds /\ table[num[a]] \in Attempts \cup {Free, Other}
    OBVIOUS
  <2>2. closes[a] + 1 \in Nat
    OBVIOUS
  <2>3. table' \in [Fds -> Attempts \cup {Free, Other}]
    BY <1>1, <2>1 DEF Close
  <2>4. closes' \in [Attempts -> Nat]
    BY <1>1, <2>2 DEF Close
  <2>5. struck' \subseteq Attempts \cup {Other}
    BY <1>1, <2>1 DEF Close
  <2>. QED
    BY <2>3, <2>4, <2>5
<1>2. CASE Establish
  BY <1>2 DEF Establish
<1>3. CASE KotlinThrows \/ JniRejects \/ StartFails \/ StartFailsLate
  <2>1. cur \in Attempts /\ Close(cur)
    BY <1>3 DEF KotlinThrows, JniRejects, StartFails, StartFailsLate
  <2>2. UNCHANGED <<cur, num, leaf, slot>> /\ stage' = "failed" /\ late' \subseteq late \cup {cur}
    BY <1>3 DEF KotlinThrows, JniRejects, StartFails, StartFailsLate
  <2>. QED
    BY <1>1, <2>1, <2>2
<1>4. CASE CallNative \/ EnterCore \/ AfterFailure \/ StopTunnel
  <2>1. UNCHANGED <<table, cur, num, leaf, closes, late, struck>>
    BY <1>4 DEF CallNative, EnterCore, AfterFailure, StopTunnel
  <2>2. stage' \in Stages /\ slot' \in 0..MaxAttempts
    BY <1>4 DEF CallNative, EnterCore, AfterFailure, StopTunnel
  <2>. QED
    BY <2>1, <2>2
<1>5. CASE SpawnLeafMain \/ Publish
  BY <1>5 DEF SpawnLeafMain, Publish
<1>6. ASSUME NEW a \in Attempts, LeafStep(a) PROVE TypeOK'
  <2>1. leaf' \in [Attempts -> LeafStates] /\ UNCHANGED <<cur, stage, num, late, slot>>
    BY <1>6 DEF LeafStep, LeafOpens, LeafDies, LeafCloses
  <2>2. UNCHANGED <<table, closes, struck>> \/ Close(a)
    BY <1>6 DEF LeafStep, LeafOpens, LeafDies, LeafCloses
  <2>. QED
    BY <1>1, <2>1, <2>2
<1>7. ASSUME NEW f \in Fds, OpenOther(f) \/ CloseOther(f) PROVE TypeOK'
  BY <1>7 DEF OpenOther, CloseOther
<1>8. CASE UNCHANGED vars
  BY <1>8 DEF vars
<1>. QED
  BY <1>2, <1>3, <1>4, <1>5, <1>6, <1>7, <1>8 DEF Next, MainStep

\* Every step keeps the order of the hand-over.
LEMMA OrderStep == TypeOK /\ Order /\ [Next]_vars => Order'
<1>. SUFFICES ASSUME TypeOK, Order, [Next]_vars PROVE Order'
  OBVIOUS
<1>. USE FdAssumption DEF TypeOK, Order, Attempts, NoAttempt, Guarded, Advance, LeafStates
<1>1. CASE Establish
  BY <1>1 DEF Establish
<1>2. CASE KotlinThrows \/ JniRejects \/ StartFails
  BY <1>2 DEF KotlinThrows, JniRejects, StartFails
<1>3. CASE CallNative \/ EnterCore \/ AfterFailure \/ StopTunnel \/ Publish
  BY <1>3 DEF CallNative, EnterCore, AfterFailure, StopTunnel, Publish
<1>4. CASE SpawnLeafMain
  BY <1>4 DEF SpawnLeafMain
<1>5. CASE StartFailsLate
  BY <1>5 DEF StartFailsLate
<1>6. ASSUME NEW a \in Attempts, LeafStep(a) PROVE Order'
  <2>1. UNCHANGED <<cur, stage, late>>
    BY <1>6 DEF LeafStep, LeafOpens, LeafDies, LeafCloses
  <2>2. \A x \in Attempts : leaf'[x] = "none" <=> leaf[x] = "none"
    BY <1>6 DEF LeafStep, LeafOpens, LeafDies, LeafCloses
  <2>. QED
    BY <2>1, <2>2
<1>7. ASSUME NEW f \in Fds, OpenOther(f) \/ CloseOther(f) PROVE Order'
  BY <1>7 DEF OpenOther, CloseOther
<1>8. CASE UNCHANGED vars
  BY <1>8 DEF vars
<1>. QED
  BY <1>1, <1>2, <1>3, <1>4, <1>5, <1>6, <1>7, <1>8 DEF Next, MainStep

\* Closing a number that is still the attempt's own hurts nobody.
LEMMA CloseIsCounted ==
    ASSUME TypeOK, Counted, NEW a \in Attempts, Close(a), a <= cur, a \notin late,
           closes[a] = 0
    PROVE  /\ \A x \in Attempts \ {a} : closes'[x] = closes[x]
           /\ closes'[a] = 1
           /\ late = {} => struck' = {}
           /\ late = {} => \A x \in (1..cur) \ {a} : closes[x] = 0 => table'[num[x]] = x
<1>1. (\A x \in Attempts \ {a} : closes'[x] = closes[x]) /\ closes'[a] = 1
  BY DEF TypeOK, Close
<1>2. ASSUME late = {} PROVE table[num[a]] = a /\ struck = {}
  BY <1>2, FdAssumption DEF Counted, Attempts, TypeOK
<1>3. late = {} => struck' = {}
  BY <1>2 DEF Close
<1>4. ASSUME late = {}, NEW x \in (1..cur) \ {a}, closes[x] = 0 PROVE table'[num[x]] = x
  <2>1. table[num[x]] = x /\ x \in Attempts
    BY <1>4, FdAssumption DEF Counted, Attempts, TypeOK
  <2>2. num[x] \in Fds /\ num[x] # num[a]
    BY <1>2, <1>4, <2>1 DEF TypeOK
  <2>. QED
    BY <2>1, <2>2 DEF Close, TypeOK
<1>. QED
  BY <1>1, <1>3, <1>4

\* Every step keeps the count.
LEMMA CountedStep == TypeOK /\ Order /\ Counted /\ [Next]_vars => Counted'
<1>. SUFFICES ASSUME TypeOK, Order, Counted, [Next]_vars PROVE Counted'
  OBVIOUS
<1>. USE FdAssumption DEF Attempts, Advance
<1>0. \A a \in Attempts : closes[a] \in Nat /\ leaf[a] \in LeafStates
  BY DEF TypeOK
<1>1. CASE Establish
  <2>1. PICK f \in Fds : /\ table[f] = Free
                         /\ table' = [table EXCEPT ![f] = cur + 1]
                         /\ num' = [num EXCEPT ![cur + 1] = f]
    BY <1>1 DEF Establish
  <2>2. cur + 1 \in Attempts /\ cur' = cur + 1 /\ UNCHANGED <<leaf, closes, late, struck>>
    BY <1>1 DEF Establish, TypeOK
  <2>3. \A a \in Attempts \ late' : closes'[a] = Expected(a)'
    BY <1>1, <2>2 DEF Establish, TypeOK, Order, Counted, Expected, Guarded
  <2>4. ASSUME late = {}, NEW a \in 1..(cur + 1), closes[a] = 0 PROVE table'[num'[a]] = a
    <3>1. CASE a = cur + 1
      BY <2>1, <2>2, <3>1 DEF TypeOK
    <3>2. CASE a # cur + 1
      <4>1. a \in 1..cur /\ a \in Attempts /\ num'[a] = num[a]
        BY <2>1, <2>2, <3>2 DEF TypeOK
      <4>2. table[num[a]] = a /\ a # Free /\ num[a] \in Fds
        BY <2>4, <4>1 DEF Counted, TypeOK
      <4>. QED
        BY <2>1, <4>1, <4>2 DEF TypeOK
    <3>. QED
      BY <3>1, <3>2
  <2>. QED
    BY <2>2, <2>3, <2>4 DEF Counted
<1>2. CASE KotlinThrows \/ JniRejects \/ StartFails
  <2>1. stage \in {"kotlin", "jni", "core"} /\ stage' = "failed" /\ Close(cur)
        /\ UNCHANGED <<cur, num, leaf, late, slot>>
    BY <1>2 DEF KotlinThrows, JniRejects, StartFails
  <2>2. cur \in Attempts /\ cur \notin late /\ leaf[cur] = "none" /\ cur <= cur
    BY <2>1 DEF TypeOK, Order, Guarded
  <2>3. closes[cur] = 0
    BY <2>1, <2>2 DEF Counted, Expected, Guarded
  <2>4. \A a \in Attempts \ {cur} : Expected(a)' = Expected(a)
    BY <2>1 DEF Expected, Guarded
  <2>5. Expected(cur)' = 1
    BY <2>1, <2>2 DEF Expected, Guarded
  <2>6. /\ \A x \in Attempts \ {cur} : closes'[x] = closes[x]
        /\ closes'[cur] = 1
        /\ late = {} => struck' = {}
        /\ late = {} => \A x \in (1..cur) \ {cur} : closes[x] = 0 => table'[num[x]] = x
    BY <2>1, <2>2, <2>3, CloseIsCounted
  <2>7. (1..cur) \subseteq Attempts
    BY DEF TypeOK
  <2>11. \A a \in Attempts \ late' : closes'[a] = Expected(a)'
    BY <2>1, <2>2, <2>4, <2>5, <2>6, <2>7 DEF Counted
  <2>12. \A a \in late' : closes'[a] >= 1
    BY <2>1, <2>2, <2>4, <2>5, <2>6, <2>7 DEF Counted, TypeOK
  <2>13. late' = {} => struck' = {}
    BY <2>1, <2>2, <2>4, <2>5, <2>6, <2>7 DEF Counted
  <2>14. late' = {} => \A a \in 1..cur' : closes'[a] = 0 => table'[num'[a]] = a
    BY <2>1, <2>2, <2>4, <2>5, <2>6, <2>7 DEF Counted
  <2>. QED
    BY <2>11, <2>12, <2>13, <2>14 DEF Counted
<1>3. CASE CallNative \/ EnterCore \/ AfterFailure \/ StopTunnel \/ Publish
  <2>1. KeepFds /\ UNCHANGED <<cur, num, leaf, late>>
    BY <1>3 DEF CallNative, EnterCore, AfterFailure, StopTunnel, Publish
  <2>2. ASSUME NEW a \in Attempts, leaf[a] = "none" PROVE a \in Guarded' <=> a \in Guarded
    BY <1>3, <2>2 DEF CallNative, EnterCore, AfterFailure, StopTunnel, Publish, Guarded, Order
  <2>3. \A a \in Attempts : Expected(a)' = Expected(a)
    BY <2>1, <2>2 DEF Expected
  <2>. QED
    BY <2>1, <2>3 DEF KeepFds, Counted
<1>4. CASE SpawnLeafMain
  <2>1. KeepFds /\ UNCHANGED <<cur, num, late>> /\ cur \in Attempts
    BY <1>4 DEF SpawnLeafMain, Order
  <2>2. \A a \in Attempts : Expected(a)' = Expected(a)
    BY <1>4 DEF SpawnLeafMain, TypeOK, Order, Expected, Guarded
  <2>. QED
    BY <2>1, <2>2 DEF KeepFds, Counted
<1>5. CASE StartFailsLate
  <2>1. Close(cur) /\ late' = late \cup {cur} /\ UNCHANGED <<cur, num, leaf>> /\ cur \in Attempts
    BY <1>5 DEF StartFailsLate, Order
  <2>2. \A a \in Attempts \ {cur} : closes'[a] = closes[a]
    BY <2>1 DEF Close, TypeOK
  <2>3. \A a \in Attempts \ {cur} : Expected(a)' = Expected(a)
    BY <1>5, <2>1 DEF StartFailsLate, Expected, Guarded
  <2>4. closes'[cur] >= 1
    BY <1>0, <2>1 DEF Close, TypeOK
  <2>11. \A a \in Attempts \ late' : closes'[a] = Expected(a)'
    BY <2>1, <2>2, <2>3, <2>4 DEF Counted
  <2>12. \A a \in late' : closes'[a] >= 1
    BY <2>1, <2>2, <2>3, <2>4 DEF Counted, TypeOK
  <2>13. late' = {} => struck' = {}
    BY <2>1, <2>2, <2>3, <2>4 DEF Counted
  <2>14. late' = {} => \A a \in 1..cur' : closes'[a] = 0 => table'[num'[a]] = a
    BY <2>1, <2>2, <2>3, <2>4 DEF Counted
  <2>. QED
    BY <2>11, <2>12, <2>13, <2>14 DEF Counted
<1>6. ASSUME NEW a \in Attempts, LeafOpens(a) \/ LeafDies(a) PROVE Counted'
  <2>1. KeepFds /\ UNCHANGED <<cur, stage, num, late>>
    BY <1>6 DEF LeafOpens, LeafDies
  <2>2. \A x \in Attempts : Expected(x)' = Expected(x)
    BY <1>6, <2>1 DEF LeafOpens, LeafDies, TypeOK, Expected, Guarded
  <2>. QED
    BY <2>1, <2>2 DEF KeepFds, Counted
<1>7. ASSUME NEW a \in Attempts, LeafCloses(a) PROVE Counted'
  <2>1. Close(a) /\ leaf[a] = "open" /\ a <= cur /\ UNCHANGED <<cur, stage, num, late>>
    BY <1>7 DEF LeafCloses, Order, TypeOK
  <2>2. Expected(a)' = 1 /\ \A x \in Attempts \ {a} : Expected(x)' = Expected(x)
    BY <1>7, <2>1 DEF LeafCloses, TypeOK, Expected, Guarded
  <2>3. CASE a \notin late
    <3>1. closes[a] = 0
      BY <2>1, <2>3 DEF Counted, Expected
    <3>2. /\ \A x \in Attempts \ {a} : closes'[x] = closes[x]
          /\ closes'[a] = 1
          /\ late = {} => struck' = {}
          /\ late = {} => \A x \in (1..cur) \ {a} : closes[x] = 0 => table'[num[x]] = x
      BY <2>1, <2>3, <3>1, CloseIsCounted
    <3>3. (1..cur) \subseteq Attempts
      BY DEF TypeOK
    <3>11. \A x \in Attempts \ late' : closes'[x] = Expected(x)'
      BY <2>1, <2>2, <2>3, <3>2, <3>3 DEF Counted
    <3>12. \A x \in late' : closes'[x] >= 1
      BY <2>1, <2>2, <2>3, <3>2, <3>3 DEF Counted, TypeOK
    <3>13. late' = {} => struck' = {}
      BY <2>1, <2>2, <2>3, <3>2, <3>3 DEF Counted
    <3>14. late' = {} => \A x \in 1..cur' : closes'[x] = 0 => table'[num'[x]] = x
      BY <2>1, <2>2, <2>3, <3>2, <3>3 DEF Counted
    <3>. QED
      BY <3>11, <3>12, <3>13, <3>14 DEF Counted
  <2>4. CASE a \in late
    <3>1. closes'[a] >= 1 /\ \A x \in Attempts \ {a} : closes'[x] = closes[x]
      BY <1>0, <2>1 DEF Close, TypeOK
    <3>11. \A x \in Attempts \ late' : closes'[x] = Expected(x)'
      BY <2>1, <2>2, <2>4, <3>1 DEF Counted
    <3>12. \A x \in late' : closes'[x] >= 1
      BY <2>1, <2>2, <2>4, <3>1 DEF Counted, TypeOK
    <3>13. late' = {} => struck' = {}
      BY <2>1, <2>2, <2>4, <3>1 DEF Counted
    <3>14. late' = {} => \A x \in 1..cur' : closes'[x] = 0 => table'[num'[x]] = x
      BY <2>1, <2>2, <2>4, <3>1 DEF Counted
    <3>. QED
      BY <3>11, <3>12, <3>13, <3>14 DEF Counted
  <2>. QED
    BY <2>3, <2>4
<1>8. ASSUME NEW f \in Fds, OpenOther(f) \/ CloseOther(f) PROVE Counted'
  <2>1. UNCHANGED <<cur, stage, num, leaf, closes, late, struck>>
    BY <1>8 DEF OpenOther, CloseOther
  <2>2. \A a \in Attempts : table[num[a]] = a => table'[num[a]] = a
    BY <1>8 DEF OpenOther, CloseOther, TypeOK
  <2>3. (1..cur) \subseteq Attempts
    BY DEF TypeOK
  <2>. QED
    BY <2>1, <2>2, <2>3 DEF Counted, Expected, Guarded
<1>9. CASE UNCHANGED vars
  BY <1>9 DEF vars, Counted, Expected, Guarded
<1>. QED
  BY <1>1, <1>2, <1>3, <1>4, <1>5, <1>6, <1>7, <1>8, <1>9 DEF Next, MainStep, LeafStep

LEMMA Inductive == Spec => []IInv
<1>1. Init => IInv
  BY FdAssumption
  DEF Init, IInv, TypeOK, Order, Counted, Expected, Guarded, Attempts, NoAttempt, Stages, LeafStates
<1>. QED
  BY <1>1, TypingStep, OrderStep, CountedStep, PTL DEF Spec, IInv

-----------------------------------------------------------------------------

\* The variables keep their types.
THEOREM TypeCorrect == Spec => []TypeOK
BY Inductive, PTL DEF IInv

\* No descriptor is lost between its holders.
THEOREM NoDescriptorIsLost == Spec => []OwnedUntilClosed
<1>1. IInv => OwnedUntilClosed
  BY FdAssumption
  DEF IInv, TypeOK, Order, Counted, Expected, OwnedUntilClosed, Attempts, LeafStates
<1>. QED
  BY <1>1, Inductive, PTL

\* Only a bring-up that fails after leaf-main was spawned closes twice.
THEOREM DoubleCloseIsLate == Spec => []DoubleCloseNeedsLateFailure
<1>1. IInv => DoubleCloseNeedsLateFailure
  BY DEF IInv, Counted, Expected, DoubleCloseNeedsLateFailure
<1>. QED
  BY <1>1, Inductive, PTL

\* Only such a failure ever closes a stranger's file.
THEOREM NobodyElseIsStruck == Spec => []StrangersAreSafe
<1>1. IInv => StrangersAreSafe
  BY DEF IInv, Counted, StrangersAreSafe
<1>. QED
  BY <1>1, Inductive, PTL

\* Without such a failure an open TUN keeps its number.
THEOREM TunStaysOpen == Spec => []RunningTunIntact
<1>1. IInv => RunningTunIntact
  BY FdAssumption DEF IInv, TypeOK, Order, Counted, Expected, RunningTunIntact, Attempts
<1>. QED
  BY <1>1, Inductive, PTL
==================================================================================
