------------------------------ MODULE EngineProofs ------------------------------
(*******************************************************************************)
(* Proofs about Engine, for any callers, numbers of sessions and of queries,   *)
(* whatever leaf does with an early shutdown, and with or without join         *)
(* timeouts; the sections on reaping and on the socket path assume that no     *)
(* join times out, and the last also that there is one caller.                 *)
(*******************************************************************************)
EXTENDS Engine, TLAPS

-----------------------------------------------------------------------------
(* Typing *)

\* An update of one entry of one entry keeps a two-level function's type.
LEMMA NestedUpdate ==
    ASSUME NEW A, NEW B, NEW C, NEW f \in [A -> [B -> C]],
           NEW a \in A, NEW b \in B, NEW v \in C
    PROVE  [f EXCEPT ![a][b] = v] \in [A -> [B -> C]]
OBVIOUS

\* What such an update leaves at each place.
LEMMA NestedValue ==
    ASSUME NEW A, NEW B, NEW C, NEW f \in [A -> [B -> C]],
           NEW a \in A, NEW b \in B, NEW v, NEW x \in A, NEW y \in B
    PROVE  [f EXCEPT ![a][b] = v][x][y] = IF x = a /\ y = b THEN v ELSE f[x][y]
OBVIOUS

\* An update of one whole row keeps it too.
LEMMA RowUpdate ==
    ASSUME NEW A, NEW B, NEW C, NEW f \in [A -> [B -> C]], NEW a,
           NEW row \in [B -> C]
    PROVE  [f EXCEPT ![a] = row] \in [A -> [B -> C]]
OBVIOUS

\* A caller in the middle of a bring-up or tear-down has a session.
Busy == \A c \in Callers : pc[c] \in Building \cup Stopping => ses[c] \in Sessions

\* Every step keeps the types.
LEMMA TypingStep == TypeOK /\ Busy /\ [Next]_vars => TypeOK'
<1>. SUFFICES ASSUME TypeOK, Busy, [Next]_vars PROVE TypeOK'
  OBVIOUS
<1>. USE EngineAssumption
     DEF TypeOK, Sessions, None, Tasks, Labels, Holding, Building, Stopping,
         ThreadStates, WatchStates, TaskStates, callVars, taskVars, Go, CancelSession
<1>1. ASSUME NEW c \in Callers, Call(c) PROVE TypeOK'
  BY <1>1 DEF Call, CallStart, CallStop, CallStatus
<1>2. ASSUME NEW c \in Callers, Enter(c) PROVE TypeOK'
  <2>1. CASE AlreadyRunning(c) \/ NothingToStop(c) \/ ReadStatus(c)
    BY <2>1 DEF AlreadyRunning, NothingToStop, ReadStatus
  <2>2. CASE Begin(c)
    BY <2>2 DEF Begin
  <2>3. CASE Take(c)
    BY <2>3 DEF Take
  <2>. QED
    BY <1>2, <2>1, <2>2, <2>3 DEF Enter
<1>3. ASSUME NEW c \in Callers, StartStep(c) PROVE TypeOK'
  <2>0. ASSUME NEW role, SpawnLeaf(ses[c], role), ses[c] \in Sessions
        PROVE  /\ thread' \in [Sessions -> [Roles -> ThreadStates]]
               /\ watch' \in [Sessions -> [Roles -> WatchStates]]
    <3>1. [r \in Roles |-> IF r = role THEN "queued" ELSE thread[ses[c]][r]]
              \in [Roles -> ThreadStates]
      BY <2>0
    <3>2. [r \in Roles |-> IF r = role THEN "watching" ELSE watch[ses[c]][r]]
              \in [Roles -> WatchStates]
      BY <2>0
    <3>. QED
      BY <2>0, <3>1, <3>2, RowUpdate DEF SpawnLeaf
  <2>1. CASE StartPt(c)
    BY <2>0, <2>1 DEF StartPt, Busy
  <2>2. CASE StartArti(c)
    BY <2>2 DEF StartArti, SpawnTask
  <2>3. CASE StartLeaf(c)
    BY <2>0, <2>3 DEF StartLeaf, Busy
  <2>4. CASE StartDns(c)
    BY <2>4 DEF StartDns, SpawnTask
  <2>5. CASE StartIpc(c)
    <3>1. ses[c] \in Sessions \cup {None} /\ path' \in Sessions \cup {None}
      BY <2>5 DEF StartIpc
    <3>. QED
      BY <2>5, <3>1 DEF StartIpc, SpawnTask
  <2>6. CASE StartFails(c)
    <3>1. path' \in Sessions \cup {None}
      BY <2>6 DEF StartFails
    <3>2. cancelled' \in [Sessions -> BOOLEAN]
      BY <2>6 DEF StartFails
    <3>. QED
      BY <2>6, <3>1, <3>2 DEF StartFails
  <2>7. CASE Unwind(c)
    BY <2>7 DEF Unwind
  <2>8. CASE Publish(c)
    BY <2>8 DEF Publish
  <2>. QED
    BY <1>3, <2>1, <2>2, <2>3, <2>4, <2>5, <2>6, <2>7, <2>8 DEF StartStep
<1>4. ASSUME NEW c \in Callers, StopStep(c) PROVE TypeOK'
  <2>1. CASE StopCancel(c)
    BY <2>1 DEF StopCancel
  <2>2. CASE StopPt(c)
    BY <2>2 DEF StopPt
  <2>3. CASE AbortTask(c)
    BY <2>3 DEF AbortTask
  <2>4. CASE JoinTask(c)
    BY <2>4 DEF JoinTask, JoinWith, AfterTask
  <2>5. CASE Finish(c)
    BY <2>5 DEF Finish
  <2>. QED
    BY <1>4, <2>1, <2>2, <2>3, <2>4, <2>5 DEF StopStep
<1>5. ASSUME NEW s \in Sessions, NEW r \in Roles, LeafStep(s, r) \/ ThreadFails(s, r)
      PROVE  TypeOK'
  <2>1. thread' \in [Sessions -> [Roles -> ThreadStates]]
    <3>1. CASE UNCHANGED thread
      BY <3>1
    <3>2. ASSUME NEW v \in ThreadStates, thread' = [thread EXCEPT ![s][r] = v]
          PROVE  thread' \in [Sessions -> [Roles -> ThreadStates]]
      BY <3>2, NestedUpdate
    <3>3. \/ UNCHANGED thread
          \/ \E v \in ThreadStates : thread' = [thread EXCEPT ![s][r] = v]
      BY <1>5 DEF LeafStep, ThreadStarts, ThreadReturns, WatcherFires, ThreadFails, ThreadExit
    <3>. QED
      BY <3>1, <3>2, <3>3
  <2>2. watch' \in [Sessions -> [Roles -> WatchStates]]
    <3>1. CASE UNCHANGED watch
      BY <3>1
    <3>2. ASSUME NEW v \in WatchStates, watch' = [watch EXCEPT ![s][r] = v]
          PROVE  watch' \in [Sessions -> [Roles -> WatchStates]]
      BY <3>2, NestedUpdate
    <3>3. \/ UNCHANGED watch
          \/ \E v \in WatchStates : watch' = [watch EXCEPT ![s][r] = v]
      BY <1>5 DEF LeafStep, ThreadStarts, ThreadReturns, WatcherFires, ThreadFails, ThreadExit
    <3>. QED
      BY <3>1, <3>2, <3>3
  <2>3. cancelled' \in [Sessions -> BOOLEAN]
    BY <1>5 DEF LeafStep, ThreadStarts, ThreadReturns, WatcherFires, ThreadFails, ThreadExit
  <2>4. UNCHANGED <<callVars, task, aborted, inflight, path, running>>
    BY <1>5 DEF LeafStep, ThreadStarts, ThreadReturns, WatcherFires, ThreadFails, ThreadExit
  <2>. QED
    BY <2>1, <2>2, <2>3, <2>4
<1>6. ASSUME NEW s \in Sessions, NEW t \in Tasks, TaskStep(s, t) PROVE TypeOK'
  <2>1. task' \in [Sessions -> [Tasks -> TaskStates]]
    <3>1. task' = [task EXCEPT ![s][t] = "done"]
      BY <1>6 DEF TaskStep, TaskCancelled, TaskAborted, EndTask
    <3>. QED
      BY <3>1, NestedUpdate
  <2>2. path' \in Sessions \cup {None}
    BY <1>6 DEF TaskStep, TaskCancelled, TaskAborted
  <2>3. UNCHANGED <<callVars, cancelled, thread, watch, aborted, inflight, running>>
    BY <1>6 DEF TaskStep, TaskCancelled, TaskAborted, EndTask
  <2>. QED
    BY <2>1, <2>2, <2>3
<1>7. ASSUME NEW s \in Sessions, ArtiReady(s) \/ ArtiFails(s) PROVE TypeOK'
  <2>1. task' \in [Sessions -> [Tasks -> TaskStates]]
    <3>1. \E v \in TaskStates : task' = [task EXCEPT ![s]["arti"] = v]
      BY <1>7 DEF ArtiReady, ArtiFails, EndTask
    <3>. QED
      BY <3>1, NestedUpdate
  <2>2. cancelled' \in [Sessions -> BOOLEAN]
    BY <1>7 DEF ArtiReady, ArtiFails
  <2>3. UNCHANGED <<callVars, thread, watch, aborted, inflight, path, running>>
    BY <1>7 DEF ArtiReady, ArtiFails, EndTask
  <2>. QED
    BY <2>1, <2>2, <2>3
<1>8. ASSUME NEW s \in Sessions, QueryArrives(s) \/ QueryDone(s) PROVE TypeOK'
  <2>1. inflight' \in [Sessions -> 0..MaxInflight]
    <3>1. inflight[s] \in 0..MaxInflight
      OBVIOUS
    <3>2. CASE QueryArrives(s)
      <4>1. inflight[s] + 1 \in 0..MaxInflight
        BY <3>1, <3>2 DEF QueryArrives
      <4>. QED
        BY <3>2, <4>1 DEF QueryArrives
    <3>3. CASE QueryDone(s)
      <4>1. inflight[s] - 1 \in 0..MaxInflight
        BY <3>1, <3>3 DEF QueryDone
      <4>. QED
        BY <3>3, <4>1 DEF QueryDone
    <3>. QED
      BY <1>8, <3>2, <3>3
  <2>2. UNCHANGED <<callVars, cancelled, thread, watch, task, aborted, path, running>>
    BY <1>8 DEF QueryArrives, QueryDone
  <2>. QED
    BY <2>1, <2>2
<1>9. ASSUME NEW s \in Sessions, IpcStop(s) PROVE TypeOK'
  BY <1>9 DEF IpcStop
<1>10. CASE UNCHANGED vars
  BY <1>10 DEF vars
<1>. QED
  BY <1>1, <1>2, <1>3, <1>4, <1>5, <1>6, <1>7, <1>8, <1>9, <1>10 DEF Next, Environment

-----------------------------------------------------------------------------
(* Who holds what *)

\* The caller that holds the mutex is in its bring-up, which it began with an
\* empty slot; a session has one caller at most, and leaves the slot before a
\* caller tears it down; a session not begun has spawned nothing.
Ownership ==
    /\ \A c \in Callers : pc[c] \in Holding <=> lock = c
    /\ \A c \in Callers : pc[c] \in Building => slot = None
    /\ \A c \in Callers : pc[c] \in Building \cup Stopping => ses[c] \in Begun /\ ses[c] # slot
    /\ \A c \in Callers : pc[c] \notin Building \cup Stopping => ses[c] = None
    /\ \A c, d \in Callers : c # d /\ ses[c] # None => ses[c] # ses[d]
    /\ slot \in Begun \cup {None}
    /\ \A s \in Sessions : Spawned(s) => s \in Begun

\* What a step of a thread, task, query or client leaves alone: the callers'
\* state, which sessions have spawned something, and a token that was thrown.
LEMMA Background ==
    ASSUME TypeOK, NEW s \in Sessions,
           \/ \E r \in Roles : LeafStep(s, r)
           \/ \E t \in Tasks : TaskStep(s, t)
           \/ QueryDone(s)
           \/ Environment(s)
    PROVE  /\ UNCHANGED callVars
           /\ \A x \in Sessions : Spawned(x)' <=> Spawned(x)
           /\ \A x \in Sessions : cancelled[x] => cancelled'[x]
<1>. USE DEF TypeOK, ThreadStates, TaskStates, CancelSession
<1>1. ASSUME NEW r \in Roles, LeafStep(s, r) \/ ThreadFails(s, r)
      PROVE  /\ UNCHANGED <<callVars, task>>
             /\ \A x \in Sessions, y \in Roles : thread'[x][y] = "none" <=> thread[x][y] = "none"
             /\ \A x \in Sessions : cancelled[x] => cancelled'[x]
  <2>1. ASSUME NEW v \in ThreadStates \ {"none"}, thread[s][r] # "none",
               thread' = [thread EXCEPT ![s][r] = v]
        PROVE  \A x \in Sessions, y \in Roles : thread'[x][y] = "none" <=> thread[x][y] = "none"
    BY <2>1, NestedValue
  <2>2. \/ UNCHANGED thread
        \/ /\ thread[s][r] # "none"
           /\ \E v \in ThreadStates \ {"none"} : thread' = [thread EXCEPT ![s][r] = v]
    BY <1>1 DEF LeafStep, ThreadStarts, ThreadReturns, WatcherFires, ThreadFails, ThreadExit
  <2>3. UNCHANGED <<callVars, task>>
    BY <1>1 DEF LeafStep, ThreadStarts, ThreadReturns, WatcherFires, ThreadFails, ThreadExit
  <2>4. \A x \in Sessions : cancelled[x] => cancelled'[x]
    BY <1>1 DEF LeafStep, ThreadStarts, ThreadReturns, WatcherFires, ThreadFails, ThreadExit
  <2>. QED
    BY <2>1, <2>2, <2>3, <2>4
<1>2. ASSUME NEW t \in Tasks, NEW v \in TaskStates \ {"none"}, task[s][t] # "none",
             task' = [task EXCEPT ![s][t] = v]
      PROVE  \A x \in Sessions, y \in Tasks : task'[x][y] = "none" <=> task[x][y] = "none"
  BY <1>2, NestedValue
<1>3. ASSUME NEW t \in Tasks, TaskStep(s, t)
      PROVE  /\ UNCHANGED <<callVars, cancelled, thread>>
             /\ \A x \in Sessions, y \in Tasks : task'[x][y] = "none" <=> task[x][y] = "none"
  <2>1. task[s][t] # "none" /\ task' = [task EXCEPT ![s][t] = "done"]
    BY <1>3 DEF TaskStep, TaskCancelled, TaskAborted, EndTask
  <2>2. UNCHANGED <<callVars, cancelled, thread>>
    BY <1>3 DEF TaskStep, TaskCancelled, TaskAborted, EndTask
  <2>. QED
    BY <1>2, <2>1, <2>2
<1>4. ASSUME ArtiReady(s) \/ ArtiFails(s)
      PROVE  /\ UNCHANGED <<callVars, thread>>
             /\ \A x \in Sessions, y \in Tasks : task'[x][y] = "none" <=> task[x][y] = "none"
             /\ \A x \in Sessions : cancelled[x] => cancelled'[x]
  <2>1. /\ task[s]["arti"] # "none"
        /\ \E v \in TaskStates \ {"none"} : task' = [task EXCEPT ![s]["arti"] = v]
    BY <1>4 DEF ArtiReady, ArtiFails, EndTask
  <2>2. UNCHANGED <<callVars, thread>>
    BY <1>4 DEF ArtiReady, ArtiFails, EndTask
  <2>3. \A x \in Sessions : cancelled[x] => cancelled'[x]
    BY <1>4 DEF ArtiReady, ArtiFails
  <2>4. "arti" \in Tasks
    BY DEF Tasks
  <2>. QED
    BY <1>2, <2>1, <2>2, <2>3, <2>4
<1>5. ASSUME QueryArrives(s) \/ QueryDone(s) \/ IpcStop(s)
      PROVE  /\ UNCHANGED <<callVars, thread, task>>
             /\ \A x \in Sessions : cancelled[x] => cancelled'[x]
  BY <1>5 DEF QueryArrives, QueryDone, IpcStop, taskVars
<1>6. /\ UNCHANGED callVars
      /\ \A x \in Sessions, y \in Roles : thread'[x][y] = "none" <=> thread[x][y] = "none"
      /\ \A x \in Sessions, y \in Tasks : task'[x][y] = "none" <=> task[x][y] = "none"
      /\ \A x \in Sessions : cancelled[x] => cancelled'[x]
  BY <1>1, <1>3, <1>4, <1>5 DEF Environment
<1>. QED
  BY <1>6 DEF Spawned

\* Every step keeps the ownership.
LEMMA OwnershipStep == TypeOK /\ Ownership /\ [Next]_vars => Ownership'
<1>. SUFFICES ASSUME TypeOK, Ownership, [Next]_vars PROVE Ownership'
  OBVIOUS
<1>. USE EngineAssumption
     DEF TypeOK, Ownership, Begun, Sessions, None, Holding, Building, Stopping, callVars, Go
<1>1. ASSUME UNCHANGED <<thread, task>> PROVE \A s \in Sessions : Spawned(s)' <=> Spawned(s)
  BY <1>1 DEF Spawned
<1>2. ASSUME NEW c \in Callers, Call(c) PROVE Ownership'
  <2>1. \E to \in {"start", "stop", "status"} : Go(c, "idle", to)
    BY <1>2 DEF Call, CallStart, CallStop, CallStatus
  <2>2. UNCHANGED <<lock, slot, born, ses, thread, task>>
    BY <1>2 DEF Call, CallStart, CallStop, CallStatus, taskVars
  <2>. QED
    BY <1>1, <2>1, <2>2
<1>3. ASSUME NEW c \in Callers, Enter(c) PROVE Ownership'
  <2>1. CASE AlreadyRunning(c) \/ NothingToStop(c) \/ ReadStatus(c)
    <3>1. \E from \in {"start", "stop", "status"} : Go(c, from, "idle")
      BY <2>1 DEF AlreadyRunning, NothingToStop, ReadStatus
    <3>2. UNCHANGED <<lock, slot, born, ses, thread, task>>
      BY <2>1 DEF AlreadyRunning, NothingToStop, ReadStatus, taskVars
    <3>. QED
      BY <1>1, <3>1, <3>2
  <2>2. CASE Begin(c)
    <3>. USE <2>2 DEF Begin, taskVars
    <3>1. born + 1 \in Sessions /\ ses' = [ses EXCEPT ![c] = born + 1]
      OBVIOUS
    <3>2. \A d \in Callers : pc[d] \notin Holding
      OBVIOUS
    <3>3. \A d \in Callers : (pc[d] \in Holding <=> lock = d)'
      BY <3>2
    <3>4. \A d \in Callers : (pc[d] \in Building \cup Stopping => ses[d] \in Begun /\ ses[d] # slot)'
      BY <3>1
    <3>5. \A d \in Callers : (pc[d] \notin Building \cup Stopping => ses[d] = None)'
      BY <3>1
    <3>6. \A d, e \in Callers : (d # e /\ ses[d] # None => ses[d] # ses[e])'
      <4>1. \A d \in Callers : ses[d] # born + 1
        <5>1. \A d \in Callers : ses[d] = 0 \/ ses[d] \in 1..born
          OBVIOUS
        <5>2. born \in Nat
          OBVIOUS
        <5>3. born + 1 # 0 /\ born + 1 \notin 1..born
          BY <5>2
        <5>. QED
          BY <5>1, <5>3
      <4>. QED
        BY <3>1, <4>1
    <3>7. \A s \in Sessions : (Spawned(s) => s \in Begun)'
      BY <1>1
    <3>. QED
      BY <3>3, <3>4, <3>5, <3>6, <3>7
  <2>3. CASE Take(c)
    BY <1>1, <2>3 DEF Take, taskVars
  <2>. QED
    BY <1>3, <2>1, <2>2, <2>3 DEF Enter
<1>4. ASSUME NEW c \in Callers, StartStep(c) PROVE Ownership'
  <2>1. CASE StartPt(c) \/ StartArti(c) \/ StartLeaf(c) \/ StartDns(c) \/ StartIpc(c)
    <3>1. \A s \in Sessions : Spawned(s)' => Spawned(s) \/ s = ses[c]
      BY <2>1 DEF StartPt, StartArti, StartLeaf, StartDns, StartIpc, SpawnLeaf, SpawnTask,
                  Spawned, Tasks
    <3>2. \E to \in Building : Go(c, pc[c], to) /\ pc[c] \in Building
      BY <2>1 DEF StartPt, StartArti, StartLeaf, StartDns, StartIpc
    <3>3. UNCHANGED <<lock, slot, born, ses, turn>>
      BY <2>1 DEF StartPt, StartArti, StartLeaf, StartDns, StartIpc
    <3>. QED
      BY <3>1, <3>2, <3>3
  <2>2. CASE StartFails(c)
    BY <1>1, <2>2 DEF StartFails
  <2>3. CASE Unwind(c)
    BY <1>1, <2>3 DEF Unwind, taskVars
  <2>4. CASE Publish(c)
    BY <1>1, <2>4 DEF Publish, taskVars
  <2>. QED
    BY <1>4, <2>1, <2>2, <2>3, <2>4 DEF StartStep
<1>5. ASSUME NEW c \in Callers, StopStep(c) PROVE Ownership'
  <2>1. CASE Finish(c)
    BY <1>1, <2>1 DEF Finish, taskVars
  <2>2. CASE StopCancel(c) \/ StopPt(c) \/ AbortTask(c) \/ JoinTask(c)
    <3>1. \E to \in Stopping : Go(c, pc[c], to) /\ pc[c] \in Stopping
      BY <2>2 DEF StopCancel, StopPt, AbortTask, JoinTask, JoinWith
    <3>2. UNCHANGED <<lock, slot, born, ses, thread, task>>
      BY <2>2 DEF StopCancel, StopPt, AbortTask, JoinTask, JoinWith, taskVars
    <3>. QED
      BY <1>1, <3>1, <3>2
  <2>. QED
    BY <1>5, <2>1, <2>2 DEF StopStep
<1>6. ASSUME UNCHANGED callVars, \A s \in Sessions : Spawned(s)' <=> Spawned(s)
      PROVE  Ownership'
  BY <1>6
<1>7. CASE UNCHANGED vars
  BY <1>1, <1>6, <1>7 DEF vars, taskVars
<1>. QED
  BY <1>2, <1>3, <1>4, <1>5, <1>6, <1>7, Background DEF Next

LEMMA OwnershipInvariant == Spec => [](TypeOK /\ Ownership)
<1>1. Init => TypeOK
  BY EngineAssumption
  DEF Init, TypeOK, Sessions, None, Tasks, Labels, Holding, Building, Stopping,
      ThreadStates, WatchStates, TaskStates
<1>2. Init => Ownership
  BY EngineAssumption
  DEF Init, Ownership, Begun, Sessions, None, Holding, Building, Stopping, Spawned, Tasks
<1>3. TypeOK /\ Ownership => Busy
  BY EngineAssumption DEF TypeOK, Ownership, Busy, Begun, Sessions
<1>. QED
  BY <1>1, <1>2, <1>3, TypingStep, OwnershipStep, PTL DEF Spec

\* The variables keep their types.
THEOREM TypeCorrect == Spec => []TypeOK
BY OwnershipInvariant, PTL

-----------------------------------------------------------------------------
(* Nothing runs that nobody can stop *)

\* A bring-up that fails before the PT is there leaves nothing to cancel.
Untouched == \A c \in Callers : pc[c] = "pt" => ~Spawned(ses[c])

LEMMA UntouchedStep ==
    TypeOK /\ Ownership /\ Ownership' /\ Untouched /\ [Next]_vars => Untouched'
<1>. SUFFICES ASSUME TypeOK, Ownership, Ownership', Untouched, [Next]_vars,
                     NEW d \in Callers, pc'[d] = "pt"
              PROVE  ~Spawned(ses[d])'
  BY DEF Untouched
<1>. USE EngineAssumption
     DEF TypeOK, Ownership, Begun, Sessions, None, Holding, Building, Stopping, Go
<1>1. ASSUME pc[d] = "pt", ses'[d] = ses[d], \A s \in Sessions : Spawned(s)' <=> Spawned(s)
      PROVE  ~Spawned(ses[d])'
  <2>1. PICK x \in Sessions : x = ses[d] /\ ~Spawned(x)
    BY <1>1 DEF Untouched
  <2>2. ~Spawned(x)' /\ ses'[d] = x
    BY <1>1, <2>1
  <2>. QED
    BY <2>2 DEF Spawned
<1>2. ASSUME UNCHANGED <<thread, task>> PROVE \A s \in Sessions : Spawned(s)' <=> Spawned(s)
  BY <1>2 DEF Spawned
<1>3. ASSUME NEW c \in Callers, Begin(c) PROVE ~Spawned(ses[d])'
  <2>1. d = c
    BY <1>3 DEF Begin
  <2>2. ses'[c] = born + 1 /\ born + 1 \in Sessions /\ born + 1 \notin 1..born
    BY <1>3 DEF Begin
  <2>3. ~Spawned(born + 1)
    BY <2>2
  <2>. QED
    BY <1>2, <1>3, <2>1, <2>2, <2>3 DEF Begin, taskVars, Spawned
<1>4. ASSUME NEW c \in Callers, StartStep(c) PROVE ~Spawned(ses[d])'
  <2>1. pc[c] \in Holding /\ pc'[c] # "pt"
    BY <1>4 DEF StartStep, StartPt, StartArti, StartLeaf, StartDns, StartIpc, StartFails,
                Unwind, Publish
  <2>2. d = c
    <3>1. d # c => pc'[d] = pc[d]
      BY <1>4 DEF StartStep, StartPt, StartArti, StartLeaf, StartDns, StartIpc, StartFails,
                  Unwind, Publish
    <3>. QED
      BY <2>1, <3>1
  <2>. QED
    BY <2>1, <2>2
<1>5. ASSUME NEW c \in Callers,
             \/ Call(c) \/ AlreadyRunning(c) \/ NothingToStop(c) \/ ReadStatus(c)
             \/ Take(c) \/ StopStep(c)
      PROVE  ~Spawned(ses[d])'
  <2>1. UNCHANGED <<thread, task>>
    BY <1>5 DEF Call, CallStart, CallStop, CallStatus,
                AlreadyRunning, NothingToStop, ReadStatus, Take, StopStep,
                StopCancel, StopPt, AbortTask, JoinTask, JoinWith, Finish, taskVars
  <2>2. pc'[c] # "pt" /\ (d # c => pc'[d] = pc[d] /\ ses'[d] = ses[d])
    BY <1>5 DEF Call, CallStart, CallStop, CallStatus,
                AlreadyRunning, NothingToStop, ReadStatus, Take, StopStep,
                StopCancel, StopPt, AbortTask, JoinTask, JoinWith, Finish
  <2>. QED
    BY <1>1, <1>2, <2>1, <2>2
<1>6. CASE UNCHANGED vars
  BY <1>1, <1>2, <1>6 DEF vars, callVars, taskVars
<1>7. ASSUME NEW s \in Sessions,
             \/ \E r \in Roles : LeafStep(s, r)
             \/ \E t \in Tasks : TaskStep(s, t)
             \/ QueryDone(s)
             \/ Environment(s)
      PROVE  ~Spawned(ses[d])'
  <2>1. UNCHANGED callVars /\ \A x \in Sessions : Spawned(x)' <=> Spawned(x)
    BY <1>7, Background
  <2>. QED
    BY <1>1, <2>1 DEF callVars
<1>8. CASE \E c \in Callers : Call(c) \/ Enter(c) \/ StartStep(c) \/ StopStep(c)
  BY <1>3, <1>4, <1>5, <1>8 DEF Enter
<1>. QED
  BY <1>6, <1>7, <1>8 DEF Next

\* Every step keeps every live session in somebody's hands.
LEMMA OrphanStep ==
    TypeOK /\ Ownership /\ Untouched /\ NoOrphan /\ [Next]_vars => NoOrphan'
<1>. SUFFICES ASSUME TypeOK, Ownership, Untouched, NoOrphan, [Next]_vars,
                     NEW s \in Sessions, Live(s)'
              PROVE  \/ s = slot'
                     \/ \E c \in Callers : ses'[c] = s /\ pc'[c] \in Building \cup {"cancel"}
  BY DEF NoOrphan
<1>. DEFINE Held(c) == ses[c] = s /\ pc[c] \in Building \cup {"cancel"}
<1>. USE DEF TypeOK, Ownership, Building, Go
<1>0. ASSUME Live(s) PROVE s = slot \/ \E c \in Callers : Held(c)
  BY <1>0 DEF NoOrphan
<1>1. ASSUME UNCHANGED <<cancelled, thread, task>> PROVE Live(s)
  BY <1>1 DEF Live, Spawned
<1>2. ASSUME NEW c \in Callers,
             \/ Call(c) \/ AlreadyRunning(c) \/ NothingToStop(c) \/ ReadStatus(c)
             \/ Begin(c) \/ Unwind(c)
      PROVE  s = slot' \/ \E d \in Callers : Held(d)'
  <2>1. UNCHANGED <<cancelled, thread, task, slot>>
    BY <1>2 DEF Call, CallStart, CallStop, CallStatus,
                AlreadyRunning, NothingToStop, ReadStatus, Begin, Unwind, taskVars
  <2>2. \A d \in Callers : Held(d) => d # c
    BY <1>2 DEF Call, CallStart, CallStop, CallStatus,
                AlreadyRunning, NothingToStop, ReadStatus, Begin, Unwind
  <2>3. \A d \in Callers : d # c => pc'[d] = pc[d] /\ ses'[d] = ses[d]
    BY <1>2 DEF Call, CallStart, CallStop, CallStatus,
                AlreadyRunning, NothingToStop, ReadStatus, Begin, Unwind
  <2>. QED
    BY <1>0, <1>1, <2>1, <2>2, <2>3
<1>3. ASSUME NEW c \in Callers, Take(c) PROVE s = slot' \/ \E d \in Callers : Held(d)'
  <2>1. Live(s) /\ ses'[c] = slot /\ pc'[c] = "cancel"
    BY <1>1, <1>3 DEF Take, taskVars
  <2>2. \A d \in Callers : d # c => pc'[d] = pc[d] /\ ses'[d] = ses[d]
    BY <1>3 DEF Take
  <2>3. ~Held(c)
    BY <1>3 DEF Take
  <2>. QED
    BY <1>0, <2>1, <2>2, <2>3
<1>4. ASSUME NEW c \in Callers,
             StartPt(c) \/ StartArti(c) \/ StartLeaf(c) \/ StartDns(c) \/ StartIpc(c)
      PROVE  s = slot' \/ \E d \in Callers : Held(d)'
  <2>1. UNCHANGED <<cancelled, slot, ses>> /\ pc'[c] \in Building
    BY <1>4 DEF StartPt, StartArti, StartLeaf, StartDns, StartIpc
  <2>2. \A d \in Callers : d # c => pc'[d] = pc[d]
    BY <1>4 DEF StartPt, StartArti, StartLeaf, StartDns, StartIpc
  <2>3. s # ses[c] => (Spawned(s)' <=> Spawned(s))
    BY <1>4 DEF StartPt, StartArti, StartLeaf, StartDns, StartIpc, SpawnLeaf, SpawnTask, Spawned
  <2>. QED
    BY <1>0, <2>1, <2>2, <2>3 DEF Live
<1>5. ASSUME NEW c \in Callers, StartFails(c) PROVE s = slot' \/ \E d \in Callers : Held(d)'
  <2>1. Live(s)
    BY <1>5 DEF StartFails, CancelSession, Live, Spawned
  <2>2. ~Held(c)
    BY <1>5, <2>1 DEF StartFails, CancelSession, Untouched, Live
  <2>3. slot' = slot /\ \A d \in Callers : d # c => pc'[d] = pc[d] /\ ses'[d] = ses[d]
    BY <1>5 DEF StartFails
  <2>. QED
    BY <1>0, <2>1, <2>2, <2>3
<1>6. ASSUME NEW c \in Callers, Publish(c) PROVE s = slot' \/ \E d \in Callers : Held(d)'
  <2>1. Live(s) /\ slot = None /\ slot' = ses[c]
    BY <1>1, <1>6 DEF Publish, taskVars
  <2>2. \A d \in Callers : d # c => pc'[d] = pc[d] /\ ses'[d] = ses[d]
    BY <1>6 DEF Publish
  <2>. QED
    BY <1>0, <2>1, <2>2 DEF None, Sessions
<1>7. ASSUME NEW c \in Callers, StopStep(c) PROVE s = slot' \/ \E d \in Callers : Held(d)'
  <2>1. Live(s) /\ ~Held(c)
    <3>1. CASE StopCancel(c)
      BY <3>1 DEF StopCancel, CancelSession, Live, Spawned, taskVars
    <3>2. CASE StopPt(c) \/ AbortTask(c) \/ JoinTask(c) \/ Finish(c)
      BY <3>2 DEF StopPt, AbortTask, JoinTask, JoinWith, Finish, CancelSession, Live, Spawned,
                  taskVars
    <3>. QED
      BY <1>7, <3>1, <3>2 DEF StopStep
  <2>2. slot' = slot /\ \A d \in Callers : d # c => pc'[d] = pc[d] /\ ses'[d] = ses[d]
    BY <1>7 DEF StopStep, StopCancel, StopPt, AbortTask, JoinTask, JoinWith, Finish
  <2>. QED
    BY <1>0, <2>1, <2>2
<1>8. ASSUME NEW x \in Sessions,
             \/ \E r \in Roles : LeafStep(x, r)
             \/ \E t \in Tasks : TaskStep(x, t)
             \/ QueryDone(x)
             \/ Environment(x)
      PROVE  s = slot' \/ \E d \in Callers : Held(d)'
  <2>1. UNCHANGED callVars /\ (Spawned(s)' <=> Spawned(s)) /\ (cancelled[s] => cancelled'[s])
    BY <1>8, Background
  <2>. QED
    BY <1>0, <2>1 DEF Live, callVars
<1>9. CASE UNCHANGED vars
  BY <1>0, <1>1, <1>9 DEF vars, callVars, taskVars
<1>. QED
  BY <1>2, <1>3, <1>4, <1>5, <1>6, <1>7, <1>8, <1>9 DEF Next, Enter, StartStep

\* Whatever a bring-up spawned and was not cancelled can still be stopped.
THEOREM NothingIsOrphaned == Spec => []NoOrphan
<1>1. Init => Untouched /\ NoOrphan
  BY DEF Init, Untouched, NoOrphan, Live, Spawned, Tasks
<1>. QED
  BY <1>1, OwnershipInvariant, UntouchedStep, OrphanStep, PTL DEF Spec

\* Two live sessions overlap only until stop() has cancelled the older one.
THEOREM LiveSessionsDoNotMix == Spec => []OneLiveSession
<1>1. TypeOK /\ Ownership /\ NoOrphan => OneLiveSession
  BY DEF TypeOK, Ownership, NoOrphan, OneLiveSession, Holding, Sessions, None
<1>. QED
  BY <1>1, OwnershipInvariant, NothingIsOrphaned, PTL

-----------------------------------------------------------------------------
(* A stopped session is reaped *)

\* The tasks that a stopping caller has awaited.
Joined(c) ==
    IF pc[c] = "finish" THEN Tasks
    ELSE IF pc[c] \notin {"abort", "join"} \/ turn[c] = "arti" THEN {}
    ELSE IF turn[c] = "dns" THEN {"arti"} ELSE {"arti", "dns"}

\* A session is running while it is built, cancelled since StopCancel, and what
\* was awaited has ended.
Reaping(c) ==
    /\ pc[c] \in Building => running[ses[c]]
    /\ pc[c] \in {"pt_down", "abort", "join", "finish"} => cancelled[ses[c]]
    /\ \A t \in Joined(c) : task[ses[c]][t] = "done"

ReapingInv == StoppedIsReaped /\ \A c \in Callers : Reaping(c)

\* No step takes a cancel back, and only a bring-up makes a task of a session
\* that had ended.
Persists ==
    /\ \A x \in Sessions : cancelled[x] => cancelled'[x]
    /\ \A x \in Sessions, t \in Tasks :
        task[x][t] = "done" =>
            \/ task'[x][t] = "done"
            \/ \E c \in Callers : ses[c] = x /\ pc[c] \in Building

LEMMA BackgroundPersists ==
    ASSUME TypeOK, NEW s \in Sessions,
           \/ \E r \in Roles : LeafStep(s, r)
           \/ \E t \in Tasks : TaskStep(s, t)
           \/ QueryDone(s)
           \/ Environment(s)
    PROVE  Persists /\ UNCHANGED <<callVars, running>>
<1>. USE DEF TypeOK
<1>1. ASSUME NEW t \in Tasks, NEW v \in TaskStates, task[s][t] # "done",
             task' = [task EXCEPT ![s][t] = v]
      PROVE  \A x \in Sessions, y \in Tasks : task[x][y] = "done" => task'[x][y] = "done"
  BY <1>1, NestedValue
<1>2. ASSUME NEW r \in Roles, LeafStep(s, r) \/ ThreadFails(s, r)
      PROVE  UNCHANGED <<task, running>>
  BY <1>2 DEF LeafStep, ThreadStarts, ThreadReturns, WatcherFires, ThreadFails, ThreadExit
<1>3. ASSUME NEW t \in Tasks, TaskStep(s, t)
      PROVE  /\ \A x \in Sessions, y \in Tasks : task[x][y] = "done" => task'[x][y] = "done"
             /\ UNCHANGED running
  <2>1. task[s][t] # "done" /\ task' = [task EXCEPT ![s][t] = "done"] /\ UNCHANGED running
    BY <1>3 DEF TaskStep, TaskCancelled, TaskAborted, EndTask
  <2>. QED
    BY <1>1, <2>1 DEF TaskStates
<1>4. ASSUME ArtiReady(s) \/ ArtiFails(s)
      PROVE  /\ \A x \in Sessions, y \in Tasks : task[x][y] = "done" => task'[x][y] = "done"
             /\ UNCHANGED running
  <2>1. /\ task[s]["arti"] # "done" /\ UNCHANGED running
        /\ \E v \in TaskStates : task' = [task EXCEPT ![s]["arti"] = v]
    BY <1>4 DEF ArtiReady, ArtiFails, EndTask, TaskStates
  <2>. QED
    BY <1>1, <2>1 DEF Tasks
<1>5. ASSUME QueryArrives(s) \/ QueryDone(s) \/ IpcStop(s)
      PROVE  UNCHANGED <<task, running>>
  BY <1>5 DEF QueryArrives, QueryDone, IpcStop, taskVars
<1>6. /\ \A x \in Sessions, y \in Tasks : task[x][y] = "done" => task'[x][y] = "done"
      /\ UNCHANGED running
  BY <1>2, <1>3, <1>4, <1>5 DEF Environment
<1>. QED
  BY <1>6, Background DEF Persists

\* A caller that does not move keeps what it knows.
LEMMA BystanderReaps ==
    ASSUME TypeOK, Ownership, Persists, NEW c \in Callers, Reaping(c),
           pc'[c] = pc[c], ses'[c] = ses[c], turn'[c] = turn[c],
           pc[c] \in Building => running'[ses[c]] = running[ses[c]]
    PROVE  Reaping(c)'
<1>. USE DEF Reaping, Joined
<1>1. pc[c] \in Building \cup Stopping => ses[c] \in Sessions
  BY EngineAssumption DEF TypeOK, Ownership, Begun, Sessions
<1>2. ASSUME NEW t \in Joined(c) PROVE task'[ses[c]][t] = "done"
  <2>1. pc[c] \in Stopping /\ pc[c] \notin Building /\ t \in Tasks
    BY <1>2 DEF Stopping, Building, Tasks
  <2>2. ~ \E d \in Callers : ses[d] = ses[c] /\ pc[d] \in Building
    BY <1>1, <2>1 DEF Ownership, Sessions, None
  <2>. QED
    BY <1>1, <1>2, <2>1, <2>2 DEF Persists
<1>3. Joined(c)' = Joined(c)
  OBVIOUS
<1>4. pc[c] \in {"pt_down", "abort", "join", "finish"} => cancelled'[ses[c]]
  BY <1>1 DEF Persists, Stopping
<1>. QED
  BY <1>2, <1>3, <1>4

\* What is down stays down.
LEMMA DownStaysDown ==
    ASSUME TypeOK, Ownership, ReapingInv, Persists, NEW s \in Begun, ~running[s]
    PROVE  cancelled'[s] /\ \A t \in Tasks : task'[s][t] = "done"
<1>1. s \in Sessions
  BY EngineAssumption DEF TypeOK, Begun, Sessions
<1>2. cancelled[s] /\ \A t \in Tasks : task[s][t] = "done"
  BY DEF ReapingInv, StoppedIsReaped
<1>3. ~ \E c \in Callers : ses[c] = s /\ pc[c] \in Building
  BY DEF ReapingInv, Reaping
<1>. QED
  BY <1>1, <1>2, <1>3 DEF Persists

\* A step of one caller, who is not in the way of the others.
LEMMA CallerReaps ==
    ASSUME TypeOK, Ownership, ReapingInv, Persists, NEW c \in Callers, Reaping(c)',
           \A d \in Callers \ {c} : pc'[d] = pc[d] /\ ses'[d] = ses[d] /\ turn'[d] = turn[d],
           \A d \in Callers \ {c} : pc[d] \in Building => running'[ses[d]] = running[ses[d]],
           \A s \in 1..born' :
               ~running'[s] => \/ s \in Begun /\ ~running[s]
                               \/ cancelled'[s] /\ \A t \in Tasks : task'[s][t] = "done"
    PROVE  ReapingInv'
<1>1. \A d \in Callers : Reaping(d)'
  BY BystanderReaps DEF ReapingInv
<1>2. \A s \in 1..born' : ~running'[s] => cancelled'[s] /\ \A t \in Tasks : task'[s][t] = "done"
  BY DownStaysDown
<1>. QED
  BY <1>1, <1>2 DEF ReapingInv, StoppedIsReaped, Begun

\* Every step keeps it, if no join times out.
LEMMA ReapingStep ==
    ~MayTimeout /\ TypeOK /\ Ownership /\ ReapingInv /\ [Next]_vars => ReapingInv'
<1>. SUFFICES ASSUME ~MayTimeout, TypeOK, Ownership, ReapingInv, [Next]_vars
              PROVE  ReapingInv'
  OBVIOUS
<1>. USE EngineAssumption DEF TypeOK, Go
<1>1. ASSUME NEW c \in Callers,
             \/ Call(c) \/ AlreadyRunning(c) \/ NothingToStop(c) \/ ReadStatus(c)
             \/ Take(c) \/ Unwind(c) \/ Publish(c)
      PROVE  ReapingInv'
  <2>. USE <1>1 DEF Call, CallStart, CallStop, CallStatus, AlreadyRunning, NothingToStop,
                    ReadStatus, Take, Unwind, Publish
  <2>1. UNCHANGED <<cancelled, task, running, born, turn>>
    BY DEF taskVars
  <2>2. pc'[c] \in {"idle", "start", "stop", "status", "cancel"}
    OBVIOUS
  <2>3. \A d \in Callers \ {c} : pc'[d] = pc[d] /\ ses'[d] = ses[d]
    OBVIOUS
  <2>4. Persists
    BY <2>1 DEF Persists
  <2>5. Reaping(c)'
    BY <2>2 DEF Reaping, Joined, Building
  <2>. QED
    BY <2>1, <2>3, <2>4, <2>5, CallerReaps DEF Begun
<1>2. ASSUME NEW c \in Callers, Begin(c) PROVE ReapingInv'
  <2>. USE <1>2 DEF Begin
  <2>1. Persists
    BY DEF Persists, taskVars
  <2>2. Reaping(c)'
    BY DEF Reaping, Joined, Sessions
  <2>3. \A d \in Callers \ {c} : pc[d] \notin Building
    BY DEF Ownership, Holding
  <2>4. \A s \in 1..born' : ~running'[s] => s \in Begun /\ ~running[s]
    BY DEF Begun, Sessions
  <2>. QED
    BY <2>1, <2>2, <2>3, <2>4, CallerReaps
<1>3. ASSUME NEW c \in Callers,
             StartPt(c) \/ StartArti(c) \/ StartLeaf(c) \/ StartDns(c) \/ StartIpc(c)
      PROVE  ReapingInv'
  <2>. USE <1>3 DEF StartPt, StartArti, StartLeaf, StartDns, StartIpc
  <2>1. UNCHANGED <<cancelled, running, born, ses, turn>>
    OBVIOUS
  <2>2. pc[c] \in Building /\ pc'[c] \in Building
    BY DEF Building
  <2>3. \A x \in Sessions : x # ses[c] => task'[x] = task[x]
    BY DEF SpawnTask
  <2>4. Persists
    BY <2>1, <2>2, <2>3 DEF Persists
  <2>5. Reaping(c)'
    BY <2>1, <2>2 DEF Reaping, Joined, ReapingInv, Building
  <2>. QED
    BY <2>1, <2>4, <2>5, CallerReaps DEF Begun
<1>4. ASSUME NEW c \in Callers, StartFails(c) PROVE ReapingInv'
  <2>. USE <1>4 DEF StartFails
  <2>1. Persists
    BY DEF Persists, CancelSession
  <2>2. Reaping(c)'
    BY DEF Reaping, Joined, Building
  <2>. QED
    BY <2>1, <2>2, CallerReaps DEF Begun
<1>5. ASSUME NEW c \in Callers, StopCancel(c) \/ StopPt(c) PROVE ReapingInv'
  <2>. USE <1>5 DEF StopCancel, StopPt, CancelSession
  <2>1. UNCHANGED <<task, running, born, ses>>
    BY DEF taskVars
  <2>2. ses[c] \in Sessions
    BY DEF Ownership, Stopping, Begun, Sessions
  <2>3. Persists
    BY <2>1 DEF Persists
  <2>4. Reaping(c)'
    BY <2>1, <2>2 DEF Reaping, Joined, Building
  <2>. QED
    BY <2>1, <2>3, <2>4, CallerReaps DEF Begun
<1>6. ASSUME NEW c \in Callers, AbortTask(c) PROVE ReapingInv'
  <2>. USE <1>6 DEF AbortTask
  <2>1. Persists
    BY DEF Persists
  <2>2. Reaping(c)'
    BY DEF Reaping, Joined, Building, ReapingInv
  <2>. QED
    BY <2>1, <2>2, CallerReaps DEF Begun
<1>7. ASSUME NEW c \in Callers, JoinTask(c) PROVE ReapingInv'
  <2>. USE <1>7 DEF JoinTask, JoinWith, AfterTask
  <2>1. UNCHANGED <<cancelled, task, running, born, ses>>
    BY DEF taskVars
  <2>2. Persists
    BY <2>1 DEF Persists
  <2>3. task[ses[c]][turn[c]] = "done" /\ \A t \in Joined(c) : task[ses[c]][t] = "done"
    BY DEF ReapingInv, Reaping
  <2>4. Joined(c)' \subseteq Joined(c) \cup {turn[c]}
    BY DEF Joined, Tasks
  <2>5. Reaping(c)'
    BY <2>1, <2>3, <2>4 DEF Reaping, ReapingInv, Building
  <2>. QED
    BY <2>1, <2>2, <2>5, CallerReaps DEF Begun
<1>8. ASSUME NEW c \in Callers, Finish(c) PROVE ReapingInv'
  <2>. USE <1>8 DEF Finish
  <2>1. Persists
    BY DEF Persists, taskVars
  <2>2. Reaping(c)'
    BY DEF Reaping, Joined, Building
  <2>3. cancelled'[ses[c]] /\ \A t \in Tasks : task'[ses[c]][t] = "done"
    BY DEF ReapingInv, Reaping, Joined, taskVars
  <2>4. \A d \in Callers \ {c} : pc[d] \in Building => ses[d] # ses[c]
    BY DEF Ownership, Begun, None
  <2>5. \A s \in 1..born' : ~running'[s] => (s \in Begun /\ ~running[s]) \/ s = ses[c]
    BY DEF Begun, Sessions
  <2>6. \A d \in Callers \ {c} : pc'[d] = pc[d] /\ ses'[d] = ses[d] /\ turn'[d] = turn[d]
    OBVIOUS
  <2>7. \A d \in Callers \ {c} : pc[d] \in Building => running'[ses[d]] = running[ses[d]]
    BY <2>4 DEF Ownership, Begun, Sessions
  <2>8. \A s \in 1..born' :
            ~running'[s] => \/ s \in Begun /\ ~running[s]
                            \/ cancelled'[s] /\ \A t \in Tasks : task'[s][t] = "done"
    BY <2>3, <2>5
  <2>. HIDE DEF Finish
  <2>. QED
    BY <2>1, <2>2, <2>6, <2>7, <2>8, CallerReaps
<1>9. ASSUME NEW s \in Sessions,
             \/ \E r \in Roles : LeafStep(s, r)
             \/ \E t \in Tasks : TaskStep(s, t)
             \/ QueryDone(s)
             \/ Environment(s)
      PROVE  ReapingInv'
  <2>1. Persists /\ UNCHANGED <<callVars, running>>
    BY <1>9, BackgroundPersists
  <2>2. \A c \in Callers : Reaping(c)'
    BY <2>1, BystanderReaps DEF ReapingInv, callVars
  <2>3. \A x \in Begun : ~running[x] => cancelled'[x] /\ \A t \in Tasks : task'[x][t] = "done"
    BY <2>1, DownStaysDown
  <2>. QED
    BY <2>1, <2>2, <2>3 DEF ReapingInv, StoppedIsReaped, Begun, callVars
<1>10. CASE UNCHANGED vars
  BY <1>10 DEF vars, callVars, taskVars, ReapingInv, StoppedIsReaped, Reaping, Joined, Begun
<1>. QED
  BY <1>1, <1>2, <1>3, <1>4, <1>5, <1>6, <1>7, <1>8, <1>9, <1>10
  DEF Next, Enter, StartStep, StopStep

LEMMA ReapingInvariant == ~MayTimeout => (Spec => []ReapingInv)
<1>. SUFFICES ASSUME ~MayTimeout PROVE Spec => []ReapingInv
  OBVIOUS
<1>1. Init => ReapingInv
  BY EngineAssumption
  DEF Init, ReapingInv, StoppedIsReaped, Reaping, Joined, Begun, Building, Tasks
<1>2. TypeOK /\ Ownership /\ ReapingInv /\ [Next]_vars => ReapingInv'
  BY ReapingStep
<1>. QED
  BY <1>1, <1>2, OwnershipInvariant, PTL DEF Spec

\* When stop() has reported a session down, its token is thrown and its tasks have
\* ended, provided that no join times out.
THEOREM StoppedSessionsAreReaped == ~MayTimeout => (Spec => []StoppedIsReaped)
<1>. SUFFICES ASSUME ~MayTimeout PROVE Spec => []StoppedIsReaped
  OBVIOUS
<1>1. ReapingInv => StoppedIsReaped
  BY DEF ReapingInv
<1>. QED
  BY <1>1, ReapingInvariant, PTL

-----------------------------------------------------------------------------
(* The socket path *)

SingleCaller == \A c, d \in Callers : c = d

\* An IPC loop belongs to the session in the slot, or to one that the caller is
\* about to publish or tears down; with one caller the slot is empty then, so that
\* no loop that ends takes the path of another session.
PathInv ==
    /\ \A s \in Sessions :
        task[s]["ipc"] = "serving" =>
            \/ s = slot
            \/ \E c \in Callers : ses[c] = s /\ pc[c] \in {"publish"} \cup Stopping
    /\ \A c \in Callers : pc[c] \in Stopping => slot = None
    /\ \A c \in Callers : pc[c] = "publish" => path = ses[c] \/ cancelled[ses[c]]
    /\ PathServed

\* A background step starts no IPC loop, and removes the path only as the loop of
\* a cancelled session.
LEMMA BackgroundPath ==
    ASSUME TypeOK, NEW s \in Sessions,
           \/ \E r \in Roles : LeafStep(s, r)
           \/ \E t \in Tasks : TaskStep(s, t)
           \/ QueryDone(s)
           \/ Environment(s)
    PROVE  /\ \A x \in Sessions : task'[x]["ipc"] = "serving" => task[x]["ipc"] = "serving"
           /\ path' # path => cancelled[s] /\ task[s]["ipc"] = "serving"
<1>. USE DEF TypeOK
<1>1. ASSUME NEW r \in Roles, LeafStep(s, r) \/ ThreadFails(s, r) PROVE UNCHANGED <<task, path>>
  BY <1>1 DEF LeafStep, ThreadStarts, ThreadReturns, WatcherFires, ThreadFails, ThreadExit
<1>2. ASSUME NEW t \in Tasks, NEW v, t = "ipc" => v # "serving",
             task' = [task EXCEPT ![s][t] = v]
      PROVE  \A x \in Sessions : task'[x]["ipc"] = "serving" => task[x]["ipc"] = "serving"
  BY <1>2, NestedValue DEF Tasks
<1>3. ASSUME NEW t \in Tasks, TaskStep(s, t)
      PROVE  /\ \A x \in Sessions : task'[x]["ipc"] = "serving" => task[x]["ipc"] = "serving"
             /\ path' # path => cancelled[s] /\ task[s]["ipc"] = "serving"
  <2>1. task' = [task EXCEPT ![s][t] = "done"]
    BY <1>3 DEF TaskStep, TaskCancelled, TaskAborted, EndTask
  <2>2. \A x \in Sessions : task'[x]["ipc"] = "serving" => task[x]["ipc"] = "serving"
    BY <1>2, <2>1
  <2>3. CASE TaskCancelled(s, t)
    BY <2>2, <2>3 DEF TaskCancelled
  <2>4. CASE TaskAborted(s, t)
    BY <2>2, <2>4 DEF TaskAborted
  <2>. QED
    BY <1>3, <2>3, <2>4 DEF TaskStep
<1>4. ASSUME ArtiReady(s) \/ ArtiFails(s)
      PROVE  /\ \A x \in Sessions : task'[x]["ipc"] = "serving" => task[x]["ipc"] = "serving"
             /\ path' = path
  <2>1. CASE ArtiReady(s)
    BY <1>2, <2>1 DEF ArtiReady, Tasks
  <2>2. CASE ArtiFails(s)
    BY <1>2, <2>2 DEF ArtiFails, EndTask, Tasks
  <2>. QED
    BY <1>4, <2>1, <2>2
<1>5. ASSUME QueryArrives(s) \/ QueryDone(s) \/ IpcStop(s) PROVE UNCHANGED <<task, path>>
  BY <1>5 DEF QueryArrives, QueryDone, IpcStop, taskVars
<1>6. CASE \E t \in Tasks : TaskStep(s, t)
  BY <1>3, <1>6
<1>7. CASE ArtiReady(s) \/ ArtiFails(s)
  BY <1>4, <1>7
<1>8. CASE UNCHANGED <<task, path>>
  BY <1>8
<1>9. \/ \E t \in Tasks : TaskStep(s, t)
      \/ ArtiReady(s) \/ ArtiFails(s)
      \/ UNCHANGED <<task, path>>
  BY <1>1, <1>5 DEF Environment
<1>. QED
  BY <1>6, <1>7, <1>8, <1>9

\* Every step keeps it, for one caller whose joins do not time out.
LEMMA PathStep ==
    ~MayTimeout /\ SingleCaller /\ TypeOK /\ Ownership /\ ReapingInv /\ PathInv /\ [Next]_vars
        => PathInv'
<1>. SUFFICES ASSUME ~MayTimeout, SingleCaller, TypeOK, Ownership, ReapingInv, PathInv,
                     [Next]_vars
              PROVE  PathInv'
  OBVIOUS
<1>. USE EngineAssumption
     DEF TypeOK, PathInv, PathServed, SingleCaller, Go, Stopping
<1>1. ASSUME NEW c \in Callers,
             \/ Call(c) \/ AlreadyRunning(c) \/ NothingToStop(c) \/ ReadStatus(c)
             \/ Begin(c) \/ Unwind(c)
      PROVE  PathInv'
  <2>1. UNCHANGED <<cancelled, task, path, slot>>
    BY <1>1 DEF Call, CallStart, CallStop, CallStatus, AlreadyRunning, NothingToStop,
                ReadStatus, Begin, Unwind, taskVars
  <2>2. /\ pc[c] \in {"idle", "start", "stop", "status", "unwind"}
        /\ pc'[c] \in {"idle", "start", "stop", "status", "pt"}
    BY <1>1 DEF Call, CallStart, CallStop, CallStatus, AlreadyRunning, NothingToStop,
                ReadStatus, Begin, Unwind
  <2>. QED
    BY <2>1, <2>2
<1>2. ASSUME NEW c \in Callers, Take(c) PROVE PathInv'
  <2>1. UNCHANGED <<cancelled, task, path>>
    BY <1>2 DEF Take, taskVars
  <2>2. pc[c] = "stop" /\ pc'[c] = "cancel" /\ slot' = None /\ ses'[c] = slot
    BY <1>2 DEF Take
  <2>3. \A s \in Sessions : task[s]["ipc"] = "serving" => s = ses'[c]
    BY <2>2
  <2>. QED
    BY <2>1, <2>2, <2>3
<1>3. ASSUME NEW c \in Callers,
             StartPt(c) \/ StartArti(c) \/ StartLeaf(c) \/ StartDns(c)
      PROVE  PathInv'
  <2>0. ses[c] \in Sessions
    BY <1>3 DEF StartPt, StartArti, StartLeaf, StartDns, Ownership, Building, Begun, Sessions
  <2>1. \A s \in Sessions : task'[s]["ipc"] = task[s]["ipc"]
    <3>1. ASSUME NEW t \in Tasks \ {"ipc"}, NEW v, task' = [task EXCEPT ![ses[c]][t] = v]
          PROVE  \A s \in Sessions : task'[s]["ipc"] = task[s]["ipc"]
      BY <2>0, <3>1, NestedValue DEF Tasks
    <3>2. CASE StartPt(c) \/ StartLeaf(c)
      BY <3>2 DEF StartPt, StartLeaf
    <3>3. CASE StartArti(c)
      BY <3>1, <3>3 DEF StartArti, SpawnTask, Tasks
    <3>4. CASE StartDns(c)
      BY <3>1, <3>4 DEF StartDns, SpawnTask, Tasks
    <3>. QED
      BY <1>3, <3>2, <3>3, <3>4
  <2>2. UNCHANGED <<cancelled, path, slot, ses>>
    BY <1>3 DEF StartPt, StartArti, StartLeaf, StartDns
  <2>3. pc[c] \in {"pt", "arti", "leaf", "dns"} /\ pc'[c] \in {"arti", "leaf", "dns", "ipc"}
    BY <1>3 DEF StartPt, StartArti, StartLeaf, StartDns
  <2>. QED
    BY <2>1, <2>2, <2>3
<1>4. ASSUME NEW c \in Callers, StartIpc(c) PROVE PathInv'
  <2>1. \A s \in Sessions : task'[s]["ipc"] = "serving" => task[s]["ipc"] = "serving" \/ s = ses[c]
    BY <1>4 DEF StartIpc, SpawnTask
  <2>2. pc[c] = "ipc" /\ pc'[c] = "publish" /\ path' = ses[c] /\ slot = None
    BY <1>4 DEF StartIpc, Ownership, Building
  <2>3. UNCHANGED <<cancelled, slot, ses>>
    BY <1>4 DEF StartIpc
  <2>. QED
    BY <2>1, <2>2, <2>3
<1>5. ASSUME NEW c \in Callers, StartFails(c) PROVE PathInv'
  <2>1. UNCHANGED <<task, slot>> /\ slot = None
    BY <1>5 DEF StartFails, Ownership, Building
  <2>2. pc[c] \in {"pt", "arti", "dns", "ipc"} /\ pc'[c] = "unwind"
    BY <1>5 DEF StartFails
  <2>. QED
    BY <2>1, <2>2
<1>6. ASSUME NEW c \in Callers, Publish(c) PROVE PathInv'
  <2>1. UNCHANGED <<cancelled, task, path>>
    BY <1>6 DEF Publish, taskVars
  <2>2. pc[c] = "publish" /\ pc'[c] = "idle" /\ slot' = ses[c] /\ slot = None
    BY <1>6 DEF Publish, Ownership, Building
  <2>3. \A s \in Sessions : task[s]["ipc"] = "serving" => s = ses[c]
    BY <2>2 DEF Sessions, None
  <2>4. path = ses[c] \/ cancelled[ses[c]]
    BY <2>2
  <2>. QED
    BY <2>1, <2>2, <2>3, <2>4
<1>7. ASSUME NEW c \in Callers, StopCancel(c) \/ StopPt(c) \/ AbortTask(c) \/ JoinTask(c)
      PROVE  PathInv'
  <2>1. UNCHANGED <<task, path, slot, ses>>
    BY <1>7 DEF StopCancel, StopPt, AbortTask, JoinTask, JoinWith, taskVars
  <2>2. pc[c] \in Stopping /\ pc'[c] \in Stopping
    BY <1>7 DEF StopCancel, StopPt, AbortTask, JoinTask, JoinWith
  <2>. QED
    BY <2>1, <2>2
<1>8. ASSUME NEW c \in Callers, Finish(c) PROVE PathInv'
  <2>1. UNCHANGED <<cancelled, task, path, slot>>
    BY <1>8 DEF Finish, taskVars
  <2>2. pc[c] = "finish" /\ pc'[c] = "idle" /\ slot = None
    BY <1>8 DEF Finish
  <2>3. task[ses[c]]["ipc"] = "done"
    BY <2>2 DEF ReapingInv, Reaping, Joined, Tasks
  <2>. QED
    BY <2>1, <2>2, <2>3
<1>9. ASSUME NEW s \in Sessions,
             \/ \E r \in Roles : LeafStep(s, r)
             \/ \E t \in Tasks : TaskStep(s, t)
             \/ QueryDone(s)
             \/ Environment(s)
      PROVE  PathInv'
  <2>1. UNCHANGED callVars /\ \A x \in Sessions : cancelled[x] => cancelled'[x]
    BY <1>9, Background
  <2>2. /\ \A x \in Sessions : task'[x]["ipc"] = "serving" => task[x]["ipc"] = "serving"
        /\ path' # path => cancelled[s] /\ task[s]["ipc"] = "serving"
    BY <1>9, BackgroundPath
  <2>3. \A c \in Callers : pc[c] = "publish" => ses[c] \in Sessions /\ slot = None
    BY DEF Ownership, Building, Begun, Sessions
  <2>4. \A c \in Callers : pc'[c] = "publish" => path' = ses'[c] \/ cancelled'[ses'[c]]
    BY <2>1, <2>2, <2>3 DEF callVars, Sessions, None
  <2>5. slot # None /\ ~cancelled'[slot] => path' = slot
    <3>1. SUFFICES ASSUME slot # None, ~cancelled'[slot] PROVE path' = slot
      OBVIOUS
    <3>2. ~cancelled[slot] /\ path = slot
      BY <2>1, <3>1
    <3>3. ~ (cancelled[s] /\ task[s]["ipc"] = "serving")
      BY <2>3, <3>1, <3>2
    <3>. QED
      BY <2>2, <3>2, <3>3
  <2>. QED
    BY <2>1, <2>2, <2>4, <2>5 DEF callVars
<1>10. CASE UNCHANGED vars
  BY <1>10 DEF vars, callVars, taskVars
<1>. QED
  BY <1>1, <1>2, <1>3, <1>4, <1>5, <1>6, <1>7, <1>8, <1>9, <1>10
  DEF Next, Enter, StartStep, StopStep

\* The published session owns the socket path, for one caller whose joins do not
\* time out.
THEOREM PathIsServed == ~MayTimeout /\ SingleCaller => (Spec => []PathServed)
<1>. SUFFICES ASSUME ~MayTimeout, SingleCaller PROVE Spec => []PathServed
  OBVIOUS
<1>1. Init => PathInv
  BY EngineAssumption DEF Init, PathInv, PathServed, Stopping, Tasks
<1>2. TypeOK /\ Ownership /\ ReapingInv /\ PathInv /\ [Next]_vars => PathInv'
  BY PathStep
<1>3. PathInv => PathServed
  BY DEF PathInv
<1>. QED
  BY <1>1, <1>2, <1>3, OwnershipInvariant, ReapingInvariant, PTL DEF Spec

-----------------------------------------------------------------------------
(* Refinement *)

\* One session moves to another phase and the others stay.
LEMMA MoveOne ==
    ASSUME NEW s \in Sessions, NEW from, NEW to, Phase(s) = from, Phase(s)' = to,
           \A x \in Sessions \ {s} : Phase(x)' = Phase(x)
    PROVE  Slot!Move(s, from, to)
BY DEF Slot!Move

\* No session moves.
LEMMA MoveNone ==
    ASSUME \A x \in Sessions : Phase(x)' = Phase(x)
    PROVE  UNCHANGED Slot!vars
BY DEF Slot!vars, Sessions

\* Phases depend on which callers build and which tear down, and what.
LEMMA SamePhases ==
    ASSUME UNCHANGED <<born, slot, ses>>,
           \A c \in Callers : pc'[c] \in Building <=> pc[c] \in Building,
           \A c \in Callers : pc'[c] \in Stopping <=> pc[c] \in Stopping,
           NEW x \in Sessions
    PROVE  Phase(x)' = Phase(x)
BY DEF Phase

\* Every step is a step of the abstract life cycle or a stutter.
LEMMA PhaseStep ==
    TypeOK /\ Ownership /\ TypeOK' /\ Ownership' /\ [Next]_vars
        => [Slot!Next]_(Slot!vars)
<1>. SUFFICES ASSUME TypeOK, Ownership, TypeOK', Ownership', [Next]_vars
              PROVE  Slot!Next \/ UNCHANGED Slot!vars
  OBVIOUS
<1>. USE DEF TypeOK, Ownership, Begun, Sessions, None, Holding, Building, Stopping, Go
<1>1. ASSUME UNCHANGED <<born, slot, ses>>,
             \A c \in Callers : pc'[c] \in Building <=> pc[c] \in Building,
             \A c \in Callers : pc'[c] \in Stopping <=> pc[c] \in Stopping
      PROVE  UNCHANGED Slot!vars
  BY <1>1, SamePhases, MoveNone
<1>2. ASSUME NEW c \in Callers, Begin(c) PROVE Slot!Next
  <2>. USE EngineAssumption, <1>2 DEF Begin, Phase
  <2>0. PICK s \in Sessions : s = born + 1
    OBVIOUS
  <2>1. Phase(s) = "fresh"
    BY <2>0
  <2>2. Phase(s)' = "building"
    BY <2>0
  <2>3. \A d \in Callers : pc[d] \notin Building
    BY <2>0
  <2>4. \A x \in Sessions \ {s} : Phase(x)' = Phase(x)
    BY <2>0, <2>3
  <2>5. ~Slot!Occupied
    BY <2>3 DEF Slot!Occupied
  <2>. QED
    BY <2>1, <2>2, <2>4, <2>5, MoveOne DEF Slot!Next, Slot!Begin
<1>3. ASSUME NEW c \in Callers, StartFails(c) PROVE Slot!Next
  <2>. USE <1>3 DEF StartFails, Phase
  <2>0. PICK s \in Sessions : s = ses[c]
    OBVIOUS
  <2>1. Phase(s) = "building"
    BY <2>0
  <2>2. Phase(s)' = "over"
    BY <2>0
  <2>3. \A x \in Sessions \ {s} : Phase(x)' = Phase(x)
    BY <2>0
  <2>. QED
    BY <2>1, <2>2, <2>3, MoveOne DEF Slot!Next, Slot!Abandon
<1>4. ASSUME NEW c \in Callers, Publish(c) PROVE Slot!Next
  <2>. USE <1>4 DEF Publish, Phase
  <2>0. PICK s \in Sessions : s = ses[c]
    OBVIOUS
  <2>1. Phase(s) = "building"
    BY <2>0
  <2>2. Phase(s)' = "active"
    BY <2>0
  <2>3. \A x \in Sessions \ {s} : Phase(x)' = Phase(x)
    BY <2>0
  <2>. QED
    BY <2>1, <2>2, <2>3, MoveOne DEF Slot!Next, Slot!Publish
<1>5. ASSUME NEW c \in Callers, Take(c) PROVE Slot!Next
  <2>. USE <1>5 DEF Take, Phase
  <2>0. PICK s \in Sessions : s = slot
    OBVIOUS
  <2>1. Phase(s) = "active"
    BY <2>0
  <2>2. Phase(s)' = "closing"
    BY <2>0
  <2>3. \A x \in Sessions \ {s} : Phase(x)' = Phase(x)
    BY <2>0
  <2>. QED
    BY <2>1, <2>2, <2>3, MoveOne DEF Slot!Next, Slot!Close
<1>6. ASSUME NEW c \in Callers, Finish(c) PROVE Slot!Next
  <2>. USE <1>6 DEF Finish, Phase
  <2>0. PICK s \in Sessions : s = ses[c]
    OBVIOUS
  <2>1. Phase(s) = "closing"
    BY <2>0
  <2>2. Phase(s)' = "over"
    BY <2>0
  <2>3. \A x \in Sessions \ {s} : Phase(x)' = Phase(x)
    BY <2>0
  <2>. QED
    BY <2>1, <2>2, <2>3, MoveOne DEF Slot!Next, Slot!Finish
<1>7. ASSUME NEW c \in Callers,
             Call(c) \/ AlreadyRunning(c) \/ NothingToStop(c) \/ ReadStatus(c) \/ Unwind(c)
      PROVE  UNCHANGED Slot!vars
  BY <1>1, <1>7 DEF Call, CallStart, CallStop, CallStatus,
                AlreadyRunning, NothingToStop, ReadStatus, Unwind
<1>8. ASSUME NEW c \in Callers,
             \/ StartPt(c) \/ StartArti(c) \/ StartLeaf(c) \/ StartDns(c) \/ StartIpc(c)
             \/ StopCancel(c) \/ StopPt(c) \/ AbortTask(c) \/ JoinTask(c)
      PROVE  UNCHANGED Slot!vars
  BY <1>1, <1>8 DEF StartPt, StartArti, StartLeaf, StartDns, StartIpc, StopCancel, StopPt,
                    AbortTask, JoinTask, JoinWith
<1>9. ASSUME UNCHANGED callVars PROVE UNCHANGED Slot!vars
  BY <1>1, <1>9 DEF callVars
<1>10. CASE UNCHANGED vars
  BY <1>9, <1>10 DEF vars
<1>. QED
  BY <1>2, <1>3, <1>4, <1>5, <1>6, <1>7, <1>8, <1>9, <1>10, Background
  DEF Next, Enter, StartStep, StopStep

\* start() and stop() implement the abstract session life cycle.
THEOREM EngineImplementsSlot == Spec => ImplementsSessionSlot
<1>1. Init => Slot!Init
  BY EngineAssumption DEF Init, Slot!Init, Phase, Sessions
<1>. QED
  BY <1>1, PhaseStep, OwnershipInvariant, PTL DEF Spec, Slot!Spec, ImplementsSessionSlot
================================================================================
