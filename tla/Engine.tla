--------------------------------- MODULE Engine ---------------------------------
(*******************************************************************************)
(* The engine's life cycle: start, stop and status of lib.rs around the        *)
(* slot mutex, the bring-up and tear-down order of engine.rs, and everything a *)
(* bring-up leaves running on its own: two leaf threads with their shutdown    *)
(* watchers, the Arti, DNS and IPC tasks, the detached DoH queries.            *)
(*                                                                             *)
(* A session is one Engine::start.  Its Cancel is the flag cancelled[s]:       *)
(* CancelToken shows that the real token behaves as such a flag.               *)
(*                                                                             *)
(* The task run_leaf_with_config returns only awaits the blocking thread;      *)
(* aborting it detaches the thread, so it has no state here and the steps of   *)
(* stop() that abort it change nothing.                                        *)
(*******************************************************************************)
EXTENDS Integers, FiniteSets

CONSTANTS
    Callers,                \* threads that call start, stop and status
    NoCaller,               \* the slot mutex is free
    MaxSessions,            \* bound: Engine::start calls
    MaxInflight,            \* bound: DoH queries in flight per session
    Roles,                  \* bound: the leaf instances tracked, of AllRoles
    LeafLatches,            \* does leaf remember a shutdown of an unregistered id?
    MayTimeout              \* may a 2 s join timeout of stop() elapse?

AllRoles == {"pt", "main"}          \* Leaf #1 and Leaf #2

ASSUME EngineAssumption ==
    /\ Roles \subseteq AllRoles
    /\ NoCaller \notin Callers
    /\ MaxSessions \in Nat
    /\ MaxInflight \in Nat
    /\ LeafLatches \in BOOLEAN
    /\ MayTimeout \in BOOLEAN

Sessions == 1..MaxSessions
None == 0
Tasks == {"arti", "dns", "ipc"}

VARIABLES
    lock,                   \* holder of the slot mutex
    slot,                   \* the session in the slot, or None
    born,                   \* sessions begun so far
    pc,                     \* where each caller is
    ses,                    \* the session a caller builds or tears down
    turn,                   \* the task a stopping caller aborts or joins
    cancelled,              \* each session's Cancel token
    thread,                 \* leaf::start on its blocking thread, by role
    watch,                  \* the shutdown watcher of that thread
    task,                   \* the Arti, DNS and IPC tasks
    aborted,                \* the tasks whose JoinHandle was aborted
    inflight,               \* detached DoH queries that hold the UDP socket
    path,                   \* the session whose listener owns <private_dir>/ipc.sock
    running                 \* Status.running

callVars == <<lock, slot, born, pc, ses, turn>>
taskVars == <<thread, watch, task, aborted, inflight, path>>
vars == <<callVars, cancelled, taskVars, running>>

Building == {"pt", "arti", "leaf", "dns", "ipc", "publish"}
Holding == Building \cup {"unwind"}
Stopping == {"cancel", "pt_down", "abort", "join", "finish"}
Labels == {"idle", "start", "stop", "status"} \cup Holding \cup Stopping

ThreadStates == {"none", "queued", "running", "done"}
WatchStates == {"none", "watching", "sent", "lost", "off"}
TaskStates == {"none", "boot", "serving", "done"}

TypeOK ==
    /\ lock \in Callers \cup {NoCaller}
    /\ slot \in Sessions \cup {None}
    /\ born \in 0..MaxSessions
    /\ pc \in [Callers -> Labels]
    /\ ses \in [Callers -> Sessions \cup {None}]
    /\ turn \in [Callers -> Tasks]
    /\ cancelled \in [Sessions -> BOOLEAN]
    /\ thread \in [Sessions -> [Roles -> ThreadStates]]
    /\ watch \in [Sessions -> [Roles -> WatchStates]]
    /\ task \in [Sessions -> [Tasks -> TaskStates]]
    /\ aborted \in [Sessions -> SUBSET Tasks]
    /\ inflight \in [Sessions -> 0..MaxInflight]
    /\ path \in Sessions \cup {None}
    /\ running \in [Sessions -> BOOLEAN]

Init ==
    /\ lock = NoCaller
    /\ slot = None
    /\ born = 0
    /\ pc = [c \in Callers |-> "idle"]
    /\ ses = [c \in Callers |-> None]
    /\ turn = [c \in Callers |-> "arti"]
    /\ cancelled = [s \in Sessions |-> FALSE]
    /\ thread = [s \in Sessions |-> [r \in Roles |-> "none"]]
    /\ watch = [s \in Sessions |-> [r \in Roles |-> "none"]]
    /\ task = [s \in Sessions |-> [t \in Tasks |-> "none"]]
    /\ aborted = [s \in Sessions |-> {}]
    /\ inflight = [s \in Sessions |-> 0]
    /\ path = None
    /\ running = [s \in Sessions |-> FALSE]

Go(c, from, to) == pc[c] = from /\ pc' = [pc EXCEPT ![c] = to]

CancelSession(s) == cancelled' = [cancelled EXCEPT ![s] = TRUE]

\* tokio's UDP socket is closed with its last Arc: the loop's or a query's.
HoldsDnsPort(s) == task[s]["dns"] = "serving" \/ inflight[s] > 0
DnsPortFree == \A s \in Sessions : ~HoldsDnsPort(s)

-----------------------------------------------------------------------------
(* crate::start *)

\* Bound: every pending start() may still begin a session.
CallStart(c) ==
    /\ born + Cardinality({d \in Callers : pc[d] = "start"}) < MaxSessions
    /\ Go(c, "idle", "start")
    /\ UNCHANGED <<lock, slot, born, ses, turn, cancelled, taskVars, running>>

AlreadyRunning(c) ==
    /\ lock = NoCaller
    /\ slot # None
    /\ Go(c, "start", "idle")
    /\ UNCHANGED <<lock, slot, born, ses, turn, cancelled, taskVars, running>>

\* Mutation: the slot is not looked at before the engine is built.
BeginUnchecked(c) ==
    /\ lock = NoCaller
    /\ born < MaxSessions
    /\ Go(c, "start", "pt")
    /\ lock' = c
    /\ born' = born + 1
    /\ ses' = [ses EXCEPT ![c] = born + 1]
    /\ running' = [running EXCEPT ![born + 1] = TRUE]
    /\ UNCHANGED <<slot, turn, cancelled, taskVars>>

\* The lock is taken and stays held across block_on(Engine::start).
Begin(c) ==
    /\ lock = NoCaller
    /\ slot = None
    /\ born < MaxSessions
    /\ Go(c, "start", "pt")
    /\ lock' = c
    /\ born' = born + 1
    /\ ses' = [ses EXCEPT ![c] = born + 1]
    /\ running' = [running EXCEPT ![born + 1] = TRUE]
    /\ UNCHANGED <<slot, turn, cancelled, taskVars>>

SpawnLeaf(s, role) ==
    /\ thread' = [thread EXCEPT ![s] = [r \in Roles |-> IF r = role THEN "queued" ELSE @[r]]]
    /\ watch' = [watch EXCEPT ![s] = [r \in Roles |-> IF r = role THEN "watching" ELSE @[r]]]

SpawnTask(s, t, state) == task' = [task EXCEPT ![s][t] = state]

StartPt(c) ==
    /\ Go(c, "pt", "arti")
    /\ SpawnLeaf(ses[c], "pt")
    /\ UNCHANGED <<lock, slot, born, ses, turn, cancelled, task, aborted, inflight, path, running>>

StartArti(c) ==
    /\ Go(c, "arti", "leaf")
    /\ SpawnTask(ses[c], "arti", "boot")
    /\ UNCHANGED <<lock, slot, born, ses, turn, cancelled, thread, watch, aborted, inflight, path, running>>

StartLeaf(c) ==
    /\ Go(c, "leaf", "dns")
    /\ SpawnLeaf(ses[c], "main")
    /\ UNCHANGED <<lock, slot, born, ses, turn, cancelled, task, aborted, inflight, path, running>>

StartDns(c) ==
    /\ DnsPortFree
    /\ Go(c, "dns", "ipc")
    /\ SpawnTask(ses[c], "dns", "serving")
    /\ UNCHANGED <<lock, slot, born, ses, turn, cancelled, thread, watch, aborted, inflight, path, running>>

\* A stale socket file is removed before the bind.
StartIpc(c) ==
    /\ Go(c, "ipc", "publish")
    /\ SpawnTask(ses[c], "ipc", "serving")
    /\ path' = ses[c]
    /\ UNCHANGED <<lock, slot, born, ses, turn, cancelled, thread, watch, aborted, inflight, running>>

\* Mutation: LeafSocksPt has no Drop.
StartFailsSilently(c) ==
    /\ pc[c] \in {"pt", "arti", "dns", "ipc"}
    /\ pc' = [pc EXCEPT ![c] = "unwind"]
    /\ ses' = [ses EXCEPT ![c] = None]
    /\ path' \in IF pc[c] = "ipc" THEN {path, None, ses[c]} ELSE {path}
    /\ UNCHANGED <<lock, slot, born, turn, cancelled, thread, watch, task, aborted, inflight, running>>

\* A fallible step returns Err.  Every JoinHandle is dropped, which detaches its
\* task; once the PT exists, dropping it cancels the session.  A failed IPC
\* bring-up may have removed the stale socket file, or left its own behind.
StartFails(c) ==
    /\ pc[c] \in {"pt", "arti", "dns", "ipc"}
    /\ pc' = [pc EXCEPT ![c] = "unwind"]
    /\ ses' = [ses EXCEPT ![c] = None]
    /\ IF pc[c] = "pt" THEN UNCHANGED cancelled ELSE CancelSession(ses[c])
    /\ path' \in IF pc[c] = "ipc" THEN {path, None, ses[c]} ELSE {path}
    /\ UNCHANGED <<lock, slot, born, turn, thread, watch, task, aborted, inflight, running>>

\* Mutation: the guard of the slot outlives the failed call.
UnwindLocked(c) ==
    /\ Go(c, "unwind", "idle")
    /\ UNCHANGED <<lock, slot, born, ses, turn, cancelled, taskVars, running>>

Unwind(c) ==
    /\ Go(c, "unwind", "idle")
    /\ lock' = NoCaller
    /\ UNCHANGED <<slot, born, ses, turn, cancelled, taskVars, running>>

\* Nothing here looks at the token: a session that was cancelled during its own
\* bring-up is published like any other.
Publish(c) ==
    /\ Go(c, "publish", "idle")
    /\ slot' = ses[c]
    /\ ses' = [ses EXCEPT ![c] = None]
    /\ lock' = NoCaller
    /\ UNCHANGED <<born, turn, cancelled, taskVars, running>>

-----------------------------------------------------------------------------
(* crate::stop *)

CallStop(c) ==
    /\ Go(c, "idle", "stop")
    /\ UNCHANGED <<lock, slot, born, ses, turn, cancelled, taskVars, running>>

NothingToStop(c) ==
    /\ lock = NoCaller
    /\ slot = None
    /\ Go(c, "stop", "idle")
    /\ UNCHANGED <<lock, slot, born, ses, turn, cancelled, taskVars, running>>

\* The engine leaves the slot under the lock; the tear-down runs without it.
Take(c) ==
    /\ lock = NoCaller
    /\ slot # None
    /\ Go(c, "stop", "cancel")
    /\ ses' = [ses EXCEPT ![c] = slot]
    /\ slot' = None
    /\ UNCHANGED <<lock, born, turn, cancelled, taskVars, running>>

\* crate::status: the snapshot is taken under the lock, which a bring-up holds.
CallStatus(c) ==
    /\ Go(c, "idle", "status")
    /\ UNCHANGED <<lock, slot, born, ses, turn, cancelled, taskVars, running>>

ReadStatus(c) ==
    /\ lock = NoCaller
    /\ Go(c, "status", "idle")
    /\ UNCHANGED <<lock, slot, born, ses, turn, cancelled, taskVars, running>>

StopCancel(c) ==
    /\ Go(c, "cancel", "pt_down")
    /\ CancelSession(ses[c])
    /\ UNCHANGED <<lock, slot, born, ses, turn, taskVars, running>>

\* PluggableTransport::shutdown.
StopPt(c) ==
    /\ Go(c, "pt_down", "abort")
    /\ CancelSession(ses[c])
    /\ turn' = [turn EXCEPT ![c] = "arti"]
    /\ UNCHANGED <<lock, slot, born, ses, taskVars, running>>

AbortTask(c) ==
    /\ Go(c, "abort", "join")
    /\ aborted' = [aborted EXCEPT ![ses[c]] = @ \cup {turn[c]}]
    /\ UNCHANGED <<lock, slot, born, ses, turn, cancelled, thread, watch, task, inflight, path, running>>

AfterTask(t) == IF t = "arti" THEN "dns" ELSE "ipc"

JoinWith(c, condition) ==
    /\ Go(c, "join", IF turn[c] = "ipc" THEN "finish" ELSE "abort")
    /\ condition
    /\ turn' = [turn EXCEPT ![c] = AfterTask(@)]
    /\ UNCHANGED <<lock, slot, born, ses, cancelled, taskVars, running>>

\* Mutation: the aborted task is not awaited.
JoinTaskUnawaited(c) == JoinWith(c, TRUE)

JoinTask(c) == JoinWith(c, task[ses[c]][turn[c]] = "done" \/ MayTimeout)

Finish(c) ==
    /\ Go(c, "finish", "idle")
    /\ running' = [running EXCEPT ![ses[c]] = FALSE]
    /\ ses' = [ses EXCEPT ![c] = None]
    /\ UNCHANGED <<lock, slot, born, turn, cancelled, taskVars>>

-----------------------------------------------------------------------------
(* Leaf: a blocking thread in leaf::start, and the task that shuts it down *)

ThreadStarts(s, r) ==
    /\ thread[s][r] = "queued"
    /\ thread' = [thread EXCEPT ![s][r] = "running"]
    /\ UNCHANGED <<callVars, cancelled, watch, task, aborted, inflight, path, running>>

\* leaf::start has returned: the session is cancelled, the watcher aborted.
ThreadExit(s, r) ==
    /\ thread' = [thread EXCEPT ![s][r] = "done"]
    /\ watch' = [watch EXCEPT ![s][r] = "off"]
    /\ CancelSession(s)
    /\ UNCHANGED <<callVars, task, aborted, inflight, path, running>>

ThreadFails(s, r) == thread[s][r] \in {"queued", "running"} /\ ThreadExit(s, r)

ThreadReturns(s, r) ==
    /\ thread[s][r] = "running"
    /\ watch[s][r] = "sent"
    /\ ThreadExit(s, r)

\* leaf::shutdown of an id that leaf::start has not registered yet is kept only
\* if leaf latches it.
WatcherFires(s, r) ==
    /\ watch[s][r] = "watching"
    /\ cancelled[s]
    /\ watch' = [watch EXCEPT ![s][r] =
                    IF thread[s][r] = "running" \/ LeafLatches THEN "sent" ELSE "lost"]
    /\ UNCHANGED <<callVars, cancelled, thread, task, aborted, inflight, path, running>>

-----------------------------------------------------------------------------
(* The Arti, DNS and IPC tasks *)

EndTask(s, t) ==
    /\ task' = [task EXCEPT ![s][t] = "done"]
    /\ UNCHANGED <<callVars, thread, watch, aborted, inflight, running>>

\* create_bootstrapped() and the bind succeed; the token is first looked at now.
ArtiReady(s) ==
    /\ task[s]["arti"] = "boot"
    /\ task' = [task EXCEPT ![s]["arti"] = "serving"]
    /\ UNCHANGED <<callVars, cancelled, thread, watch, aborted, inflight, path, running>>

\* run() returns Err: configuration, bootstrap or bind.
ArtiFails(s) ==
    /\ task[s]["arti"] = "boot"
    /\ EndTask(s, "arti")
    /\ CancelSession(s)
    /\ UNCHANGED path

\* Mutation: the DNS loop has no cancelled() branch.
TaskCancelledNotDns(s, t) ==
    /\ t # "dns"
    /\ cancelled[s]
    /\ task[s][t] = "serving"
    /\ EndTask(s, t)
    /\ path' = IF t = "ipc" THEN None ELSE path
    /\ UNCHANGED cancelled

\* The cancelled() branch of a task's select!; the IPC loop removes whatever
\* is bound at its path.
TaskCancelled(s, t) ==
    /\ cancelled[s]
    /\ task[s][t] = "serving"
    /\ EndTask(s, t)
    /\ path' = IF t = "ipc" THEN None ELSE path
    /\ UNCHANGED cancelled

\* An aborted task is dropped where it awaits.
TaskAborted(s, t) ==
    /\ t \in aborted[s]
    /\ task[s][t] \in {"boot", "serving"}
    /\ EndTask(s, t)
    /\ UNCHANGED <<cancelled, path>>

QueryArrives(s) ==
    /\ task[s]["dns"] = "serving"
    /\ inflight[s] < MaxInflight
    /\ inflight' = [inflight EXCEPT ![s] = @ + 1]
    /\ UNCHANGED <<callVars, cancelled, thread, watch, task, aborted, path, running>>

QueryDone(s) ==
    /\ inflight[s] > 0
    /\ inflight' = [inflight EXCEPT ![s] = @ - 1]
    /\ UNCHANGED <<callVars, cancelled, thread, watch, task, aborted, path, running>>

\* A client's Stop request: its handler outlives the accept loop.
IpcStop(s) ==
    /\ task[s]["ipc"] # "none"
    /\ ~cancelled[s]
    /\ CancelSession(s)
    /\ UNCHANGED <<callVars, taskVars, running>>

-----------------------------------------------------------------------------
Call(c) == CallStart(c) \/ CallStop(c) \/ CallStatus(c)

Enter(c) ==
    AlreadyRunning(c) \/ Begin(c) \/ NothingToStop(c) \/ Take(c) \/ ReadStatus(c)

StartStep(c) ==
    \/ StartPt(c) \/ StartArti(c) \/ StartLeaf(c) \/ StartDns(c) \/ StartIpc(c)
    \/ StartFails(c) \/ Unwind(c) \/ Publish(c)

StopStep(c) ==
    StopCancel(c) \/ StopPt(c) \/ AbortTask(c) \/ JoinTask(c) \/ Finish(c)

LeafStep(s, r) == ThreadStarts(s, r) \/ ThreadReturns(s, r) \/ WatcherFires(s, r)

TaskStep(s, t) == TaskCancelled(s, t) \/ TaskAborted(s, t)

Environment(s) ==
    \/ ArtiReady(s) \/ ArtiFails(s) \/ QueryArrives(s) \/ IpcStop(s)
    \/ \E r \in Roles : ThreadFails(s, r)

Next ==
    \/ \E c \in Callers : Call(c) \/ Enter(c) \/ StartStep(c) \/ StopStep(c)
    \/ \E s \in Sessions :
        \/ \E r \in Roles : LeafStep(s, r)
        \/ \E t \in Tasks : TaskStep(s, t)
        \/ QueryDone(s)
        \/ Environment(s)

Spec == Init /\ [][Next]_vars

(* parking_lot's mutex is eventually fair, so a caller that waits for it gets  *)
(* it; bring-up steps do not block; tokio polls what was woken or aborted; a   *)
(* DoH query ends within reqwest's 15 s; leaf registers, and returns when told *)
(* to.  Nothing is assumed of clients, of queries or of the Tor bootstrap.     *)
FairSpec ==
    /\ Spec
    /\ \A c \in Callers :
        SF_vars(Enter(c)) /\ WF_vars(StartStep(c)) /\ WF_vars(StopStep(c))
    /\ \A s \in Sessions :
        /\ \A r \in Roles : WF_vars(LeafStep(s, r))
        /\ \A t \in Tasks : WF_vars(TaskStep(s, t))
        /\ WF_vars(QueryDone(s))

-----------------------------------------------------------------------------
(* Properties *)

Begun == 1..born

Spawned(s) ==
    \/ \E r \in Roles : thread[s][r] # "none"
    \/ \E t \in Tasks : task[s][t] # "none"

Live(s) == Spawned(s) /\ ~cancelled[s]

\* Nothing runs that nobody can stop: whatever a bring-up spawned and was not
\* cancelled is in the slot, or in the hands of the caller that builds it or
\* that took it out to cancel it (engine.rs start's `?' exits, lib.rs stop).
NoOrphan ==
    \A s \in Sessions :
        Live(s) =>
            \/ s = slot
            \/ \E c \in Callers : ses[c] = s /\ pc[c] \in Building \cup {"cancel"}

\* Two sessions are live at once only in the gap between stop() taking the
\* first out of the slot and cancelling it (lib.rs:100-107).
OneLiveSession ==
    \A s, t \in Sessions :
        Live(s) /\ Live(t) /\ s # t =>
            \E c \in Callers : ses[c] \in {s, t} /\ pc[c] = "cancel"

\* When stop() has reported a session down, its Arti, DNS and IPC tasks have
\* ended and its token is cancelled, unless a join timed out (engine.rs:149-167).
StoppedIsReaped ==
    \A s \in Begun :
        ~running[s] => cancelled[s] /\ \A t \in Tasks : task[s][t] = "done"

\* The published session owns the IPC socket path: no leftover of an earlier
\* session removed it (ipc.rs:77-83, 94).
PathServed ==
    slot # None /\ ~cancelled[slot] => path = slot

\* start() and stop() implement the abstract session life cycle.
Phase(s) ==
    IF s > born THEN "fresh"
    ELSE IF s = slot THEN "active"
    ELSE IF \E c \in Callers : ses[c] = s /\ pc[c] \in Building THEN "building"
    ELSE IF \E c \in Callers : ses[c] = s /\ pc[c] \in Stopping THEN "closing"
    ELSE "over"

Slot == INSTANCE SessionSlot WITH
            Sessions <- Sessions,
            phase <- [s \in Sessions |-> Phase(s)]

ImplementsSessionSlot == Slot!Spec

\* Every start(), stop() and status() returns (lib.rs:81-118): a bring-up holds the
\* mutex, and a tear-down joins tasks, only for as long as something else moves.
CallsReturn == \A c \in Callers : pc[c] # "idle" ~> pc[c] = "idle"

\* A cancelled session winds down for good: its leaf threads, DNS and IPC tasks
\* and queries end even if cancelled in the middle of the bring-up; Arti may be
\* left in its bootstrap.
WoundDown(s) ==
    /\ \A r \in Roles : thread[s][r] \in {"none", "done"}
    /\ \A t \in Tasks : task[s][t] # "serving"
    /\ inflight[s] = 0

CancelWindsDown == \A s \in Sessions : <>[](cancelled[s] => WoundDown(s))

\* "cancelling stops everything in well under a second": every task of a
\* cancelled session ends (docs/architecture.md:41-42).
CancelStopsEverything ==
    \A s \in Sessions :
        <>[](cancelled[s] => WoundDown(s) /\ task[s]["arti"] \in {"none", "done"})

\* "Returns once all background tasks have been cancelled and resources
\* released" (lib.rs:98-99): the leaf threads are part of them.
StopEndsLeaf ==
    \A s \in Begun : ~running[s] => \A r \in Roles : thread[s][r] = "done"

\* "cancel/disconnect instantly [...] tears down every socket" (README.md:39-40):
\* the DNS port is free when stop() has returned.
StopFreesDnsPort == \A s \in Begun : ~running[s] => ~HoldsDnsPort(s)

\* "Process-wide handle to the current VPN engine, if running" (lib.rs:47): the
\* slot does not hold an engine whose every thread and task has ended.
SlotIsRunning ==
    slot # None =>
        \/ \E r \in Roles : thread[slot][r] # "done"
        \/ \E t \in Tasks : task[slot][t] # "done"
=================================================================================
