-------------------------------- MODULE AppleTunnel --------------------------------
(*******************************************************************************)
(* The packet tunnel of iOS and macOS (PacketTunnelProvider.swift) and the C   *)
(* functions it calls (ffi.rs).  The system asks for a start; the provider     *)
(* asks the system to apply the network settings and starts the engine in that *)
(* callback, on whatever thread it comes.  The last error is kept per thread.  *)
(* A stop neither withdraws nor awaits the callback.                           *)
(*                                                                             *)
(* The engine is its slot here, filled and emptied under the slot's lock; the  *)
(* descriptor is always -1, which no FdGuard closes.                           *)
(*******************************************************************************)
EXTENDS Naturals

CONSTANTS
    Starts,                 \* calls of startTunnel
    Stops,                  \* calls of stopTunnel
    Threads,                \* threads of the provider's process
    None,
    MaxKills                \* bound: times the system ends the process

ASSUME AppleAssumption ==
    /\ Starts \cap Stops = {}
    /\ None \notin Starts \cup Stops \cup Threads
    /\ MaxKills \in Nat

Calls == Starts \cup Stops

VARIABLES
    current,                \* the start the system holds for its tunnel
    pc,                     \* how far each call is
    thread,                 \* the thread of each start's callback
    answers,                \* calls of each completion handler
    told,                   \* what a start's completion handler was given
    lastErr,                \* LAST_ERR of each thread: whose message, or none
    lock,                   \* the call that holds the engine slot's lock
    slot,                   \* the start whose engine is in the slot
    reaped,                 \* starts whose engine was stopped, or died with the process
    kills

system == <<current, answers, told, kills>>
engine == <<lock, slot, reaped>>
vars == <<system, pc, thread, lastErr, engine>>

OnThread == {"call", "entered", "failed", "ok"}
States == OnThread \cup {"idle", "asked", "settings", "stopping", "done", "gone"}

Answer == [kind : {"connected", "refused"}, text : Starts \cup {None}]
Untold == [kind |-> "none", text |-> None]
Connected == [kind |-> "connected", text |-> None]
\* A fixed text, the system's own error, or "unknown" have no start's message.
Refusal(m) == [kind |-> "refused", text |-> m]

TypeOK ==
    /\ current \in Starts \cup {None}
    /\ pc \in [Calls -> States]
    /\ thread \in [Starts -> Threads \cup {None}]
    /\ answers \in [Calls -> Nat]
    /\ told \in [Starts -> Answer \cup {Untold}]
    /\ lastErr \in [Threads -> Starts \cup {None}]
    /\ lock \in Starts \cup {None}
    /\ slot \in Starts \cup {None}
    /\ reaped \subseteq Starts
    /\ kills \in 0..MaxKills

Init ==
    /\ current = None
    /\ pc = [c \in Calls |-> "idle"]
    /\ thread = [a \in Starts |-> None]
    /\ answers = [c \in Calls |-> 0]
    /\ told = [a \in Starts |-> Untold]
    /\ lastErr = [t \in Threads |-> None]
    /\ lock = None
    /\ slot = None
    /\ reaped = {}
    /\ kills = 0

Go(c, from, to) == pc[c] = from /\ pc' = [pc EXCEPT ![c] = to]

\* The completion handler of a start; the system lets go of a start that failed.
Complete(a, what) ==
    /\ answers' = [answers EXCEPT ![a] = @ + 1]
    /\ told' = [told EXCEPT ![a] = what]
    /\ current' = IF current = a /\ what # Connected THEN None ELSE current
    /\ UNCHANGED kills

-----------------------------------------------------------------------------
(* startTunnel *)

StartTunnel(a) ==
    /\ current = None
    /\ Go(a, "idle", "asked")
    /\ current' = a
    /\ UNCHANGED <<answers, told, kills, thread, lastErr, engine>>

ConfigMissing(a) ==
    /\ Go(a, "asked", "done")
    /\ Complete(a, Refusal(None))
    /\ UNCHANGED <<thread, lastErr, engine>>

ApplySettings(a) ==
    /\ Go(a, "asked", "settings")
    /\ UNCHANGED <<system, thread, lastErr, engine>>

\* Mutation: the branch of the callback's error does not return.
SettingsRefusedOn(a) ==
    \E t \in Threads :
        /\ Go(a, "settings", "call")
        /\ thread' = [thread EXCEPT ![a] = t]
        /\ Complete(a, Refusal(None))
        /\ UNCHANGED <<lastErr, engine>>

SettingsRefused(a) ==
    /\ Go(a, "settings", "done")
    /\ Complete(a, Refusal(None))
    /\ UNCHANGED <<thread, lastErr, engine>>

Busy(t) == \E b \in Starts : thread[b] = t /\ pc[b] \in OnThread

\* The settings are applied: ff_vpn_start, on the thread of the callback.
SettingsApplied(a) ==
    \E t \in Threads :
        /\ ~Busy(t)
        /\ Go(a, "settings", "call")
        /\ thread' = [thread EXCEPT ![a] = t]
        /\ UNCHANGED <<system, lastErr, engine>>

\* Mutation: one static cell for all threads.
SetLastErrShared(a) ==
    \E m \in {a, None} : lastErr' = [t \in Threads |-> m]

\* CString::new refuses a message with a NUL in it, and none is kept then.
SetLastErr(a) ==
    \E m \in {a, None} : lastErr' = [lastErr EXCEPT ![thread[a]] = m]

\* A null pointer, a string that is not UTF-8, a config or an address that does
\* not parse.
ArgumentsRefused(a) ==
    /\ Go(a, "call", "failed")
    /\ SetLastErr(a)
    /\ UNCHANGED <<system, thread, engine>>

EnterStart(a) ==
    /\ lock = None
    /\ Go(a, "call", "entered")
    /\ lock' = a
    /\ UNCHANGED <<system, thread, lastErr, slot, reaped>>

\* Mutation: the engine is published before its bring-up can fail.
StartFailsPublished(a) ==
    /\ Go(a, "entered", "failed")
    /\ SetLastErr(a)
    /\ lock' = None
    /\ slot' = IF slot = None THEN a ELSE slot
    /\ UNCHANGED <<system, thread, reaped>>

\* AlreadyRunning, or a bring-up that fails.
StartFails(a) ==
    /\ Go(a, "entered", "failed")
    /\ SetLastErr(a)
    /\ lock' = None
    /\ UNCHANGED <<system, thread, slot, reaped>>

StartSucceeds(a) ==
    /\ slot = None
    /\ Go(a, "entered", "ok")
    /\ lock' = None
    /\ slot' = a
    /\ UNCHANGED <<system, thread, lastErr, reaped>>

\* ff_vpn_last_error, on the same thread and before any other call on it.
ReportFailure(a) ==
    /\ Go(a, "failed", "done")
    /\ Complete(a, Refusal(lastErr[thread[a]]))
    /\ UNCHANGED <<thread, lastErr, engine>>

ReportSuccess(a) ==
    /\ Go(a, "ok", "done")
    /\ Complete(a, Connected)
    /\ UNCHANGED <<thread, lastErr, engine>>

-----------------------------------------------------------------------------
(* stopTunnel, and the end of the process *)

StopTunnel(b) ==
    /\ current # None
    /\ \A c \in Stops : pc[c] \notin {"call", "stopping"}
    /\ Go(b, "idle", "call")
    /\ UNCHANGED <<system, thread, lastErr, engine>>

\* crate::stop takes the engine and stops it without the lock.
StopTakes(b) ==
    /\ lock = None
    /\ Go(b, "call", "stopping")
    /\ slot' = None
    /\ reaped' = IF slot = None THEN reaped ELSE reaped \cup {slot}
    /\ UNCHANGED <<system, thread, lastErr, lock>>

StopCompletes(b) ==
    /\ Go(b, "stopping", "done")
    /\ answers' = [answers EXCEPT ![b] = @ + 1]
    /\ current' = None
    /\ UNCHANGED <<told, kills, thread, lastErr, engine>>

Kill ==
    /\ kills < MaxKills
    /\ kills' = kills + 1
    /\ current' = None
    /\ pc' = [c \in Calls |-> IF pc[c] \in {"idle", "done"} THEN pc[c] ELSE "gone"]
    /\ lastErr' = [t \in Threads |-> None]
    /\ lock' = None
    /\ slot' = None
    /\ reaped' = IF slot = None THEN reaped ELSE reaped \cup {slot}
    /\ UNCHANGED <<answers, told, thread>>

-----------------------------------------------------------------------------
StartStep(a) ==
    \/ ConfigMissing(a) \/ ApplySettings(a)
    \/ SettingsRefused(a) \/ SettingsApplied(a)
    \/ ArgumentsRefused(a) \/ EnterStart(a) \/ StartFails(a) \/ StartSucceeds(a)
    \/ ReportFailure(a) \/ ReportSuccess(a)

StopStep(b) == StopTakes(b) \/ StopCompletes(b)

Next ==
    \/ \E a \in Starts : StartTunnel(a) \/ StartStep(a)
    \/ \E b \in Stops : StopTunnel(b) \/ StopStep(b)
    \/ Kill

Spec == Init /\ [][Next]_vars

(* The callback of the settings comes and finds a thread, and what runs on a   *)
(* thread goes on; the lock is held for a bounded time.                        *)
FairSpec ==
    /\ Spec
    /\ \A a \in Starts : WF_vars(StartStep(a))
    /\ \A b \in Stops : WF_vars(StopStep(b))

-----------------------------------------------------------------------------
(* Properties *)

\* Each completion handler is called once, also when the settings are refused or
\* a stop overtakes the callback (PacketTunnelProvider.swift:19-22, 59-68, 85-93,
\* 97-101).
Contract ==
    INSTANCE ProviderContract
    WITH asked <- {c \in Calls : pc[c] # "idle"},
         gone  <- {c \in Calls : pc[c] = "gone"}

ImplementsContract == Contract!Spec

\* A failed start is reported with its own message or with none, never with that
\* of another start, on the same thread before or on another one meanwhile
\* (ffi.rs:13-32, PacketTunnelProvider.swift:85-90).
ReportedErrorIsOwn == \A a \in Starts : told[a].text \in {a, None}

\* A start reported as up has its engine in the slot until it is stopped, and one
\* reported as failed has left none (lib.rs:80-96, PacketTunnelProvider.swift:85-93).
AnswersAreTrue ==
    \A a \in Starts :
        /\ told[a].kind = "connected" => slot = a \/ a \in reaped
        /\ told[a].kind = "refused" => slot # a

\* When the system holds no tunnel there is no engine.
StopIsFinal == current = None => slot = None
====================================================================================
