---------------------------------- MODULE TunFd ----------------------------------
(*******************************************************************************)
(* Who closes the TUN descriptor.  FfVpnService establishes the interface and  *)
(* detaches a raw descriptor number; the number passes from Kotlin to the JNI  *)
(* guard, from there to the guard of crate::start, and inside leaf-main's      *)
(* configuration to a blocking thread that owns it once it has opened it.  A   *)
(* number that was closed may be given out again, to another TUN or to an      *)
(* unrelated file, and close(2) does not ask whose it is now.                  *)
(*                                                                             *)
(* startTunnel runs on the service's main thread, so attempts do not overlap;  *)
(* leaf's threads run beside it, those of earlier attempts included.           *)
(*******************************************************************************)
EXTENDS Integers

CONSTANTS
    Fds,                    \* descriptor numbers of the process
    Free,                   \* a number that is not open
    Other,                  \* an open file that is not a TUN
    MaxAttempts             \* bound: startTunnel calls that establish a TUN

Attempts == 1..MaxAttempts
NoAttempt == 0

ASSUME FdAssumption ==
    /\ MaxAttempts \in Nat
    /\ Free # Other
    /\ Free \notin 0..MaxAttempts
    /\ Other \notin 0..MaxAttempts

VARIABLES
    table,                  \* what each number refers to: an attempt's TUN, Other, Free
    cur,                    \* the latest attempt
    stage,                  \* who holds its descriptor on the main thread
    num,                    \* the number each attempt was given
    leaf,                   \* the leaf-main thread of each attempt
    closes,                 \* close(2) calls made for each attempt
    late,                   \* attempts that failed after leaf-main was spawned
    struck,                 \* files closed by somebody who did not own them
    slot                    \* the published attempt

vars == <<table, cur, stage, num, leaf, closes, late, struck, slot>>

\* "kotlin", "jni", "core": the holder that closes on failure; "wired": the core
\* guard, with leaf-main spawned.
Stages == {"idle", "kotlin", "jni", "core", "wired", "failed"}
LeafStates == {"none", "queued", "open", "closed", "dead"}

TypeOK ==
    /\ table \in [Fds -> Attempts \cup {Free, Other}]
    /\ cur \in 0..MaxAttempts
    /\ stage \in Stages
    /\ num \in [Attempts -> Fds]
    /\ leaf \in [Attempts -> LeafStates]
    /\ closes \in [Attempts -> Nat]
    /\ late \subseteq Attempts
    /\ struck \subseteq Attempts \cup {Other}
    /\ slot \in 0..MaxAttempts

Init ==
    /\ table = [f \in Fds |-> Free]
    /\ cur = 0
    /\ stage = "idle"
    /\ num \in {[a \in Attempts |-> f] : f \in Fds}     \* not read before establish
    /\ leaf = [a \in Attempts |-> "none"]
    /\ closes = [a \in Attempts |-> 0]
    /\ late = {}
    /\ struck = {}
    /\ slot = NoAttempt

\* close(2) on an attempt's number, whatever it refers to by now.
Close(a) ==
    /\ closes' = [closes EXCEPT ![a] = @ + 1]
    /\ table' = [table EXCEPT ![num[a]] = Free]
    /\ struck' = struck \cup ({table[num[a]]} \ {a, Free})

KeepFds == UNCHANGED <<table, closes, struck>>

-----------------------------------------------------------------------------
(* The main thread *)

\* establish() and detachFd().
Establish ==
    /\ stage = "idle"
    /\ cur < MaxAttempts
    /\ \E f \in Fds :
        /\ table[f] = Free
        /\ table' = [table EXCEPT ![f] = cur + 1]
        /\ num' = [num EXCEPT ![cur + 1] = f]
    /\ cur' = cur + 1
    /\ stage' = "kotlin"
    /\ UNCHANGED <<leaf, closes, late, struck, slot>>

Advance(from, to) == stage = from /\ stage' = to

\* An exception before NativeBridge.start: closeRawFd.
KotlinThrows ==
    /\ Advance("kotlin", "failed")
    /\ Close(cur)
    /\ UNCHANGED <<cur, num, leaf, late, slot>>

CallNative ==
    /\ Advance("kotlin", "jni")
    /\ KeepFds
    /\ UNCHANGED <<cur, num, leaf, late, slot>>

\* A conversion or the configuration is rejected: the JNI guard closes.
JniRejects ==
    /\ Advance("jni", "failed")
    /\ Close(cur)
    /\ UNCHANGED <<cur, num, leaf, late, slot>>

\* Mutation: the JNI guard is not disarmed and closes when the call returns.
EnterCoreArmed ==
    /\ Advance("jni", "core")
    /\ Close(cur)
    /\ UNCHANGED <<cur, num, leaf, late, slot>>

\* The JNI guard is disarmed, the guard of crate::start armed.
EnterCore ==
    /\ Advance("jni", "core")
    /\ KeepFds
    /\ UNCHANGED <<cur, num, leaf, late, slot>>

\* Mutation: the guard is armed only after the AlreadyRunning check.
StartFailsUnguarded ==
    /\ Advance("core", "failed")
    /\ IF slot # NoAttempt THEN KeepFds ELSE Close(cur)
    /\ UNCHANGED <<cur, num, leaf, late, slot>>

\* AlreadyRunning, or a bring-up step before leaf-main fails.
StartFails ==
    /\ Advance("core", "failed")
    /\ Close(cur)
    /\ UNCHANGED <<cur, num, leaf, late, slot>>

SpawnLeafMain ==
    /\ slot = NoAttempt
    /\ Advance("core", "wired")
    /\ leaf' = [leaf EXCEPT ![cur] = "queued"]
    /\ KeepFds
    /\ UNCHANGED <<cur, num, late, slot>>

\* The DNS or the IPC bring-up fails with leaf-main on its way: the guard closes.
StartFailsLate ==
    /\ Advance("wired", "failed")
    /\ late' = late \cup {cur}
    /\ Close(cur)
    /\ UNCHANGED <<cur, num, leaf, slot>>

\* Mutation: the guard closes although the session was published.
PublishArmed ==
    /\ Advance("wired", "idle")
    /\ slot' = cur
    /\ Close(cur)
    /\ UNCHANGED <<cur, num, leaf, late>>

\* The guard is disarmed: the descriptor is leaf's.
Publish ==
    /\ Advance("wired", "idle")
    /\ slot' = cur
    /\ KeepFds
    /\ UNCHANGED <<cur, num, leaf, late>>

\* Mutation: the platform closes as well when native start returns an error.
AfterFailureCloses ==
    /\ Advance("failed", "idle")
    /\ slot' = NoAttempt
    /\ Close(cur)
    /\ UNCHANGED <<cur, num, leaf, late>>

\* stopTunnel after a failure; the ParcelFileDescriptor it closes is detached.
AfterFailure ==
    /\ Advance("failed", "idle")
    /\ slot' = NoAttempt
    /\ KeepFds
    /\ UNCHANGED <<cur, num, leaf, late>>

StopTunnel ==
    /\ stage = "idle"
    /\ slot # NoAttempt
    /\ slot' = NoAttempt
    /\ KeepFds
    /\ UNCHANGED <<cur, stage, num, leaf, late>>

-----------------------------------------------------------------------------
(* Leaf's thread, and the rest of the process *)

LeafOpens(a) ==
    /\ leaf[a] = "queued"
    /\ leaf' = [leaf EXCEPT ![a] = "open"]
    /\ KeepFds
    /\ UNCHANGED <<cur, stage, num, late, slot>>

\* leaf::start returns before its TUN inbound took the descriptor.
LeafDies(a) ==
    /\ leaf[a] = "queued"
    /\ leaf' = [leaf EXCEPT ![a] = "dead"]
    /\ KeepFds
    /\ UNCHANGED <<cur, stage, num, late, slot>>

LeafCloses(a) ==
    /\ leaf[a] = "open"
    /\ leaf' = [leaf EXCEPT ![a] = "closed"]
    /\ Close(a)
    /\ UNCHANGED <<cur, stage, num, late, slot>>

OpenOther(f) ==
    /\ table[f] = Free
    /\ table' = [table EXCEPT ![f] = Other]
    /\ UNCHANGED <<cur, stage, num, leaf, closes, late, struck, slot>>

CloseOther(f) ==
    /\ table[f] = Other
    /\ table' = [table EXCEPT ![f] = Free]
    /\ UNCHANGED <<cur, stage, num, leaf, closes, late, struck, slot>>

-----------------------------------------------------------------------------
MainStep ==
    \/ Establish \/ KotlinThrows \/ CallNative \/ JniRejects \/ EnterCore
    \/ StartFails \/ SpawnLeafMain \/ StartFailsLate \/ Publish
    \/ AfterFailure \/ StopTunnel

LeafStep(a) == LeafOpens(a) \/ LeafDies(a) \/ LeafCloses(a)

Next ==
    \/ MainStep
    \/ \E a \in Attempts : LeafStep(a)
    \/ \E f \in Fds : OpenOther(f) \/ CloseOther(f)

Spec == Init /\ [][Next]_vars

-----------------------------------------------------------------------------
(* Properties *)

\* The attempts whose descriptor somebody on the main thread is to close.
Guarded == IF stage \in {"kotlin", "jni", "core", "wired"} THEN {cur} ELSE {}

\* Every descriptor has somebody who is to close it until it is closed: a holder
\* on the main thread or leaf.  The one way to lose it is a leaf that returns
\* before it opened the TUN of a session that was published.
OwnedUntilClosed ==
    \A a \in 1..cur :
        closes[a] = 0 =>
            a \in Guarded \/ leaf[a] \in {"queued", "open", "dead"}

\* A descriptor is closed a second time only if its bring-up failed after
\* leaf-main had been spawned (lib.rs:83-95, FfVpnService.kt:70-79).
DoubleCloseNeedsLateFailure ==
    \A a \in Attempts : closes[a] > 1 => a \in late

\* Nobody's file is closed by a stranger but after such a late failure.
StrangersAreSafe == struck # {} => late # {}

\* The TUN of a running session stays open under its number, unless an earlier
\* attempt failed late.
RunningTunIntact ==
    \A a \in Attempts :
        leaf[a] = "open" /\ late = {} => table[num[a]] = a

\* "the platform-supplied TUN fd is closed exactly once if engine bring-up
\* fails" (util.rs:45-48).
ClosedAtMostOnce == \A a \in Attempts : closes[a] <= 1
==================================================================================
