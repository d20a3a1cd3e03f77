------------------------------- MODULE CancelToken -------------------------------
(*******************************************************************************)
(* runtime.rs `Cancel': a tokio watch channel of one Boolean.  cancel() stores *)
(* the value and bumps the version under the channel's lock, then wakes the    *)
(* subscribers in a step of its own.  cancelled() clones the receiver, looks   *)
(* at the value, and only then subscribes, so a cancel() that lands between    *)
(* any two of those steps must not be missed.  Most waiters await the token as *)
(* one branch of a select!: the future may be dropped at any await and made    *)
(* anew by the next turn of the caller's loop.                                 *)
(*                                                                             *)
(* The receiver kept in `Cancel' is never marked as seen, so every clone       *)
(* starts from version 0: changed() resolves as soon as the version is not 0.  *)
(*******************************************************************************)
EXTENDS Naturals

CONSTANTS
    Waiters,                \* tasks that await cancelled()
    Cancellers              \* tasks that call cancel(), once each

VARIABLES
    value,                  \* the Boolean in the channel
    version,                \* the channel's version; 0 is what every clone has seen
    notifies,               \* notify_waiters() calls made so far
    pcC,                    \* where each canceller is in cancel()
    pcW,                    \* where each waiter is in cancelled()
    snap                    \* notify count a subscribed waiter started from

tokenVars == <<value, version, notifies, pcC, pcW, snap>>

CancellerStates == {"idle", "stored", "done"}
WaiterStates == {"away", "cloned", "checked", "subscribed", "parked", "released"}

TokenTypeOK ==
    /\ value \in BOOLEAN
    /\ version \in Nat
    /\ notifies \in Nat
    /\ pcC \in [Cancellers -> CancellerStates]
    /\ pcW \in [Waiters -> WaiterStates]
    /\ snap \in [Waiters -> Nat]

Seen == 0

TokenInit ==
    /\ value = FALSE
    /\ version = Seen
    /\ notifies = 0
    /\ pcC = [c \in Cancellers |-> "idle"]
    /\ pcW = [w \in Waiters |-> "away"]
    /\ snap = [w \in Waiters |-> 0]

-----------------------------------------------------------------------------
(* cancel() *)

GoC(c, from, to) == pcC[c] = from /\ pcC' = [pcC EXCEPT ![c] = to]

\* Mutation: the subscribers are not woken.
StoreSilently(c) ==
    /\ GoC(c, "idle", "done")
    /\ value' = TRUE
    /\ version' = version + 1
    /\ UNCHANGED <<notifies, pcW, snap>>

Store(c) ==
    /\ GoC(c, "idle", "stored")
    /\ value' = TRUE
    /\ version' = version + 1
    /\ UNCHANGED <<notifies, pcW, snap>>

Notify(c) ==
    /\ GoC(c, "stored", "done")
    /\ notifies' = notifies + 1
    /\ UNCHANGED <<value, version, pcW, snap>>

-----------------------------------------------------------------------------
(* cancelled() *)

GoW(w, from, to) == pcW[w] = from /\ pcW' = [pcW EXCEPT ![w] = to]

\* The first poll clones the receiver.
Enter(w) ==
    /\ GoW(w, "away", "cloned")
    /\ UNCHANGED <<value, version, notifies, pcC, snap>>

ReturnEarly(w) ==
    /\ value
    /\ GoW(w, "cloned", "released")
    /\ UNCHANGED <<value, version, notifies, pcC, snap>>

SeeFalse(w) ==
    /\ ~value
    /\ GoW(w, "cloned", "checked")
    /\ UNCHANGED <<value, version, notifies, pcC, snap>>

\* changed() makes its notification future, which remembers the notify count,
\* before it compares versions.
Subscribe(w) ==
    /\ GoW(w, "checked", "subscribed")
    /\ snap' = [snap EXCEPT ![w] = notifies]
    /\ UNCHANGED <<value, version, notifies, pcC>>

Park(w) ==
    /\ version = Seen
    /\ GoW(w, "subscribed", "parked")
    /\ UNCHANGED <<value, version, notifies, pcC, snap>>

\* Mutation: changed() resolves whatever the version is.
SeeAnyVersion(w) ==
    /\ GoW(w, "subscribed", "released")
    /\ UNCHANGED <<value, version, notifies, pcC, snap>>

SeeChange(w) ==
    /\ version # Seen
    /\ GoW(w, "subscribed", "released")
    /\ UNCHANGED <<value, version, notifies, pcC, snap>>

\* A notify call after the snapshot wakes the waiter, which subscribes again.
Woken(w) ==
    /\ notifies # snap[w]
    /\ GoW(w, "parked", "checked")
    /\ UNCHANGED <<value, version, notifies, pcC, snap>>

\* Another select! branch completed while this one was pending: the future is
\* dropped.  It is pending only at the await of changed(); the steps before
\* that run within one poll.
Abandon(w) ==
    /\ GoW(w, "parked", "away")
    /\ UNCHANGED <<value, version, notifies, pcC, snap>>

-----------------------------------------------------------------------------
CancelStep(c) == Store(c) \/ Notify(c)

WaitStep(w) ==
    \/ Enter(w) \/ ReturnEarly(w) \/ SeeFalse(w) \/ Subscribe(w)
    \/ Park(w) \/ SeeChange(w) \/ Woken(w)

TokenNext ==
    \/ \E c \in Cancellers : CancelStep(c)
    \/ \E w \in Waiters : WaitStep(w) \/ Abandon(w)

TokenSpec == TokenInit /\ [][TokenNext]_tokenVars

(* A cancel() once begun is finished, and tokio polls every task that was      *)
(* woken, so each step of a waiter is taken in the end; a waiter's loop comes  *)
(* back to its select! after another branch.  Nobody has to call cancel().     *)
TokenFairSpec ==
    /\ TokenSpec
    /\ \A c \in Cancellers : WF_tokenVars(Notify(c))
    /\ \A w \in Waiters : WF_tokenVars(WaitStep(w))

-----------------------------------------------------------------------------
(* Properties *)

\* A waiter parked although the token is cancelled has a wake-up on its way: a
\* notify it has not consumed, or a canceller between its store and its notify.
NoLostWakeup ==
    \A w \in Waiters :
        pcW[w] = "parked" /\ value =>
            notifies # snap[w] \/ \E c \in Cancellers : pcC[c] = "stored"

\* cancelled() resolves only on a cancelled token (runtime.rs:28).
NoSpuriousRelease == \A w \in Waiters : pcW[w] = "released" => value

\* "resolves the moment cancel() is called on any clone" (runtime.rs:28-29): the
\* token implements the one-way latch, every waiter, in a select! or not, being
\* released once it was thrown.
L == INSTANCE Latch WITH
        requested <- value,
        released <- {w \in Waiters : pcW[w] = "released"}

ImplementsLatch == L!FairSpec
==================================================================================
