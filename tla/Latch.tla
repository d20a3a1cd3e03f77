---------------------------------- MODULE Latch ----------------------------------
(*******************************************************************************)
(* What a cancellation token promises, without saying how: a one-way switch    *)
(* that any clone can throw, and waiters that are released only after it was   *)
(* thrown, and all of them eventually.  CancelToken implements it.             *)
(*******************************************************************************)

CONSTANT Waiters            \* the tasks that await the token

VARIABLES
    requested,              \* has some clone called cancel()?
    released                \* the waiters whose cancelled() future has resolved

vars == <<requested, released>>

Init ==
    /\ requested = FALSE
    /\ released = {}

Request ==
    /\ requested' = TRUE
    /\ UNCHANGED released

Release(w) ==
    /\ requested
    /\ w \notin released
    /\ released' = released \cup {w}
    /\ UNCHANGED requested

Next == Request \/ \E w \in Waiters : Release(w)

Spec == Init /\ [][Next]_vars

FairSpec == Spec /\ \A w \in Waiters : WF_vars(Release(w))
==================================================================================
