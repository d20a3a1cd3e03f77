------------------------------ MODULE SessionSlot ------------------------------
(*******************************************************************************)
(* What start() and stop() promise their callers about engine sessions: each  *)
(* session is built, published, closed and over, in that order and once, and  *)
(* no session is begun while another is being built or is active.  A session  *)
(* that is closing may overlap its successor.  Engine implements this.        *)
(*******************************************************************************)

CONSTANT Sessions

VARIABLE phase              \* [Sessions -> Phases]

vars == <<phase>>

Phases == {"fresh", "building", "active", "closing", "over"}

Occupied == \E s \in Sessions : phase[s] \in {"building", "active"}

Move(s, from, to) == phase[s] = from /\ phase' = [phase EXCEPT ![s] = to]

Init == phase = [s \in Sessions |-> "fresh"]

Begin(s) == ~Occupied /\ Move(s, "fresh", "building")
Publish(s) == Move(s, "building", "active")
Abandon(s) == Move(s, "building", "over")
Close(s) == Move(s, "active", "closing")
Finish(s) == Move(s, "closing", "over")

Next ==
    \E s \in Sessions :
        Begin(s) \/ Publish(s) \/ Abandon(s) \/ Close(s) \/ Finish(s)

Spec == Init /\ [][Next]_vars

\* The slot never has two owners.
OneOwner ==
    \A s, t \in Sessions :
        {phase[s], phase[t]} \subseteq {"building", "active"} => s = t
================================================================================
