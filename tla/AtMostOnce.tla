----------------------------- MODULE AtMostOnce -----------------------------
(***************************************************************************)
(* What the event outbox promises: an event that was recorded is taken by  *)
(* its consumer at some point, and its handler runs once after that, or,   *)
(* when the consumer dies in between, never.                               *)
(***************************************************************************)
CONSTANT Events

VARIABLE stage

Stages == {"none", "recorded", "taken", "handled"}

Init == stage = [e \in Events |-> "none"]

Move(e, from, to) == stage[e] = from /\ stage' = [stage EXCEPT ![e] = to]

Record(e) == Move(e, "none", "recorded")
Take(e) == Move(e, "recorded", "taken")
Handle(e) == Move(e, "taken", "handled")

Next == \E e \in Events : Record(e) \/ Take(e) \/ Handle(e)

Spec == Init /\ [][Next]_stage
=============================================================================
