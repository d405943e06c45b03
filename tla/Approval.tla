------------------------------ MODULE Approval ------------------------------
(***************************************************************************)
(* What a confirmation promises: an action the assistant proposed runs at  *)
(* most once, only after it was approved, and one that was dropped is      *)
(* dropped for good.                                                       *)
(***************************************************************************)
CONSTANT Actions

VARIABLE stage   \* of each action

Stages == {"none", "proposed", "approved", "executed", "dropped"}
Moves(from, to, S) ==
  /\ \A a \in S : stage[a] = from
  /\ stage' = [a \in Actions |-> IF a \in S THEN to ELSE stage[a]]

Init == stage = [a \in Actions |-> "none"]

Propose(a) == Moves("none", "proposed", {a})
Approve(a) == Moves("proposed", "approved", {a})
Execute(a) == Moves("approved", "executed", {a})
Drop(S) == Moves("proposed", "dropped", S)

Next ==
  \/ \E a \in Actions : Propose(a) \/ Approve(a) \/ Execute(a)
  \/ \E S \in SUBSET Actions : Drop(S)
Spec == Init /\ [][Next]_stage
=============================================================================
