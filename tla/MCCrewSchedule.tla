--------------------------- MODULE MCCrewSchedule ---------------------------
(***************************************************************************)
(* The instance of CrewSchedule that TLC checks: open requests are         *)
(* interchangeable.                                                        *)
(***************************************************************************)
EXTENDS CrewSchedule, TLC

Symmetry == Permutations(Requests)
=============================================================================
