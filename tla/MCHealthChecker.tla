-------------------------- MODULE MCHealthChecker --------------------------
(* The constants of HealthChecker for TLC: interchangeable model values. *)
EXTENDS HealthChecker, TLC

Symmetry == Permutations(Services) \cup Permutations(Tasks)
=============================================================================
