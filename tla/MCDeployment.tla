--------------------------- MODULE MCDeployment ---------------------------
(* The constants of Deployment for TLC: interchangeable model values. *)
EXTENDS Deployment, TLC

Symmetry == Permutations(Services) \cup Permutations(Threads) \cup Permutations(Pids)
=============================================================================
