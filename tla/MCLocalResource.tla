-------------------------- MODULE MCLocalResource --------------------------
(* The constants of LocalResource for TLC. *)
EXTENDS LocalResource, TLC

Symmetry == Permutations(Writers) \cup Permutations(Inodes)
=============================================================================
