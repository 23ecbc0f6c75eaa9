---- MODULE MCRecovery ----
(* Recovery, and the Account it extends, on small sets. *)
EXTENDS Recovery, TLC
Symmetry == Permutations(Passwords) \cup Permutations(Services)
====
