------------------------- MODULE MCOnChainService -------------------------
(* OnChainService for TLC: the programs and the descriptions are interchangeable. *)
EXTENDS OnChainService, TLC

Symmetry == Permutations(Programs) \cup Permutations(Descriptions)
=============================================================================
