------------------------------ MODULE Register ------------------------------
(* What a stored resource promises its readers: an atomic register that only  *)
(* ever moves to a newer complete version, whatever is killed meanwhile.      *)
EXTENDS Integers

VARIABLE value   \* the version a reader gets; 0 before the first one

Init == value = 0
Publish == value' \in Nat /\ value' > value
Spec == Init /\ [][Publish]_value
=============================================================================
