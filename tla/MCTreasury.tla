----------------------------- MODULE MCTreasury -----------------------------
(* A few units of each asset, spread in ways that need one or both of the      *)
(* Master wallet's accounts.                                                   *)
EXTENDS Treasury

Amount(token, native) == [token |-> token, native |-> native]

MCAsks == {Amount(1, 0), Amount(2, 2)}

MCStart ==
    { [safe |-> s, eoa |-> e, pot |-> p, agent |-> g, user |-> Amount(0, 0)] :
        s \in {Amount(1, 1)},
        e \in {Amount(1, 3)},
        p \in {Amount(1, 1)},
        g \in {Amount(1, 4)} }
=============================================================================
