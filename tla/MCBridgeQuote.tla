---------------------------- MODULE MCBridgeQuote ---------------------------
(* Two prices and a fee, every rounding, and decimals that differ both ways.   *)
EXTENDS BridgeQuote

Price(num, den, fee) == [num |-> num, den |-> den, fee |-> fee]

MCPrices == {Price(1, 1, 0), Price(2, 3, 0), Price(1, 1, 1), Price(3, 20, 0)}
MCDeltas == {-1, 0, 1}
=============================================================================
