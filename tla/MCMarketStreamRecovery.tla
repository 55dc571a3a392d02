------------------------- MODULE MCMarketStreamRecovery -------------------------
(* Instances of the stream recovery model for TLC. *)
EXTENDS MarketStreamRecovery, TLC

CONSTANTS AAPL, NVDA

TwoSymbols == {AAPL, NVDA}
Alphabetical == [s \in Symbols |-> IF s = AAPL THEN 1 ELSE 2]
=============================================================================
