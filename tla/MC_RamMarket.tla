---------------------------- MODULE MC_RamMarket ----------------------------
EXTENDS RamMarket, TLC

CONSTANTS a, b

MCStart == a :> 8 @@ b :> 4
=============================================================================
