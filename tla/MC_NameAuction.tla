--------------------------- MODULE MC_NameAuction ---------------------------
EXTENDS NameAuction, TLC

CONSTANTS a, b, gold, ring, sub

(* sub.gold is a name with the suffix gold. *)
MCSuffix == [n \in Names |-> IF n = sub THEN gold ELSE n]

MCStart == a :> 18 @@ b :> 12
=============================================================================
