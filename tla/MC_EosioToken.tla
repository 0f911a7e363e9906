--------------------------- MODULE MC_EosioToken ---------------------------
EXTENDS EosioToken, TLC

CONSTANTS a1, a2

(* The contract's own account is told apart by create; the others are alike. *)
Symmetry == Permutations({a1, a2})
=============================================================================
