-------------------------------- MODULE Sums --------------------------------
(***************************************************************************)
(* The sum of a function with natural values over a finite domain, defined *)
(* by counting: a value n stands for n distinct units <<a, 1>> .. <<a, n>>.  *)
(* Counting instead of folding lets SumsProofs derive what one update does *)
(* to the sum from the cardinality of unions, with no induction.           *)
(***************************************************************************)
EXTENDS Integers, FiniteSets

UnitsOf(f, a) == {a} \X (1..f[a])

Units(f) == UNION {UnitsOf(f, a) : a \in DOMAIN f}

Total(f) == Cardinality(Units(f))
=============================================================================
