----------------------------- MODULE RexBalance -----------------------------
(***************************************************************************)
(* One row of the rexbal table of contracts/eosio.system/src/rex.cpp: the  *)
(* REX of one owner by the time it can be sold, which is now (matured), at *)
(* the time of a bucket, or never (savings).                               *)
(*                                                                         *)
(* The code keeps buckets and savings in one deque.  New buckets are       *)
(* appended with the latest maturity of all, savings are taken out before  *)
(* and put back after: the deque is ordered by time with savings at its    *)
(* end.  Here it is a function from times to amounts, and its back is the  *)
(* latest time with an amount.                                             *)
(***************************************************************************)
EXTENDS Integers, Functions

CONSTANTS
  SecondsPerDay,   \* seconds_per_day
  NumBuckets,      \* num_of_maturity_buckets (5)
  LastMaturity     \* bound on the times of buckets

Maturities == 0 .. LastMaturity

ASSUME BalanceAssumption ==
  /\ SecondsPerDay \in Nat \ {0} /\ NumBuckets \in Nat \ {0} /\ LastMaturity \in Nat

EmptyBalance ==
  [vote_stake |-> 0, rex |-> 0, matured |-> 0, buckets |-> [m \in Maturities |-> 0], savings |-> 0]

(* The end of day t falls in, and the days after it. *)
get_rex_maturity(t) == t - (t % SecondsPerDay) + NumBuckets * SecondsPerDay

process_rex_maturities(b, t) ==
  [b EXCEPT !.matured = @ + SumFunctionOnSet(b.buckets, {m \in Maturities : m <= t}),
            !.buckets = [m \in Maturities |-> IF m <= t THEN 0 ELSE @[m]]]

(* x more REX in the bucket of time t *)
InBucket(b, t, x) == [b EXCEPT !.buckets[get_rex_maturity(t)] = @ + x]

(* All but the REX in an open order goes into one bucket. *)
consolidate_rex_balance(b, t, selling) ==
  LET total == b.matured - selling + SumFunction(b.buckets)
  IN  [b EXCEPT !.matured = selling,
                !.buckets = [m \in Maturities |-> IF m = get_rex_maturity(t) THEN total ELSE 0]]

(* What is taken from each bucket for x: the latest ones first. *)
TakenFromBack(b, x) ==
  LET After(m) == SumFunctionOnSet(b.buckets, {n \in Maturities : n > m})
  IN  [m \in Maturities |->
         IF x <= After(m) THEN 0
         ELSE IF x - After(m) < b.buckets[m] THEN x - After(m) ELSE b.buckets[m]]

(* mvtosavings: what the buckets do not hold is taken from the matured REX. *)
MovedToSavings(b, x) ==
  LET taken == TakenFromBack(b, x)
  IN  [b EXCEPT !.buckets = [m \in Maturities |-> @[m] - taken[m]],
                !.matured = @ - (x - SumFunction(taken)),
                !.savings = @ + x]

(* Mutant: savings can be sold at once. *)
MaturedFromSavings(b, t, x) == [b EXCEPT !.savings = @ - x, !.matured = @ + x]

(* mvfrsavings *)
MovedFromSavings(b, t, x) == InBucket([b EXCEPT !.savings = @ - x], t, x)
=============================================================================
