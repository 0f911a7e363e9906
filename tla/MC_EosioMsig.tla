---------------------------- MODULE MC_EosioMsig ----------------------------
EXTENDS EosioMsig, TLC

CONSTANTS ana, bob, la, lb, lo, pay, set

(* bob has two levels, so one invalidation must void both. *)
MCActor == la :> ana @@ lb :> bob @@ lo :> bob

(* pay needs both accounts, set is authorized by either of bob's levels. *)
MCQuorums == pay :> {{la, lb}} @@ set :> {{lb}, {lo}}
MCExpiration == pay :> 1 @@ set :> 2

Once(S) == [l \in Levels |-> IF l \in S THEN 1 ELSE 0]
MCRequests == {Once({la, lb}), Once({lb, lo})}
=============================================================================
