----------------------------- MODULE MC_Staking -----------------------------
EXTENDS Staking, TLC

CONSTANTS
  stk, a1, a2,
  MaxLiquid,     \* the core tokens a user starts with
  MaxUnbacked,   \* bound on what eosio.stake delegates without paying, either way
  MaxActivated   \* bound on total_activated_stake, which unstaking does not lower

MCWeight == [t \in Times |-> 2 ^ (t + 1)]
MCLocked == [t \in Times |-> 0]
MCLiquid == [a \in Accounts |-> IF a = stk THEN 0 ELSE MaxLiquid]

Symmetry == Permutations({a1, a2})

Bounds == unbacked' \in -MaxUnbacked .. MaxUnbacked /\ activated' <= MaxActivated

(* Staking alone: nobody votes. *)
StakeSpec == Init /\ [][(StakeNext \/ (VotingTick /\ UNCHANGED stakeVars)) /\ Bounds]_vars

-----------------------------------------------------------------------------
(* Stakes change while the clock leaves room for a refund, and nobody stakes
   for others, or is given stake, while its own refund is waiting. *)
Undisturbed(from, to, transfer) ==
  /\ now + RefundDelay <= MaxTime
  /\ from # StakeAccount
  /\ (from = to \/ request[IF transfer THEN to ELSE from] = None)

LiveNext ==
  \/ \E from, to \in Accounts, d \in [Kinds -> Amounts], transfer \in BOOLEAN :
       /\ Undisturbed(from, to, transfer)
       /\ delegatebw(from, to, d, transfer, 0)
  \/ \E from, to \in Accounts, d \in [Kinds -> Amounts] :
       now + RefundDelay <= MaxTime /\ undelegatebw(from, to, d, 0)
  \/ \E a \in Accounts : refund(a) \/ RunDeferred(a)
  \/ VotingTick /\ UNCHANGED stakeVars

(* Blocks go on, and the chain runs the deferred transactions that are due. *)
Fairness ==
  /\ WF_vars(VotingTick /\ UNCHANGED stakeVars)
  /\ \A a \in Accounts : WF_vars(RunDeferred(a))

LiveSpec == Init /\ [][LiveNext /\ Bounds]_vars /\ Fairness

(* Every refund is paid, or staked again, without the owner asking for it. *)
RefundIsPaid == \A a \in Accounts \ {StakeAccount} : (request[a] # None) ~> (request[a] = None)
=============================================================================
