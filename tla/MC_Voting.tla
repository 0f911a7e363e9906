----------------------------- MODULE MC_Voting -----------------------------
(***************************************************************************)
(* Voting by itself.  Stakes change by update_voting_power, called by the  *)
(* system contract's staking actions; unstaking waits for activation.      *)
(***************************************************************************)
EXTENDS Voting, TLC

CONSTANTS
  MaxStake,      \* bound on the stake of one account
  MaxActivated   \* bound on total_activated_stake, which unstaking does not lower

(* Doubles with the week; a week is one step of the clock. *)
MCWeight == [t \in Times |-> 2 ^ (t + 1)]
MCLocked == [t \in Times |-> 0]

Restake(v, d) ==
  /\ staked[v] + d <= MaxStake
  /\ d < 0 => activated >= MinActivated
  /\ update_voting_power(v, d)
  /\ UNCHANGED <<now, prodVars>>

Next ==
  /\ VotingNext \/ \E v \in Accounts, d \in {-1, 1} : Restake(v, d)
  /\ activated' <= MaxActivated

Spec == VotingInit /\ [][Next]_votingVars

Symmetry == Permutations(Accounts)
=============================================================================
