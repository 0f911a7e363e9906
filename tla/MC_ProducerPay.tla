--------------------------- MODULE MC_ProducerPay ---------------------------
(***************************************************************************)
(* Producer pay and the election of the schedule, over the votes of        *)
(* accounts without proxies.  The instance has two plays, between which    *)
(* the first state chooses: in one two producers are paid, in the other    *)
(* three candidates are elected and nobody claims.                         *)
(***************************************************************************)
EXTENDS ProducerPay, TLC

CONSTANTS
  a, b,
  p1, p2, p3,
  MaxStake,      \* bound on the stake of one account where producers are paid
  MaxActivated   \* bound on total_activated_stake, which unstaking does not lower

VARIABLE play

MCWeight == [t \in Times |-> 2]
MCLocked == [t \in Times |-> 0]
MCRank == p2 :> 1 @@ p1 :> 2 @@ p3 :> 3

(* The stake of v changes by d in a staking action. *)
Restake(v, d) ==
  /\ d < 0 => activated >= MinActivated
  /\ update_voting_power(v, d)
  /\ UNCHANGED <<now, prodVars>>

Meanwhile == activated' <= MaxActivated /\ UNCHANGED payVars

(* One voter; p2 is from before the producers2 table, p1 leaves and comes back. *)
PayPlay ==
  \/ \E p \in {p1, p2} : onblock(p, TRUE)
  \/ \E p \in {p1, p2} : claimrewards(p)
  \/ updtrevision
  \/ /\ \/ VotingTick
        \/ staked[a] + 1 <= MaxStake /\ Restake(a, 1)
        \/ \E ps \in {{p1}, {p1, p2}} : voteproducer(a, None, ps, 0)
        \/ regproducer(p1) \/ regproducer(p2) \/ unregprod(p1)
     /\ Meanwhile

(* What an account stakes in one action: the two weigh differently. *)
Gift == a :> 1 @@ b :> 2

(* Whom an account votes for: together they produce ties and every order. *)
Ballots == a :> {{p1, p2}, {p1, p2, p3}} @@ b :> {{p2, p3}, {p1}}

ElectionPlay ==
  \/ \E accepted \in BOOLEAN : onblock(p1, accepted)
  \/ /\ \/ now = 0 /\ VotingTick
        \/ \E v \in Accounts : \/ staked[v] = 0 /\ Restake(v, Gift[v])
                               \/ \E ps \in Ballots[v] : voteproducer(v, None, ps, 0)
        \/ \E p \in Producers : regproducer(p) \/ unregprod(p)
     /\ Meanwhile

MCInit == Init /\ play \in {"pay", "election"}

Next ==
  /\ \/ play = "pay" /\ PayPlay
     \/ play = "election" /\ ElectionPlay
  /\ UNCHANGED play

Spec == MCInit /\ [][Next]_<<vars, play>>
=============================================================================
