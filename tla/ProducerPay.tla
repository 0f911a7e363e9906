---------------------------- MODULE ProducerPay ----------------------------
(***************************************************************************)
(* contracts/eosio.system/src/producer_pay.cpp: what onblock counts, the   *)
(* rewards that producers claim out of new tokens, and the schedule that   *)
(* update_elected_producers (voting.cpp) proposes.  Built on the votes and *)
(* vote-pay shares of Voting.  The closing of name auctions in onblock is  *)
(* in NameAuction.                                                         *)
(*                                                                         *)
(* One action is one transaction with its inline transfers.  The inflation *)
(* and the vote pay are computed in double and cut down to integers; here  *)
(* they are integer divisions.                                             *)
(***************************************************************************)
EXTENDS Voting, TokenLedger

CONSTANTS
  Rank,           \* Rank[p]: the place of p in the order of names
  BPay, VPay,     \* eosio.bpay and eosio.vpay, which hold the two buckets
  Saving,         \* eosio.saving
  FirstSupply,    \* the supply of the core token at first
  MaxSupply,      \* its maximum supply
  InflationParts, \* one part in this many of the supply is issued per step of the clock
  PayFactor,      \* inflation_pay_factor
  VotepayFactor,  \* votepay_factor
  MinDailyPay,    \* min_pervote_daily_pay
  ClaimDay,       \* useconds_per_day
  ScheduleGap,    \* the minute between two updates of the schedule
  ScheduleSize,   \* the most producers in a schedule (21)
  MaxUnpaid       \* bound on total_unpaid_blocks

Holders == Producers \cup {BPay, VPay, Saving}

ASSUME PayAssumption ==
  /\ {BPay, VPay, Saving} \cap Producers = {} /\ BPay # VPay /\ Saving \notin {BPay, VPay}
  /\ IsInjective(Rank) /\ Rank \in [Producers -> Int]
  /\ InflationParts \in Nat \ {0} /\ PayFactor \in Nat \ {0} /\ VotepayFactor \in Nat \ {0}
  /\ ScheduleSize \in Nat \ {0} /\ FirstSupply \in Nat /\ MaxSupply \in Nat /\ FirstSupply <= MaxSupply
  /\ {MinDailyPay, ClaimDay, ScheduleGap, MaxUnpaid} \subseteq Nat

VARIABLES
  liquid,        \* core tokens of the producers and of the accounts that pay
  supply,        \* supply of the core token
  unpaid,        \* unpaid_blocks
  total_unpaid,  \* total_unpaid_blocks
  pervote,       \* pervote_bucket
  perblock,      \* perblock_bucket
  filled,        \* last_pervote_bucket_fill, or None
  revision,      \* revision
  schedule,      \* the producers of the last schedule that was accepted
  last_size,     \* last_producer_schedule_size
  last_update    \* last_producer_schedule_update

buckets == <<pervote, perblock, filled, liquid, supply>>
blocks == <<unpaid, total_unpaid, schedule, last_size, last_update>>
payVars == <<buckets, blocks, revision>>
vars == <<votingVars, payVars>>

Init ==
  /\ VotingInit
  /\ liquid = [h \in Holders |-> 0]
  /\ supply = FirstSupply
  /\ unpaid = [p \in Producers |-> 0]
  /\ total_unpaid = 0
  /\ pervote = 0
  /\ perblock = 0
  /\ filled = None
  /\ revision = 0
  /\ schedule = {}
  /\ last_size = 0
  /\ last_update = Epoch

-----------------------------------------------------------------------------
(* The schedule *)

(* Mutant: the index keeps inactive producers among the others. *)
ByVotesAlone(p) == -tally.votes[p]

(* Inactive producers with votes come last. *)
by_votes(p) == IF p \in active THEN -tally.votes[p] ELSE tally.votes[p]

(* The index prototalvote, which orders equal votes by name *)
Before(p, q) == by_votes(p) < by_votes(q) \/ (by_votes(p) = by_votes(q) /\ Rank[p] < Rank[q])
Ahead(p) == {q \in registered : Before(q, p)}

(* The walk along the index ends with the first producer that is inactive or has
   no votes, or with enough producers. *)
top_producers ==
  {p \in registered : /\ Cardinality(Ahead(p)) < ScheduleSize
                      /\ \A q \in Ahead(p) \cup {p} : q \in active /\ tally.votes[q] > 0}

LargeEnough(S) == S # {} /\ Cardinality(S) >= last_size

(* accepted: set_proposed_producers did not refuse the schedule, as it does
   when it equals the current one. *)
update_elected_producers(accepted) ==
  /\ last_update' = now
  /\ \/ /\ LargeEnough(top_producers) /\ accepted
        /\ schedule' = top_producers
        /\ last_size' = Cardinality(top_producers)
     \/ /\ ~(LargeEnough(top_producers) /\ accepted)
        /\ UNCHANGED <<schedule, last_size>>

(* A block of producer b, who at startup need not be registered.  Nothing
   happens before the chain is activated. *)
onblock(b, accepted) ==
  /\ activated >= MinActivated
  /\ filled' = IF filled = None THEN now ELSE filled
  /\ \/ /\ b \in registered
        /\ total_unpaid < MaxUnpaid
        /\ total_unpaid' = total_unpaid + 1
        /\ unpaid' = [unpaid EXCEPT ![b] = @ + 1]
     \/ /\ b \notin registered
        /\ UNCHANGED <<unpaid, total_unpaid>>
  /\ \/ now - last_update > ScheduleGap /\ update_elected_producers(accepted)
     \/ now - last_update <= ScheduleGap /\ UNCHANGED <<schedule, last_size, last_update>>
  /\ UNCHANGED <<votingVars, pervote, perblock, liquid, supply, revision>>

-----------------------------------------------------------------------------
(* Rewards *)

(* The tokens issued for the time since the buckets were filled, and where they go *)
NewTokens ==
  LET new == IF filled # None /\ now > filled
             THEN (supply * (now - filled)) \div InflationParts ELSE 0
      producers == new \div PayFactor
  IN  [all |-> new, savings |-> new - producers, perblock |-> producers \div VotepayFactor,
       pervote |-> producers - producers \div VotepayFactor]

(* issue and transfer refuse an amount of zero, and issue one beyond the
   maximum supply; then the claim fails. *)
CanFill(new) ==
  filled # None /\ now > filled =>
    new.savings > 0 /\ new.perblock > 0 /\ new.pervote > 0 /\ supply + new.all <= MaxSupply

Filled(new) ==
  [liquid EXCEPT ![Saving] = @ + new.savings, ![BPay] = @ + new.perblock,
                 ![VPay] = @ + new.pervote]

(* Mutant: a claim that comes too late is counted as one in time. *)
UpdatedInTime(p) == FALSE

(* In claimrewards a producer new to producers2 counts as updated after the threshold. *)
UpdatedAfter(p) == p \notin rows2 \/ updated_after_threshold(tally, p)

BlockPay(p, bucket) == IF total_unpaid > 0 THEN (bucket * unpaid[p]) \div total_unpaid ELSE 0

(* Mutant: the blocks that were paid for still count. *)
StillUnpaid(p) == total_unpaid

UnpaidWithout(p) == total_unpaid - unpaid[p]

(* The pay for votes out of the bucket, for the share of p, with the tally t in
   which the total share is up to date. *)
VotePay(t, p, share, bucket) ==
  LET pay == CASE revision > 0 /\ t.total_share > 0 /\ ~crossed_threshold(p) ->
                    IF share > t.total_share THEN bucket ELSE (share * bucket) \div t.total_share
               [] revision = 0 /\ t.total_weight > 0 -> (bucket * t.votes[p]) \div t.total_weight
               [] OTHER -> 0
  IN  IF pay < MinDailyPay THEN 0 ELSE pay

(* The share of p is paid and starts again; its votes join the global rate if
   they had left it. *)
ShareClaimed(t, p, share) ==
  update_total_votepay_share([t EXCEPT !.share[p] = 0, !.updated[p] = now],
                             -share, IF UpdatedAfter(p) THEN t.votes[p] ELSE 0)

(* The share that p claims, and the tally it is claimed from *)
ClaimShare(p) == IF p \in rows2 THEN new_votepay_share(tally, p) ELSE 0
ClaimTally == IF revision > 0 THEN update_total_votepay_share(tally, 0, 0) ELSE tally

claimrewards(p) ==
  LET new   == NewTokens
      share == ClaimShare(p)
      t     == ClaimTally
      bpay  == BlockPay(p, perblock + new.perblock)
      vpay  == VotePay(t, p, share, pervote + new.pervote)
  IN  /\ p \in active
      /\ activated >= MinActivated
      /\ now - claimed[p] > ClaimDay
      /\ CanFill(new)
      /\ filled' = IF filled = None THEN None ELSE now
      /\ supply' = supply + new.all
      /\ pervote' = pervote + new.pervote - vpay
      /\ perblock' = perblock + new.perblock - bpay
      /\ Covers(Filled(new), BPay, bpay) /\ Covers(Filled(new), VPay, vpay)
      /\ liquid' = moved(moved(Filled(new), BPay, p, bpay), VPay, p, vpay)
      /\ total_unpaid' = UnpaidWithout(p)
      /\ unpaid' = [unpaid EXCEPT ![p] = 0]
      /\ rows2' = rows2 \cup {p}
      /\ claimed' = [claimed EXCEPT ![p] = now]
      /\ tally' = ShareClaimed(t, p, share)
      /\ UNCHANGED <<now, voters, staked, voteVars, activated, thresh, registered, active,
                     schedule, last_size, last_update, revision>>

updtrevision ==
  /\ revision = 0
  /\ revision' = 1
  /\ UNCHANGED <<votingVars, buckets, blocks>>

PayNext ==
  \/ \E b \in Producers, accepted \in BOOLEAN : onblock(b, accepted)
  \/ \E p \in Producers : claimrewards(p)
  \/ updtrevision

(* Votes and registrations, and the staking that votes weigh, go on meanwhile. *)
Votes ==
  \/ VotingNext
  \/ \E v \in Accounts, d \in Int : update_voting_power(v, d) /\ UNCHANGED <<now, prodVars>>

PaySpec == Init /\ [][PayNext \/ (Votes /\ UNCHANGED payVars)]_vars

-----------------------------------------------------------------------------
(* The two buckets are what eosio.vpay and eosio.bpay hold, and the blocks the
   block pay is divided by are the unpaid blocks of all producers: claims in any
   order and number never pay more than was issued for it, and leave no block
   that is paid for twice. *)
BucketsAreBacked ==
  /\ liquid[VPay] = pervote /\ liquid[BPay] = perblock
  /\ total_unpaid = SumFunction(unpaid)
  /\ SumFunction(liquid) = supply - FirstSupply

(* A schedule is only replaced by one at least as large, of active producers
   with votes, and an active producer is only left out with fewer votes than all
   of them, or as many as one of them and a later name; it is as large as the
   number of candidates and its limit allow, whatever votes and registrations
   came before the block. *)
ScheduleIsElected ==
  [][schedule' # schedule =>
       LET Candidates == {p \in active : tally.votes[p] > 0}
       IN  /\ schedule' \subseteq Candidates
           /\ \A p \in schedule', q \in Candidates \ schedule' :
                \/ tally.votes[q] < tally.votes[p]
                \/ tally.votes[q] = tally.votes[p] /\ Rank[p] < Rank[q]
           /\ Cardinality(schedule') \in Cardinality(schedule) .. ScheduleSize
           /\ schedule' # Candidates => Cardinality(schedule') = ScheduleSize]_vars
=============================================================================
