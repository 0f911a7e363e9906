------------------------------- MODULE Voting -------------------------------
(***************************************************************************)
(* contracts/eosio.system/src/voting.cpp: voters, proxies and producers,   *)
(* the vote weights they add up to and the vote-pay shares that grow with  *)
(* them.  Every action is one atomic transaction.                          *)
(*                                                                         *)
(* The code computes weights as double; here they are integers, a stake    *)
(* times the weight of the current time.  Weights are even, so that a real *)
(* change is never within the epsilon of propagate_weight_change (in the   *)
(* code one unit of stake weighs more than 2^18).  A list of producers is  *)
(* sorted and without repetition, hence a set.                             *)
(***************************************************************************)
EXTENDS Integers, FiniteSets, Functions

CONSTANTS
  Accounts,      \* accounts that may stake and vote
  Producers,     \* accounts that may register as block producers
  Legacy,        \* producers of a chain upgraded from before the producers2 table
  Weight,        \* Weight[t]: the weight of one unit of stake at time t
  MaxTime,       \* bound on the clock
  MaxVotes,      \* the most producers one account may vote for (30)
  MinActivated,  \* min_activated_stake
  ClaimWindow,   \* the three days after which an unclaimed producer earns no share
  B1,            \* the account b1, whose stake vests
  Locked,        \* Locked[t]: the stake b1 must still hold at time t
  None

Times == 0 .. MaxTime

ASSUME TimeAssumption == MaxTime \in Nat /\ ClaimWindow \in Nat \ {0}
ASSUME WeightAssumption == Weight \in [Times -> Nat \ {0}] /\ \A t \in Times : Weight[t] % 2 = 0
ASSUME VotingSetsAssumption ==
  /\ IsFiniteSet(Accounts) /\ IsFiniteSet(Producers)
  /\ None \notin Accounts \cup Int /\ Legacy \subseteq Producers

VARIABLES
  now,         \* current_time_point()
  voters,      \* the accounts with a row in the voters table
  staked,      \* voter_info::staked
  is_proxy,    \* voter_info::is_proxy
  proxy,       \* voter_info::proxy, or None
  choice,      \* voter_info::producers
  tally,       \* the weights and shares that votes add up to
  activated,   \* total_activated_stake
  thresh,      \* thresh_activated_stake_time, or None
  registered,  \* producers with a row in the producers table
  active,      \* of those, the ones with is_active
  rows2,       \* producers with a row in the producers2 table
  claimed,     \* last_claim_time
  voted        \* history: the accounts that have cast a vote

voteVars == <<is_proxy, proxy, choice, voted>>
prodVars == <<registered, active, rows2, claimed>>
votingVars == <<now, voters, staked, voteVars, tally, activated, thresh, prodVars>>

(* time_point(), long before the chain started *)
Epoch == -(ClaimWindow + 1)

(* last_vote_weight and proxied_vote_weight of the voters, total_votes of the
   producers and total_producer_vote_weight; votepay_share and
   last_votepay_share_update of the producers, total_producer_votepay_share,
   total_vpay_share_change_rate and last_vpay_state_update. *)
InitTally ==
  [last_vote_weight |-> [v \in Accounts |-> 0], proxied |-> [v \in Accounts |-> 0],
   votes |-> [p \in Producers |-> 0], total_weight |-> 0,
   share |-> [p \in Producers |-> 0], updated |-> [p \in Producers |-> Epoch],
   total_share |-> 0, rate |-> 0, total_updated |-> 0]

VotingInit ==
  /\ now = 0
  /\ voters = {}
  /\ staked = [v \in Accounts |-> 0]
  /\ is_proxy = [v \in Accounts |-> FALSE]
  /\ proxy = [v \in Accounts |-> None]
  /\ choice = [v \in Accounts |-> {}]
  /\ tally = InitTally
  /\ activated = 0
  /\ thresh = None
  /\ registered = Legacy
  /\ active = Legacy
  /\ rows2 = {}
  /\ claimed = [p \in Producers |-> Epoch]
  /\ voted = {}

-----------------------------------------------------------------------------
(* Vote-pay shares *)

(* Subtract without falling below zero. *)
Floored(x, d) == IF d < 0 /\ x < -d THEN 0 ELSE x + d

update_total_votepay_share(t, shares, rate) ==
  LET elapsed == IF now > t.total_updated THEN t.rate * (now - t.total_updated) ELSE 0
  IN  [t EXCEPT !.total_share = Floored(@, elapsed + shares),
                !.rate = Floored(@, rate),
                !.total_updated = now]

crossed_threshold(p) == claimed[p] + ClaimWindow <= now
updated_after_threshold(t, p) == claimed[p] + ClaimWindow <= t.updated[p]

(* What update_producer_votepay_share returns for p before its votes change. *)
new_votepay_share(t, p) ==
  t.share[p] + IF ~updated_after_threshold(t, p) /\ t.votes[p] > 0 /\ now > t.updated[p]
               THEN t.votes[p] * (now - t.updated[p]) ELSE 0

(* The share of a producer that did not claim in time is reset once. *)
Lapses(t, p) == crossed_threshold(p) /\ ~updated_after_threshold(t, p)

(* How the global rate moves when the votes of p move by d. *)
RateChange(t, p, d) ==
  CASE ~crossed_threshold(p) -> d
    [] Lapses(t, p) -> -t.votes[p]
    [] OTHER -> 0

(* Add delta[p] to the votes of every registered producer p of its domain and
   bring the shares of those producers, and then the totals, up to date. *)
ApplyDeltas(t, delta) ==
  LET S    == DOMAIN delta \cap registered
      Paid == S \cap rows2
      rate == [p \in Paid |-> RateChange(t, p, delta[p])]
      lost == [p \in Paid |-> IF Lapses(t, p) THEN new_votepay_share(t, p) ELSE 0]
      t1   == [t EXCEPT
                !.votes = [p \in Producers |-> IF p \in S THEN @[p] + delta[p] ELSE @[p]],
                !.total_weight = @ + SumFunctionOnSet(delta, S),
                !.share = [p \in Producers |->
                             IF p \notin Paid THEN @[p]
                             ELSE IF Lapses(t, p) THEN 0 ELSE new_votepay_share(t, p)],
                !.updated = [p \in Producers |-> IF p \in Paid THEN now ELSE @[p]]]
  IN  update_total_votepay_share(t1, -SumFunction(lost), SumFunction(rate))

-----------------------------------------------------------------------------
(* Vote weights *)

stake2vote(stake) == stake * Weight[now]

(* The weight a voter casts: its own stake and, as a proxy, what others cast through it. *)
VoteWeight(t, stk, isp, v) == stake2vote(stk[v]) + IF isp[v] THEN t.proxied[v] ELSE 0

Abs(x) == IF x < 0 THEN -x ELSE x

(* One call of propagate_weight_change: the tally after it and the account the
   recursion goes on with, or None. *)
PropagateOnce(t, stk, isp, v) ==
  LET new   == VoteWeight(t, stk, isp, v)
      delta == new - t.last_vote_weight[v]
      moves == Abs(delta) > 1
      t1    == CASE moves /\ proxy[v] # None -> [t EXCEPT !.proxied[proxy[v]] = @ + delta]
                 [] moves /\ proxy[v] = None -> ApplyDeltas(t, [p \in choice[v] |-> delta])
                 [] OTHER -> t
  IN  [tally |-> [t1 EXCEPT !.last_vote_weight[v] = new],
       next  |-> IF moves THEN proxy[v] ELSE None]

(* The recursion follows the proxies; NoProxyCycle bounds it by the number of
   accounts.  Its check that no registered proxy uses a proxy never fails, by
   the same invariant. *)
propagate_weight_change(t, stk, isp, v) ==
  LET walk[n \in 0 .. Cardinality(Accounts)] ==
        IF n = 0 THEN [tally |-> t, next |-> v]
        ELSE LET w == walk[n - 1]
             IN  IF w.next = None THEN w ELSE PropagateOnce(w.tally, stk, isp, w.next)
  IN  walk[Cardinality(Accounts)].tally

(* The checks of update_votes for an account with a row in voters. *)
VoteAllowed(v, px, ps, voting) ==
  /\ px # None => /\ ps = {}
                  /\ v # px
                  /\ ~is_proxy[v]
                  /\ px \in voters
                  /\ voting => is_proxy[px]
  /\ px = None => Cardinality(ps) <= MaxVotes
  /\ ps \subseteq (IF voting THEN active ELSE registered)

(* Mutant: the old proxy keeps the weight. *)
UndoNothing(t, stk, v) == t

(* Undo the last vote of v: its proxy loses the weight v cast, or, by the
   deltas, the producers it voted for do. *)
UndoProxy(t, stk, v) ==
  IF t.last_vote_weight[v] > 0 /\ proxy[v] # None
  THEN propagate_weight_change([t EXCEPT !.proxied[proxy[v]] = @ - t.last_vote_weight[v]],
                               stk, is_proxy, proxy[v])
  ELSE t

(* Mutant: the new proxy's own votes are not updated. *)
AddProxyOnly(t, stk, px, weight) ==
  IF px # None THEN [t EXCEPT !.proxied[px] = @ + weight] ELSE t

AddProxy(t, stk, px, weight) ==
  IF px # None
  THEN propagate_weight_change([t EXCEPT !.proxied[px] = @ + weight], stk, is_proxy, px)
  ELSE t

(* Mutant: the producers voted for before keep their votes. *)
NewDeltas(t, v, ps, weight) == [p \in ps |-> weight]

ProducerDeltas(t, v, ps, weight) ==
  LET old == IF t.last_vote_weight[v] > 0 /\ proxy[v] = None THEN choice[v] ELSE {}
  IN  [p \in old \cup ps |->
         (IF p \in old THEN -t.last_vote_weight[v] ELSE 0) + (IF p \in ps THEN weight ELSE 0)]

(* total_votes is set to zero where a delta took it below. *)
NonNegative(t, S) == [t EXCEPT !.votes = [p \in Producers |-> IF p \in S /\ @[p] < 0 THEN 0 ELSE @[p]]]

(* The tally after update_votes for v with the stakes stk. *)
update_votes(t, stk, v, px, ps) ==
  LET weight == VoteWeight(t, stk, is_proxy, v)
      deltas == ProducerDeltas(t, v, ps, weight)
      t1     == AddProxy(UndoProxy(t, stk, v), stk, px, weight)
      t2     == NonNegative(ApplyDeltas(t1, deltas), DOMAIN deltas)
  IN  [t2 EXCEPT !.last_vote_weight[v] = weight]

(* Mutant: the stake counts as activated with every vote. *)
ActivatedAgain(stk, v) == stk[v]

(* The stake of an account counts as activated when it votes for the first
   time, which is told by its last_vote_weight. *)
ActivatedBy(stk, v) == IF tally.last_vote_weight[v] <= 0 THEN stk[v] ELSE 0

(* The part of update_votes outside the tally: the activated stake. *)
Activate(stk, v) ==
  /\ activated' = activated + ActivatedBy(stk, v)
  /\ thresh' = IF tally.last_vote_weight[v] <= 0 /\ activated' >= MinActivated /\ thresh = None
               THEN now ELSE thresh

NewStake(v, d) == staked[v] + d

(* What is staked covers the change; b1 must keep what has not vested yet. *)
StakeSuffices(v, d) == staked[v] + d >= 0 /\ (v = B1 => staked[v] + d >= Locked[now])

HasVote(v) == choice[v] # {} \/ proxy[v] # None

(* update_voting_power, called whenever the stake of v changes by d. *)
update_voting_power(v, d) ==
  /\ voters' = voters \cup {v}
  /\ staked' = [staked EXCEPT ![v] = NewStake(v, d)]
  /\ StakeSuffices(v, d)
  /\ \/ /\ HasVote(v)
        /\ VoteAllowed(v, proxy[v], choice[v], FALSE)
        /\ tally' = update_votes(tally, staked', v, proxy[v], choice[v])
        /\ Activate(staked', v)
     \/ /\ ~HasVote(v)
        /\ UNCHANGED <<tally, activated, thresh>>
  /\ UNCHANGED voteVars

-----------------------------------------------------------------------------
(* Actions.  growth is what vote_stake_updater adds to the stake of a holder of
   REX before the vote, zero for others; Rex adds the voting requirement. *)
voteproducer(v, px, ps, growth) ==
  /\ v \in voters
  /\ VoteAllowed(v, px, ps, TRUE)
  /\ staked' = [staked EXCEPT ![v] = @ + growth]
  /\ tally' = update_votes(tally, staked', v, px, ps)
  /\ Activate(staked', v)
  /\ proxy' = [proxy EXCEPT ![v] = px]
  /\ choice' = [choice EXCEPT ![v] = ps]
  /\ voted' = voted \cup {v}
  /\ UNCHANGED <<now, voters, is_proxy, prodVars>>

(* Mutant: an account that uses a proxy may become one. *)
MayRegisterAnyway(v, isp) == is_proxy[v] # isp

MayRegister(v, isp) == is_proxy[v] # isp /\ (isp => proxy[v] = None)

regproxy(v, isp) ==
  /\ \/ /\ v \in voters
        /\ MayRegister(v, isp)
        /\ is_proxy' = [is_proxy EXCEPT ![v] = isp]
        /\ tally' = propagate_weight_change(tally, staked, is_proxy', v)
        /\ UNCHANGED voters
     \/ /\ v \notin voters
        /\ voters' = voters \cup {v}
        /\ is_proxy' = [is_proxy EXCEPT ![v] = isp]
        /\ UNCHANGED tally
  /\ UNCHANGED <<now, staked, proxy, choice, activated, thresh, voted, prodVars>>

(* A producer that is new to producers2 brings its votes into the global rate. *)
regproducer(p) ==
  /\ registered' = registered \cup {p}
  /\ active' = active \cup {p}
  /\ rows2' = rows2 \cup {p}
  /\ claimed' = [claimed EXCEPT ![p] = IF @ = Epoch THEN now ELSE @]
  /\ LET t1 == IF p \in rows2 THEN tally ELSE [tally EXCEPT !.updated[p] = now]
     IN  tally' = IF p \in registered \ rows2
                  THEN update_total_votepay_share(t1, 0, tally.votes[p]) ELSE t1
  /\ UNCHANGED <<now, voters, staked, voteVars, activated, thresh>>

(* unregprod by the producer, rmvproducer by the system account *)
unregprod(p) ==
  /\ p \in registered
  /\ active' = active \ {p}
  /\ UNCHANGED <<now, voters, staked, voteVars, tally, activated, thresh, registered, rows2, claimed>>

VotingTick ==
  /\ now < MaxTime
  /\ now' = now + 1
  /\ UNCHANGED <<voters, staked, voteVars, tally, activated, thresh, prodVars>>

VotingNext ==
  \/ VotingTick
  \/ \E v \in Accounts :
       \/ \E px \in Accounts \cup {None}, ps \in SUBSET Producers : voteproducer(v, px, ps, 0)
       \/ \E isp \in BOOLEAN : regproxy(v, isp)
  \/ \E p \in Producers : regproducer(p) \/ unregprod(p)

-----------------------------------------------------------------------------
Tallies ==
  [last_vote_weight : [Accounts -> Int], proxied : [Accounts -> Int],
   votes : [Producers -> Int], total_weight : Int,
   share : [Producers -> Int], updated : [Producers -> Times \cup {Epoch}],
   total_share : Int, rate : Int, total_updated : Times]

VotingTypeOK ==
  /\ now \in Times
  /\ voters \subseteq Accounts
  /\ staked \in [Accounts -> Nat]
  /\ is_proxy \in [Accounts -> BOOLEAN]
  /\ proxy \in [Accounts -> Accounts \cup {None}]
  /\ choice \in [Accounts -> SUBSET Producers]
  /\ tally \in Tallies
  /\ activated \in Nat
  /\ thresh \in Times \cup {None}
  /\ active \subseteq registered /\ registered \subseteq Producers
  /\ rows2 \subseteq registered
  /\ claimed \in [Producers -> Times \cup {Epoch}]
  /\ voted \subseteq voters

Cast(S) == SumFunctionOnSet(tally.last_vote_weight, S)

(* The votes of a producer are the weights last cast for it, directly or
   through proxies, however votes, proxies and stakes changed in between; and
   total_producer_vote_weight is "the sum of all producer votes". *)
VotesAddUp ==
  /\ \A p \in Producers : tally.votes[p] = Cast({v \in Accounts : p \in choice[v]})
  /\ tally.total_weight = SumFunction(tally.votes)

(* The weight a proxy holds is the sum of the weights cast by the accounts that
   use it, also after the proxy has unregistered or uses a proxy itself. *)
ProxiedAddsUp ==
  \A x \in Accounts : tally.proxied[x] = Cast({v \in Accounts : proxy[v] = x})

(* What an account cast is what its stake weighed when it last changed its vote
   or its stake, plus all that is proxied to it now if it is a proxy: a proxy's
   weight never lags behind its users. *)
CastIsCurrent ==
  \A v \in voters : choice[v] # {} \/ proxy[v] # None =>
    \E t \in 0 .. now : tally.last_vote_weight[v] =
      staked[v] * Weight[t] + IF is_proxy[v] THEN tally.proxied[v] ELSE 0

(* Following proxies from any account ends, as every set of accounts has one
   whose proxy is not in it: although a chain of several accounts can arise
   when proxies unregister, propagate_weight_change ends.  A registered proxy
   uses no proxy, and used proxies have rows. *)
NoProxyCycle ==
  /\ \A S \in SUBSET Accounts : S # {} => \E v \in S : proxy[v] \notin S
  /\ \A v \in Accounts : /\ is_proxy[v] => proxy[v] = None
                         /\ proxy[v] # None => proxy[v] \in voters /\ choice[v] = {}
                         /\ choice[v] \subseteq registered

(* Before the chain is activated, stake that counts as activated is really
   staked, by accounts that voted: the threshold is not reached by counting an
   account twice or by stake that has left. The time it was reached is kept. *)
ActivationIsBacked ==
  /\ activated < MinActivated => activated <= SumFunctionOnSet(staked, voted)
  /\ activated >= MinActivated <=> thresh # None

(* Producers that earn a share *)
Earning == {p \in rows2 : ~updated_after_threshold(tally, p)}

(* The global vote-pay share is the sum of the producers' shares at every
   moment, although it grows with one global rate and the producers' shares
   are only brought up to date when their votes change. *)
SharesAddUp ==
  /\ tally.rate = SumFunctionOnSet(tally.votes, Earning)
  /\ tally.total_share + tally.rate * (now - tally.total_updated) =
       SumFunctionOnSet([p \in Producers |-> new_votepay_share(tally, p)], rows2)
=============================================================================
