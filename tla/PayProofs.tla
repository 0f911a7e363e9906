----------------------------- MODULE PayProofs -----------------------------
(***************************************************************************)
(* Proofs about ProducerPay for any accounts, producers, factors and       *)
(* bounds: the global vote-pay share is the sum of the producers' shares,  *)
(* the buckets are what the paying accounts hold, and every claim is       *)
(* covered by them.                                                        *)
(***************************************************************************)
EXTENDS ProducerPay, VotingProofs

(* A sum of one entry *)
LEMMA SumOne ==
  ASSUME NEW f \in [Producers -> Int], NEW p \in Producers, \A q \in Producers \ {p} : f[q] = 0
  PROVE  SumFunctionOnSet(f, Producers) = f[p]
<1> DEFINE z == [q \in Producers |-> 0]
<1>1. z \in [Producers -> Int] /\ \A q \in Producers : z[q] = 0
  OBVIOUS
<1> HIDE DEF z
<1>2. SumFunctionOnSet(z, Producers) = 0
  BY <1>1, SumNone
<1>3. IsFiniteSet(Producers) /\ Producers \in SUBSET Producers /\ Producers \subseteq Producers
      /\ \A q \in Producers \ {p} : f[q] = z[q]
  BY <1>1, VotingSetsAssumption
<1>4. SumFunctionOnSet(f, Producers) = SumFunctionOnSet(z, Producers) - z[p] + f[p]
  BY <1>1, <1>3, SumDiffer
<1> QED BY <1>1, <1>2, <1>4

-----------------------------------------------------------------------------
(* Vote-pay shares *)

(* A producer has claimed, or has a claim to come, once it has a row in
   producers2. *)
ClaimsMatch == \A p \in Producers : claimed[p] = Epoch <=> p \notin rows2

PayInv == VotesInv /\ FairNow(tally) /\ ClaimsMatch

(* A producer that nobody can have voted for has no votes. *)
LEMMA NoVotes ==
  ASSUME VotesInv, NEW p \in Producers, p \notin registered
  PROVE  tally.votes[p] = 0
<1>1. NoProxyCycle /\ AddsUp(tally, proxy, choice) /\ tally \in Tallies
  BY InvParts
<1>2. {u \in Accounts : p \in choice[u]} = {}
  BY <1>1 DEF NoProxyCycle
<1>3. tally.votes[p] = SumFunctionOnSet(tally.last_vote_weight, {u \in Accounts : p \in choice[u]})
  BY <1>1 DEF AddsUp
<1>4. tally.last_vote_weight \in [Accounts -> Int]
  BY <1>1 DEF Tallies
<1>5. SumFunctionOnSet(tally.last_vote_weight, {}) = 0
  BY <1>4, SumEmpty
<1> QED BY <1>2, <1>3, <1>5

(* p has a share from now on, with a row and a new claim k: it earns with all its
   votes, and has lost what it had in the tally t. *)
Restarted(t, s, k, p) ==
  /\ k \in [Producers -> Times \cup {Epoch}]
  /\ \A q \in Producers : /\ s.votes[q] >= 0 /\ s.share[q] >= 0 /\ s.updated[q] <= now
                          /\ q \notin rows2 \cup {p} => s.share[q] = 0
  /\ \A q \in Producers \ {p} :
       /\ Shares(s, k, rows2 \cup {p}, now)[q] = Shares(t, claimed, rows2, now)[q]
       /\ Rates(s, k, rows2 \cup {p})[q] = Rates(t, claimed, rows2)[q]
  /\ Shares(s, k, rows2 \cup {p}, now)[p] = 0
  /\ Rates(s, k, rows2 \cup {p})[p] = t.votes[p]

(* So it is when its share is set to zero and its last update to now. *)
LEMMA ShareStarts ==
  ASSUME VotingTypeOK, NEW t, FairNow(t), NEW p \in Producers,
         NEW s \in Tallies, s.votes = t.votes,
         s.share = [t.share EXCEPT ![p] = 0], s.updated = [t.updated EXCEPT ![p] = now],
         NEW k, k = [claimed EXCEPT ![p] = now]
  PROVE  Restarted(t, s, k, p)
<1>0. /\ now \in Times /\ now \in Int /\ claimed \in [Producers -> Times \cup {Epoch}] /\ ClaimWindow \in Nat \ {0}
      /\ t \in Tallies /\ t.share \in [Producers -> Int] /\ t.updated \in [Producers -> Times \cup {Epoch}]
      /\ t.votes \in [Producers -> Int]
  BY TimeAssumption DEF VotingTypeOK, FairNow, Fair, Tallies, Times
<1>1. \A q \in Producers : /\ t.votes[q] >= 0 /\ t.share[q] >= 0 /\ t.updated[q] <= now
                           /\ q \notin rows2 => t.share[q] = 0
  BY DEF FairNow, Fair
<1>2. k \in [Producers -> Times \cup {Epoch}] /\ k[p] = now /\ \A q \in Producers \ {p} : k[q] = claimed[q]
  BY <1>0
<1>3. /\ s.share[p] = 0 /\ s.updated[p] = now
      /\ \A q \in Producers \ {p} : s.share[q] = t.share[q] /\ s.updated[q] = t.updated[q]
  BY <1>0
<1>4. ASSUME NEW q \in Producers
      PROVE  s.votes[q] >= 0 /\ s.share[q] >= 0 /\ s.updated[q] <= now
             /\ (q \notin rows2 \cup {p} => s.share[q] = 0)
  <2>1. CASE q = p
    BY <1>0, <1>1, <1>3, <2>1
  <2>2. CASE q # p
    BY <1>1, <1>3, <2>2
  <2> QED BY <2>1, <2>2
<1>5. ASSUME NEW q \in Producers \ {p}
      PROVE  /\ Shares(s, k, rows2 \cup {p}, now)[q] = Shares(t, claimed, rows2, now)[q]
             /\ Rates(s, k, rows2 \cup {p})[q] = Rates(t, claimed, rows2)[q]
  BY <1>2, <1>3 DEF Shares, Rates, Accrued, Earns
<1>6. Earns(s, k, p)
  BY <1>0, <1>2, <1>3 DEF Earns
<1>7. Rates(s, k, rows2 \cup {p})[p] = t.votes[p]
  BY <1>6 DEF Rates
<1>8. Shares(s, k, rows2 \cup {p}, now)[p] = 0
  BY <1>0, <1>3 DEF Shares, Accrued
<1> QED BY <1>2, <1>4, <1>5, <1>7, <1>8 DEF Restarted

(* From the tally t with the claims c and rows R to s with k and Q, shares and
   rates change by ds and dr; the totals are still those of t. *)
Shifted(t, c, R, s, k, Q, ds, dr) ==
  /\ now \in Times /\ c \in [Producers -> Times \cup {Epoch}] /\ Fair(t, c, R, now)
  /\ s \in Tallies /\ s.rate = t.rate /\ s.total_share = t.total_share /\ s.total_updated = t.total_updated
  /\ k \in [Producers -> Times \cup {Epoch}]
  /\ \A p \in Producers : /\ s.votes[p] >= 0 /\ s.share[p] >= 0 /\ s.updated[p] <= now
                          /\ p \notin Q => s.share[p] = 0
  /\ ds \in [Producers -> Int] /\ dr \in [Producers -> Int]
  /\ \A p \in Producers : /\ Shares(s, k, Q, now)[p] = Shares(t, c, R, now)[p] + ds[p]
                          /\ Rates(s, k, Q)[p] = Rates(t, c, R)[p] + dr[p]

(* Giving the totals the sums of the changes makes the tally fair again. *)
LEMMA TotalsFollow ==
  ASSUME NEW t, NEW c, NEW R, NEW s, NEW k, NEW Q, NEW ds, NEW dr, Shifted(t, c, R, s, k, Q, ds, dr)
  PROVE  Fair(update_total_votepay_share(s, SumFunctionOnSet(ds, Producers), SumFunctionOnSet(dr, Producers)),
              k, Q, now)
<1> DEFINE r == update_total_votepay_share(s, SumFunctionOnSet(ds, Producers), SumFunctionOnSet(dr, Producers))
<1>1. r = update_total_votepay_share(s, SumFunctionOnSet(ds, Producers), SumFunctionOnSet(dr, Producers))
  OBVIOUS
<1> HIDE DEF r
<1>2. Fair(r, k, Q, now)
  BY <1>1, SharesMove DEF Shifted
<1> QED BY <1>2 DEF r

(* The totals lose the old share and gain the votes that were not in the rate. *)
LEMMA ShareRestarts ==
  ASSUME VotingTypeOK, NEW t, FairNow(t), NEW p \in Producers,
         NEW s \in Tallies, s.votes = t.votes,
         s.share = [t.share EXCEPT ![p] = 0], s.updated = [t.updated EXCEPT ![p] = now],
         s.rate = t.rate, s.total_share = t.total_share, s.total_updated = t.total_updated,
         NEW k, k = [claimed EXCEPT ![p] = now],
         NEW x, x = -Shares(t, claimed, rows2, now)[p],
         NEW y, y = t.votes[p] - Rates(t, claimed, rows2)[p],
         NEW r, r = update_total_votepay_share(s, x, y)
  PROVE  Fair(r, k, rows2 \cup {p}, now)
<1> DEFINE Q == rows2 \cup {p}
           f == Rates(t, claimed, rows2)
           g == Shares(t, claimed, rows2, now)
           ds == [q \in Producers |-> IF q = p THEN x ELSE 0]
           dr == [q \in Producers |-> IF q = p THEN y ELSE 0]
<1>1. /\ k \in [Producers -> Times \cup {Epoch}]
      /\ \A q \in Producers : /\ s.votes[q] >= 0 /\ s.share[q] >= 0 /\ s.updated[q] <= now
                              /\ q \notin Q => s.share[q] = 0
      /\ \A q \in Producers \ {p} : Shares(s, k, Q, now)[q] = g[q] /\ Rates(s, k, Q)[q] = f[q]
      /\ Shares(s, k, Q, now)[p] = 0 /\ Rates(s, k, Q)[p] = t.votes[p]
  <2>1. Restarted(t, s, k, p)
    BY ShareStarts
  <2> QED BY <2>1 DEF Restarted
<1>2. now \in Times /\ claimed \in [Producers -> Times \cup {Epoch}] /\ Fair(t, claimed, rows2, now)
      /\ t \in Tallies /\ t.votes[p] \in Int /\ \A q \in Producers : t.votes[q] >= 0 /\ t.share[q] >= 0
  BY DEF VotingTypeOK, FairNow, Fair, Tallies
<1>3. f \in [Producers -> Int] /\ g \in [Producers -> Int]
  BY <1>2, FairTypes
<1>4. x \in Int /\ y \in Int /\ x = -g[p] /\ y = t.votes[p] - f[p]
  BY <1>2, <1>3
<1> HIDE DEF Q, f, g
<1>5. /\ ds \in [Producers -> Int] /\ dr \in [Producers -> Int] /\ ds[p] = x /\ dr[p] = y
      /\ \A q \in Producers \ {p} : ds[q] = 0 /\ dr[q] = 0
  BY <1>4
<1> HIDE DEF ds, dr
<1>6. SumFunctionOnSet(ds, Producers) = x /\ SumFunctionOnSet(dr, Producers) = y
  BY <1>5, SumOne
<1>7. ASSUME NEW q \in Producers
      PROVE  Shares(s, k, Q, now)[q] = g[q] + ds[q] /\ Rates(s, k, Q)[q] = f[q] + dr[q]
  <2>1. CASE q = p
    <3>1. g[p] + ds[p] = 0 /\ f[p] + dr[p] = t.votes[p]
      BY <1>2, <1>3, <1>4, <1>5
    <3> QED BY <1>1, <2>1, <3>1
  <2>2. CASE q # p
    <3>1. g[q] \in Int /\ f[q] \in Int /\ ds[q] = 0 /\ dr[q] = 0
      BY <1>3, <1>5, <2>2
    <3>2. Shares(s, k, Q, now)[q] = g[q] /\ Rates(s, k, Q)[q] = f[q]
      BY <1>1, <2>2
    <3> QED BY <3>1, <3>2
  <2> QED BY <2>1, <2>2
<1>8. r = update_total_votepay_share(s, SumFunctionOnSet(ds, Producers), SumFunctionOnSet(dr, Producers))
  BY <1>6
<1>9. Fair(r, k, Q, now)
  <2>1. Shifted(t, claimed, rows2, s, k, Q, ds, dr)
    BY <1>1, <1>2, <1>5, <1>7 DEF Shifted, f, g
  <2> QED BY <1>8, <2>1, TotalsFollow
<1> QED BY <1>9 DEF Q

(* Bringing only the totals up to date changes no share. *)
LEMMA TotalsUpdated ==
  ASSUME VotingTypeOK, NEW t, FairNow(t), NEW r, r = update_total_votepay_share(t, 0, 0)
  PROVE  /\ FairNow(r) /\ r.votes = t.votes /\ r.share = t.share /\ r.updated = t.updated
         /\ r.last_vote_weight = t.last_vote_weight /\ r.proxied = t.proxied /\ r.total_weight = t.total_weight
<1> DEFINE z == [q \in Producers |-> 0]
           f == Rates(t, claimed, rows2)
           g == Shares(t, claimed, rows2, now)
<1>1. z \in [Producers -> Int] /\ \A q \in Producers : z[q] = 0
  OBVIOUS
<1> HIDE DEF z
<1>2. SumFunctionOnSet(z, Producers) = 0
  BY <1>1, SumNone
<1>3. now \in Times /\ claimed \in [Producers -> Times \cup {Epoch}] /\ Fair(t, claimed, rows2, now)
      /\ t \in Tallies
      /\ \A q \in Producers : /\ t.votes[q] >= 0 /\ t.share[q] >= 0 /\ t.updated[q] <= now
                              /\ q \notin rows2 => t.share[q] = 0
  BY DEF VotingTypeOK, FairNow, Fair
<1>4. f \in [Producers -> Int] /\ g \in [Producers -> Int]
  <2>1. \A q \in Producers : t.votes[q] >= 0 /\ t.share[q] >= 0
    BY <1>3
  <2>2. f \in [Producers -> Nat] /\ g \in [Producers -> Nat]
    BY <1>3, <2>1, FairTypes
  <2> QED BY <2>2
<1>5. \A q \in Producers : g[q] = g[q] + z[q] /\ f[q] = f[q] + z[q]
  BY <1>1, <1>4
<1>6. Fair(r, claimed, rows2, now)
  BY <1>1, <1>2, <1>3, <1>5, SharesMove
<1>7. /\ r.votes = t.votes /\ r.share = t.share /\ r.updated = t.updated
      /\ r.last_vote_weight = t.last_vote_weight /\ r.proxied = t.proxied /\ r.total_weight = t.total_weight
  BY <1>3 DEF update_total_votepay_share, Tallies
<1> QED BY <1>6, <1>7 DEF FairNow

-----------------------------------------------------------------------------
(* Steps *)

(* The shares in the next state, at the same time *)
LEMMA NextFair ==
  ASSUME now' = now, Fair(tally', claimed', rows2', now)
  PROVE  FairNow(tally)'
<1>1. FairNow(tally)' = Fair(tally', claimed', rows2', now')
  BY DEF FairNow, Fair, Rates, Shares, Accrued, Earns
<1> QED BY <1>1

(* regproducer: the votes of a producer that is new to producers2 join the rate;
   one that had no row at all has no votes. *)
LEMMA RegisterFair ==
  ASSUME PayInv, NEW p \in Producers, regproducer(p)
  PROVE  FairNow(tally)' /\ ClaimsMatch'
<1>0. /\ VotingTypeOK /\ VotesInv /\ FairNow(tally) /\ ClaimsMatch /\ tally \in Tallies /\ now \in Times
      /\ claimed \in [Producers -> Times \cup {Epoch}] /\ now \in Nat /\ Epoch \in Int /\ Epoch < 0
  BY TimeAssumption DEF PayInv, VotesInv, VotingTypeOK, Times, Epoch
<1>1. /\ rows2' = rows2 \cup {p} /\ now' = now
      /\ claimed' = [claimed EXCEPT ![p] = IF claimed[p] = Epoch THEN now ELSE claimed[p]]
  BY DEF regproducer
<1>2. ClaimsMatch'
  <2>1. ASSUME NEW q \in Producers PROVE claimed'[q] = Epoch <=> q \notin rows2'
    <3>1. CASE q = p
      BY <1>0, <1>1, <3>1
    <3>2. CASE q # p
      BY <1>0, <1>1, <3>2 DEF ClaimsMatch
    <3> QED BY <3>1, <3>2
  <2>2. ClaimsMatch' = \A q \in Producers : claimed'[q] = Epoch <=> q \notin rows2'
    BY DEF ClaimsMatch
  <2> QED BY <2>1, <2>2
<1>3. CASE p \in rows2
  <2>1. tally' = tally /\ rows2' = rows2
    BY <1>1, <1>3 DEF regproducer
  <2>2. claimed[p] # Epoch
    BY <1>0, <1>3 DEF ClaimsMatch
  <2>3. claimed' = claimed
    BY <1>0, <1>1, <2>2
  <2>4. Fair(tally', claimed', rows2', now)
    BY <1>0, <2>1, <2>3 DEF FairNow
  <2> QED BY <1>1, <1>2, <2>4, NextFair
<1>4. CASE p \notin rows2
  <2> DEFINE s == [tally EXCEPT !.updated[p] = now]
             k == [claimed EXCEPT ![p] = now]
  <2>1. claimed' = k
    BY <1>0, <1>1, <1>4 DEF ClaimsMatch
  <2>2. tally.share[p] = 0 /\ tally.votes[p] \in Int /\ tally.share \in [Producers -> Int]
    BY <1>0, <1>4 DEF FairNow, Fair, Tallies
  <2>3. /\ s \in Tallies /\ s.votes = tally.votes /\ s.share = tally.share
        /\ s.updated = [tally.updated EXCEPT ![p] = now]
        /\ s.rate = tally.rate /\ s.total_share = tally.total_share /\ s.total_updated = tally.total_updated
    BY <1>0 DEF Tallies
  <2>4. s.share = [tally.share EXCEPT ![p] = 0]
    BY <2>2, <2>3
  <2>5. tally' = IF p \in registered THEN update_total_votepay_share(s, 0, tally.votes[p]) ELSE s
    BY <1>4 DEF regproducer
  <2> HIDE DEF s
  <2>6. Shares(tally, claimed, rows2, now)[p] = 0 /\ Rates(tally, claimed, rows2)[p] = 0
    BY <1>4 DEF Shares, Rates
  <2>7. k = [claimed EXCEPT ![p] = now]
    OBVIOUS
  <2> HIDE DEF k
  <2>8. CASE p \in registered
    <3> DEFINE x == 0
               y == tally.votes[p]
               r == update_total_votepay_share(s, x, y)
    <3>1. x = -Shares(tally, claimed, rows2, now)[p] /\ y = tally.votes[p] - Rates(tally, claimed, rows2)[p]
      <4> DEFINE z == Shares(tally, claimed, rows2, now)[p]
                 f == Rates(tally, claimed, rows2)[p]
      <4>1. z = 0 /\ z \in Int /\ f = 0 /\ x = 0 /\ y \in Int
        BY <2>2, <2>6
      <4> HIDE DEF z, f, x, y
      <4>2. x = -z
        <5>1. \A i \in Int : -i = 0 - i
          OBVIOUS
        <5>2. -z = 0 - z
          BY ONLY <4>1, <5>1, Zenon
        <5>3. 0 - z = x
          BY <4>1
        <5> QED BY ONLY <5>2, <5>3, Zenon
      <4>3. y = y - f
        BY <4>1
      <4> QED BY <4>2, <4>3 DEF z, f, x, y
    <3>2. r = update_total_votepay_share(s, x, y) /\ tally' = r
      BY <2>5, <2>8
    <3> HIDE DEF x, y, r
    <3>3. Fair(r, k, rows2 \cup {p}, now)
      BY <1>0, <2>3, <2>4, <2>7, <3>1, <3>2, ShareRestarts
    <3> QED BY <1>1, <1>2, <2>1, <3>2, <3>3, NextFair
  <2>9. CASE p \notin registered
    <3>1. tally.votes[p] = 0
      BY <1>0, <2>9, NoVotes
    <3>2. Restarted(tally, s, k, p)
      BY <1>0, <2>3, <2>4, <2>7, ShareStarts
    <3>3. /\ Shares(s, k, rows2 \cup {p}, now) = Shares(tally, claimed, rows2, now)
          /\ Rates(s, k, rows2 \cup {p}) = Rates(tally, claimed, rows2)
      <4> DEFINE f == Shares(s, k, rows2 \cup {p}, now)
                 g == Shares(tally, claimed, rows2, now)
                 h == Rates(s, k, rows2 \cup {p})
                 i == Rates(tally, claimed, rows2)
      <4>1. \A q \in Producers : f[q] = g[q] /\ h[q] = i[q]
        BY <2>6, <3>1, <3>2 DEF Restarted
      <4>2. /\ f = [q \in Producers |-> f[q]] /\ g = [q \in Producers |-> g[q]]
            /\ h = [q \in Producers |-> h[q]] /\ i = [q \in Producers |-> i[q]]
        BY DEF Shares, Rates
      <4> HIDE DEF f, g, h, i
      <4>3. f = g /\ h = i
        BY <4>1, <4>2
      <4> QED BY <4>3 DEF f, g, h, i
    <3>4. Fair(s, k, rows2 \cup {p}, now)
      BY <1>0, <2>3, <3>2, <3>3 DEF FairNow, Fair, Restarted
    <3> QED BY <1>1, <1>2, <2>1, <2>5, <2>9, <3>4, NextFair
  <2> QED BY <2>8, <2>9
<1> QED BY <1>3, <1>4

(* claimrewards *)
LEMMA ClaimFair ==
  ASSUME PayInv, NEW p \in Producers, claimrewards(p)
  PROVE  PayInv'
<1>0. /\ VotingTypeOK /\ VotesInv /\ FairNow(tally) /\ ClaimsMatch /\ tally \in Tallies /\ now \in Times
      /\ claimed \in [Producers -> Times \cup {Epoch}] /\ now \in Nat /\ Epoch \in Int /\ Epoch < 0
  BY TimeAssumption DEF PayInv, VotesInv, VotingTypeOK, Times, Epoch
<1> DEFINE share == IF p \in rows2 THEN new_votepay_share(tally, p) ELSE 0
           t == IF revision > 0 THEN update_total_votepay_share(tally, 0, 0) ELSE tally
           s == [t EXCEPT !.share[p] = 0, !.updated[p] = now]
           k == [claimed EXCEPT ![p] = now]
           x == -share
           y == IF UpdatedAfter(p) THEN t.votes[p] ELSE 0
           r == update_total_votepay_share(s, x, y)
<1>1. /\ rows2' = rows2 \cup {p} /\ claimed' = k /\ tally' = r /\ now' = now /\ p \in active
      /\ UNCHANGED <<voters, staked, voteVars, activated, thresh, registered, active>>
  BY DEF claimrewards, ShareClaimed, ClaimShare, ClaimTally
<1>2. /\ FairNow(t) /\ t.votes = tally.votes /\ t.share = tally.share /\ t.updated = tally.updated
      /\ t.last_vote_weight = tally.last_vote_weight /\ t.proxied = tally.proxied
      /\ t.total_weight = tally.total_weight
  <2> DEFINE u == update_total_votepay_share(tally, 0, 0)
  <2>1. u = update_total_votepay_share(tally, 0, 0)
    OBVIOUS
  <2>2. t = IF revision > 0 THEN u ELSE tally
    OBVIOUS
  <2> HIDE DEF u, t
  <2>3. /\ FairNow(u) /\ u.votes = tally.votes /\ u.share = tally.share /\ u.updated = tally.updated
        /\ u.last_vote_weight = tally.last_vote_weight /\ u.proxied = tally.proxied
        /\ u.total_weight = tally.total_weight
    BY <1>0, <2>1, TotalsUpdated
  <2> QED BY <1>0, <2>2, <2>3
<1> HIDE DEF t
<1>3. t \in Tallies /\ t.votes[p] \in Nat /\ claimed[p] + ClaimWindow \in Int /\ t.updated[p] \in Int
  BY <1>0, <1>2, TimeAssumption DEF FairNow, Fair, Tallies, Times, Epoch
<1>4. /\ s \in Tallies /\ s.votes = t.votes /\ s.share = [t.share EXCEPT ![p] = 0]
      /\ s.updated = [t.updated EXCEPT ![p] = now]
      /\ s.rate = t.rate /\ s.total_share = t.total_share /\ s.total_updated = t.total_updated
      /\ s.last_vote_weight = t.last_vote_weight /\ s.proxied = t.proxied /\ s.total_weight = t.total_weight
  <2> DEFINE A == [t.share EXCEPT ![p] = 0]
             B == [t.updated EXCEPT ![p] = now]
  <2>1. A \in [Producers -> Int] /\ B \in [Producers -> Times \cup {Epoch}]
    BY <1>0, <1>3 DEF Tallies
  <2>2. s = [t EXCEPT !.share = A, !.updated = B]
    BY <1>3 DEF Tallies
  <2> HIDE DEF A, B, s
  <2>3. /\ s \in Tallies /\ s.votes = t.votes /\ s.share = A /\ s.updated = B
        /\ s.rate = t.rate /\ s.total_share = t.total_share /\ s.total_updated = t.total_updated
        /\ s.last_vote_weight = t.last_vote_weight /\ s.proxied = t.proxied /\ s.total_weight = t.total_weight
    BY <1>3, <2>1, <2>2 DEF Tallies
  <2> QED BY <2>3 DEF A, B
<1> HIDE DEF s
<1>5. x = -Shares(t, claimed, rows2, now)[p]
  <2>1. Shares(t, claimed, rows2, now)[p] = share
    BY <1>2 DEF Shares, Accrued, Earns, new_votepay_share, updated_after_threshold
  <2> QED BY <2>1
<1>6. y = t.votes[p] - Rates(t, claimed, rows2)[p]
  <2>1. Rates(t, claimed, rows2)[p] = IF UpdatedAfter(p) THEN 0 ELSE t.votes[p]
    BY <1>2 DEF Rates, Earns, UpdatedAfter, updated_after_threshold
  <2> HIDE DEF UpdatedAfter
  <2> QED BY <1>3, <2>1
<1>7. k = [claimed EXCEPT ![p] = now] /\ r = update_total_votepay_share(s, x, y)
  OBVIOUS
<1>8. x \in Int /\ y \in Int
  <2>1. Shares(t, claimed, rows2, now) \in [Producers -> Nat]
    BY <1>0, <1>2, <1>3, FairTypes DEF FairNow, Fair
  <2> HIDE DEF x
  <2> QED BY <1>3, <1>5, <2>1
<1> HIDE DEF x, y, k, r
<1>9. Fair(r, k, rows2 \cup {p}, now)
  BY <1>0, <1>2, <1>4, <1>5, <1>6, <1>7, ShareRestarts
<1>10. FairNow(tally)'
  BY <1>1, <1>9, NextFair
<1>11. ClaimsMatch'
  <2>1. ASSUME NEW q \in Producers PROVE claimed'[q] = Epoch <=> q \notin rows2'
    <3>1. CASE q = p
      BY <1>0, <1>1, <1>7, <3>1
    <3>2. CASE q # p
      BY <1>0, <1>1, <1>7, <3>2 DEF ClaimsMatch
    <3> QED BY <3>1, <3>2
  <2>2. ClaimsMatch' = \A q \in Producers : claimed'[q] = Epoch <=> q \notin rows2'
    BY DEF ClaimsMatch
  <2> QED BY <2>1, <2>2
<1>12. /\ r \in Tallies /\ r.last_vote_weight = s.last_vote_weight /\ r.proxied = s.proxied
       /\ r.votes = s.votes /\ r.total_weight = s.total_weight
  BY <1>0, <1>4, <1>7, <1>8, ShareUpdate
<1>13. VotesInv'
  <2>1. claimed' \in [Producers -> Times \cup {Epoch}]
    BY <1>0, <1>1, <1>7
  <2>2. VotingTypeOK'
    BY <1>0, <1>1, <1>12, <2>1 DEF VotingTypeOK, voteVars
  <2>3. now <= now' /\ UNCHANGED <<staked, voteVars>> /\ voters \subseteq voters' /\ registered \subseteq registered'
    BY <1>0, <1>1
  <2>4. /\ tally'.last_vote_weight = tally.last_vote_weight /\ tally'.proxied = tally.proxied
        /\ tally'.votes = tally.votes /\ tally'.total_weight = tally.total_weight
    BY <1>1, <1>2, <1>4, <1>12
  <2> QED BY <1>0, <2>2, <2>3, <2>4, RowsInv
<1> QED BY <1>10, <1>11, <1>13 DEF PayInv

(* Initially there are no shares. *)
LEMMA InitFair == VotingInit => PayInv
<1> SUFFICES ASSUME VotingInit PROVE PayInv
  OBVIOUS
<1>0. VotesInv /\ tally \in Tallies
  BY VotesBegin DEF VotesInv, VotingTypeOK
<1>1. /\ tally.votes = [p \in Producers |-> 0] /\ tally.share = [p \in Producers |-> 0]
      /\ tally.updated = [p \in Producers |-> Epoch] /\ tally.rate = 0 /\ tally.total_share = 0
      /\ tally.total_updated = 0 /\ now = 0 /\ rows2 = {} /\ claimed = [p \in Producers |-> Epoch]
  BY DEF VotingInit, InitTally
<1> DEFINE z == [p \in Producers |-> 0]
<1>2. Rates(tally, claimed, rows2) = z /\ Shares(tally, claimed, rows2, now) = z
  BY <1>1 DEF Rates, Shares
<1>3. z \in [Producers -> Int] /\ \A p \in Producers : z[p] = 0
  OBVIOUS
<1> HIDE DEF z
<1>4. SumFunctionOnSet(z, Producers) = 0
  BY <1>3, SumNone
<1>5. Epoch \in Int /\ Epoch <= 0
  BY TimeAssumption DEF Epoch
<1>6. FairNow(tally)
  <2>1. tally.total_share + tally.rate * (now - tally.total_updated) = 0
    BY <1>1
  <2>2. \A p \in Producers : tally.votes[p] >= 0 /\ tally.share[p] >= 0 /\ tally.updated[p] <= now
                             /\ (p \notin rows2 => tally.share[p] = 0)
    BY <1>1, <1>5
  <2>3. tally.total_updated <= now
    BY <1>1
  <2> QED BY <1>0, <1>1, <1>2, <1>4, <2>1, <2>2, <2>3 DEF FairNow, Fair
<1>7. ClaimsMatch
  BY <1>1 DEF ClaimsMatch
<1> QED BY <1>0, <1>6, <1>7 DEF PayInv

(* A step of the clock *)
LEMMA TickFair ==
  ASSUME PayInv, VotingTick
  PROVE  PayInv'
<1>0. /\ VotesInv /\ FairNow(tally) /\ now \in Times /\ now + 1 \in Times /\ now' = now + 1
      /\ claimed \in [Producers -> Times \cup {Epoch}]
      /\ tally' = tally /\ rows2' = rows2 /\ claimed' = claimed
  BY TimeAssumption DEF PayInv, VotesInv, VotingTypeOK, VotingTick, Times, prodVars
<1>1. VotesInv'
  BY <1>0, OtherVotingInv
<1>2. Fair(tally, claimed, rows2, now + 1)
  BY <1>0, SharesTick DEF FairNow
<1>3. FairNow(tally)' = Fair(tally', claimed', rows2', now')
  BY DEF FairNow, Fair, Rates, Shares, Accrued, Earns
<1>4. FairNow(tally)'
  BY <1>0, <1>2, <1>3
<1>5. ClaimsMatch'
  BY <1>0 DEF PayInv, ClaimsMatch
<1> QED BY <1>1, <1>4, <1>5 DEF PayInv

(* The steps of the votes *)
LEMMA VotesKeepFair ==
  ASSUME PayInv, Votes
  PROVE  PayInv'
<1>0. VotesInv /\ FairNow(tally) /\ ClaimsMatch /\ now \in Times /\ staked \in [Accounts -> Nat]
  BY DEF PayInv, VotesInv, VotingTypeOK
<1>1. ASSUME claimed' = claimed, rows2' = rows2
      PROVE  ClaimsMatch'
  BY <1>0, <1>1 DEF ClaimsMatch
<1>2. CASE VotingTick
  BY <1>2, TickFair
<1>3. ASSUME NEW v \in Accounts, NEW px \in Accounts \cup {None}, NEW ps \in SUBSET Producers,
             voteproducer(v, px, ps, 0)
      PROVE  PayInv'
  <2> DEFINE growth == 0
  <2>1. growth \in Int /\ staked[v] + growth \in Nat /\ voteproducer(v, px, ps, growth)
    BY <1>0, <1>3
  <2> HIDE DEF growth
  <2>2. VotesInv' /\ FairNow(tally)'
    BY <1>0, <2>1, VoteInv
  <2>3. claimed' = claimed /\ rows2' = rows2
    BY <1>3 DEF voteproducer, prodVars
  <2> QED BY <1>1, <2>2, <2>3 DEF PayInv
<1>4. ASSUME NEW v \in Accounts, NEW isp \in BOOLEAN, regproxy(v, isp)
      PROVE  PayInv'
  <2>1. VotesInv' /\ FairNow(tally)'
    BY <1>0, <1>4, ProxyStepInv
  <2>2. claimed' = claimed /\ rows2' = rows2
    BY <1>4 DEF regproxy, prodVars
  <2> QED BY <1>1, <2>1, <2>2 DEF PayInv
<1>5. ASSUME NEW p \in Producers, regproducer(p)
      PROVE  PayInv'
  <2>1. VotesInv'
    BY <1>0, <1>5, RegisterInv
  <2>2. FairNow(tally)' /\ ClaimsMatch'
    BY <1>5, RegisterFair
  <2> QED BY <2>1, <2>2 DEF PayInv
<1>6. ASSUME NEW p \in Producers, unregprod(p)
      PROVE  PayInv'
  <2>1. VotesInv'
    BY <1>0, <1>6, OtherVotingInv
  <2>2. claimed' = claimed /\ rows2' = rows2 /\ tally' = tally /\ now' = now
    BY <1>6 DEF unregprod
  <2>3. FairNow(tally)'
    BY <1>0, <2>2, NextFair DEF FairNow
  <2> QED BY <1>1, <2>1, <2>2, <2>3 DEF PayInv
<1>7. ASSUME NEW v \in Accounts, NEW d \in Int, update_voting_power(v, d), UNCHANGED <<now, prodVars>>
      PROVE  PayInv'
  <2>1. VotesInv' /\ FairNow(tally)'
    BY <1>0, <1>7, PowerInv
  <2>2. claimed' = claimed /\ rows2' = rows2
    BY <1>7 DEF prodVars
  <2> QED BY <1>1, <2>1, <2>2 DEF PayInv
<1> QED BY <1>2, <1>3, <1>4, <1>5, <1>6, <1>7 DEF Votes, VotingNext

(* Steps that leave the votes alone *)
LEMMA SameVotes ==
  ASSUME PayInv, UNCHANGED votingVars
  PROVE  PayInv'
<1>0. VotesInv /\ FairNow(tally) /\ ClaimsMatch
  BY DEF PayInv
<1>1. claimed' = claimed /\ rows2' = rows2 /\ tally' = tally /\ now' = now
  BY DEF votingVars, prodVars
<1>2. VotesInv'
  BY <1>0, OtherVotingInv
<1>3. FairNow(tally)'
  BY <1>0, <1>1, NextFair DEF FairNow
<1>4. ClaimsMatch'
  BY <1>0, <1>1 DEF ClaimsMatch
<1> QED BY <1>2, <1>3, <1>4 DEF PayInv

(* Every step keeps the shares in step. *)
LEMMA NextFairly ==
  ASSUME PayInv, [PayNext \/ (Votes /\ UNCHANGED payVars)]_vars
  PROVE  PayInv'
<1>1. ASSUME NEW b \in Producers, NEW accepted \in BOOLEAN, onblock(b, accepted)
      PROVE  PayInv'
  BY <1>1, SameVotes DEF onblock
<1>2. ASSUME NEW p \in Producers, claimrewards(p)
      PROVE  PayInv'
  BY <1>2, ClaimFair
<1>3. CASE updtrevision
  BY <1>3, SameVotes DEF updtrevision
<1>4. CASE Votes
  BY <1>4, VotesKeepFair
<1>5. CASE UNCHANGED vars
  BY <1>5, SameVotes DEF vars
<1> QED BY <1>1, <1>2, <1>3, <1>4, <1>5 DEF PayNext

(* The shares of a fair tally add up. *)
LEMMA FairAddsUp ==
  ASSUME PayInv
  PROVE  SharesAddUp
<1>0. /\ tally \in Tallies /\ now \in Times /\ rows2 \in SUBSET Producers
      /\ claimed \in [Producers -> Times \cup {Epoch}]
      /\ \A p \in Producers : tally.votes[p] >= 0 /\ tally.share[p] >= 0
  BY DEF PayInv, VotesInv, VotingTypeOK, FairNow, Fair
<1> DEFINE f == Rates(tally, claimed, rows2)
           g == Shares(tally, claimed, rows2, now)
           h == [p \in Producers |-> new_votepay_share(tally, p)]
<1>1. f \in [Producers -> Int] /\ g \in [Producers -> Int]
  BY <1>0, FairTypes
<1>2. /\ tally.rate = SumFunctionOnSet(f, Producers)
      /\ tally.total_share + tally.rate * (now - tally.total_updated) = SumFunctionOnSet(g, Producers)
  BY DEF PayInv, FairNow, Fair
<1>3. /\ \A p \in Producers \ Earning : f[p] = 0
      /\ \A p \in Earning : f[p] = tally.votes[p]
      /\ Earning \in SUBSET Producers
  BY <1>0 DEF Rates, Earning, Earns, updated_after_threshold
<1>4. /\ \A p \in Producers \ rows2 : g[p] = 0
      /\ \A p \in rows2 : g[p] = h[p]
  BY <1>0 DEF Shares, Accrued, Earns, new_votepay_share, updated_after_threshold
<1>5. tally.votes \in [Producers -> Int]
  BY <1>0 DEF Tallies
<1>6. h \in [Producers -> Int]
  <2>1. \A p \in Producers : new_votepay_share(tally, p) \in Int
    <3> SUFFICES ASSUME NEW p \in Producers PROVE new_votepay_share(tally, p) \in Int
      OBVIOUS
    <3>1. now \in Int /\ tally.votes[p] \in Int /\ tally.share[p] \in Int /\ tally.updated[p] \in Int
      BY <1>0, TimeAssumption DEF Tallies, Times, Epoch
    <3>2. tally.votes[p] * (now - tally.updated[p]) \in Int
      BY <3>1
    <3> QED BY <3>1, <3>2 DEF new_votepay_share
  <2> QED BY <2>1
<1> HIDE DEF f, g, h
<1>7. IsFiniteSet(Producers) /\ IsFiniteSet(rows2) /\ IsFiniteSet(Earning)
  BY <1>0, <1>3, VotingSetsAssumption, FS_Subset
<1>8. SumFunctionOnSet(f, Producers) = SumFunctionOnSet(f, Earning)
  BY <1>1, <1>3, <1>7, SumZeros
<1>9. SumFunctionOnSet(f, Earning) = SumFunctionOnSet(tally.votes, Earning)
  <2>1. Earning \subseteq Producers
    BY <1>3
  <2> QED BY ONLY <1>1, <1>3, <1>5, <1>7, <2>1, SumSame
<1>10. SumFunctionOnSet(g, Producers) = SumFunctionOnSet(g, rows2)
  BY <1>0, <1>1, <1>4, <1>7, SumZeros
<1>11. SumFunctionOnSet(g, rows2) = SumFunctionOnSet(h, rows2)
  <2>1. rows2 \subseteq Producers
    BY <1>0
  <2> QED BY ONLY <1>0, <1>1, <1>4, <1>6, <1>7, <2>1, SumSame
<1> QED BY <1>2, <1>8, <1>9, <1>10, <1>11 DEF SharesAddUp, h

(* The global vote-pay share that claimrewards divides by is the sum of the
   producers' shares at every moment, and its rate the sum of the votes of those
   that earn: whatever order votes, claims, registrations and lapses come in. *)
THEOREM SharesStayInStep == PaySpec => []SharesAddUp
<1>1. Init => PayInv
  BY InitFair DEF Init
<1>2. PayInv /\ [PayNext \/ (Votes /\ UNCHANGED payVars)]_vars => PayInv'
  BY NextFairly
<1>3. PayInv => SharesAddUp
  BY FairAddsUp
<1> QED BY <1>1, <1>2, <1>3, PTL DEF PaySpec

-----------------------------------------------------------------------------
(* Buckets *)

PayTypes ==
  /\ liquid \in [Holders -> Nat] /\ supply \in Nat
  /\ unpaid \in [Producers -> Nat] /\ total_unpaid \in Nat
  /\ pervote \in Nat /\ perblock \in Nat
  /\ filled \in Times \cup {None} /\ revision \in Nat

BucketsInv == PayTypes /\ BucketsAreBacked

(* One entry of a table changes by d, and so does the sum. *)
LEMMA EntryAdded ==
  ASSUME NEW D, IsFiniteSet(D), NEW f \in [D -> Int], NEW a \in D, NEW d \in Int, NEW g \in [D -> Int],
         g[a] = f[a] + d, \A x \in D \ {a} : g[x] = f[x]
  PROVE  SumFunction(g) = SumFunction(f) + d /\ SumFunction(f) \in Int
<1>1. D \in SUBSET D /\ D \subseteq D /\ DOMAIN f = D /\ DOMAIN g = D
  OBVIOUS
<1>2. SumFunctionOnSet(g, D) = SumFunctionOnSet(f, D) - f[a] + g[a]
  BY <1>1, SumDiffer
<1>3. SumFunctionOnSet(f, D) \in Int
  BY <1>1, SumType
<1>4. SumFunctionOnSet(g, D) = SumFunctionOnSet(f, D) + d
  BY <1>2, <1>3
<1> QED BY <1>1, <1>3, <1>4 DEF SumFunction

(* A transfer keeps the sum. *)
LEMMA TransferKeeps ==
  ASSUME NEW D, IsFiniteSet(D), NEW f \in [D -> Int], NEW from \in D, NEW to \in D, from # to,
         NEW d \in Int
  PROVE  /\ moved(f, from, to, d) \in [D -> Int] /\ moved(f, from, to, d)[from] = f[from] - d
         /\ moved(f, from, to, d)[to] = f[to] + d
         /\ \A x \in D \ {from, to} : moved(f, from, to, d)[x] = f[x]
         /\ SumFunction(moved(f, from, to, d)) = SumFunction(f)
<1> DEFINE g == moved(f, from, to, d)
           h == sub_balance(f, from, d)
           e == 0 - d
<1>1. h \in [D -> Int] /\ h[from] = f[from] - d /\ \A x \in D \ {from} : h[x] = f[x]
  BY DEF sub_balance
<1>2. g = [h EXCEPT ![to] = h[to] + d]
  BY DEF moved, add_balance
<1> HIDE DEF g, h
<1>3. g \in [D -> Int] /\ g[to] = h[to] + d /\ \A x \in D \ {to} : g[x] = h[x]
  BY <1>1, <1>2
<1>4. e \in Int /\ h[from] = f[from] + e
  BY <1>1
<1>5. SumFunction(h) = SumFunction(f) + e /\ SumFunction(f) \in Int
  <2> HIDE DEF e
  <2> QED BY <1>1, <1>4, EntryAdded
<1>6. SumFunction(g) = SumFunction(h) + d
  BY <1>1, <1>3, EntryAdded
<1>7. SumFunction(g) = SumFunction(f)
  BY <1>5, <1>6
<1>8. /\ g \in [D -> Int] /\ g[from] = f[from] - d /\ g[to] = f[to] + d
      /\ \A x \in D \ {from, to} : g[x] = f[x]
      /\ SumFunction(g) = SumFunction(f)
  BY <1>1, <1>3, <1>7
<1> QED BY <1>8 DEF g

(* No entry of a table is more than the sum of all. *)
LEMMA EntryLess ==
  ASSUME NEW f \in [Producers -> Nat], NEW p \in Producers
  PROVE  f[p] <= SumFunction(f)
BY SumCovers, VotingSetsAssumption DEF SumFunction

(* u of T parts of b are at most b. *)
LEMMA PartCovered ==
  ASSUME NEW b \in Nat, NEW u \in Nat, NEW T \in Nat \ {0}, u <= T
  PROVE  (b * u) \div T \in 0 .. b /\ (u * b) \div T \in 0 .. b
<1>1. (u * b) \div T \in 0 .. b
  <2> DEFINE q == (u * b) \div T
  <2>1. q \in Nat /\ q <= b
    BY PartOf
  <2> HIDE DEF q
  <2>2. q \in 0 .. b
    BY <2>1
  <2> QED BY <2>2 DEF q
<1>2. b * u = u * b
  OBVIOUS
<1> QED BY <1>1, <1>2

(* A quotient is no more than what is divided. *)
LEMMA QuotientLess ==
  ASSUME NEW a \in Nat, NEW d \in Nat \ {0}
  PROVE  a \div d \in Nat /\ a \div d <= a
<1>1. a \div d \in Nat /\ (a \div d) * d <= a
  BY DivNat, DivBounds
<1> DEFINE q == a \div d
<1> HIDE DEF q
<1>2. q * 1 <= q * d
  BY <1>1 DEF q
<1> QED BY <1>1, <1>2 DEF q

(* The accounts that pay are three, and no producers. *)
LEMMA HoldersAre ==
  /\ IsFiniteSet(Holders) /\ BPay \in Holders /\ VPay \in Holders /\ Saving \in Holders
  /\ BPay # VPay /\ Saving # BPay /\ Saving # VPay /\ Producers \subseteq Holders
  /\ \A p \in Producers : p # BPay /\ p # VPay
<1>1. IsFiniteSet({BPay, VPay, Saving})
  <2>1. IsFiniteSet({BPay}) /\ IsFiniteSet({VPay}) /\ IsFiniteSet({Saving})
    BY FS_Singleton
  <2>2. IsFiniteSet({BPay} \cup {VPay})
    BY <2>1, FS_Union
  <2>3. IsFiniteSet(({BPay} \cup {VPay}) \cup {Saving})
    BY <2>1, <2>2, FS_Union
  <2>4. {BPay, VPay, Saving} = ({BPay} \cup {VPay}) \cup {Saving}
    OBVIOUS
  <2> QED BY <2>3, <2>4
<1>2. IsFiniteSet(Holders)
  BY <1>1, VotingSetsAssumption, FS_Union DEF Holders
<1> QED BY <1>2, PayAssumption DEF Holders

(* The new tokens are split without a rest, into parts that are not negative. *)
LEMMA NewTokensSplit ==
  ASSUME PayTypes, now \in Times
  PROVE  /\ {NewTokens.all, NewTokens.savings, NewTokens.perblock, NewTokens.pervote} \subseteq Nat
         /\ NewTokens.all = (NewTokens.savings + NewTokens.perblock) + NewTokens.pervote
<1> DEFINE new == IF filled # None /\ now > filled
                  THEN (supply * (now - filled)) \div InflationParts ELSE 0
           producers == new \div PayFactor
           b == producers \div VotepayFactor
<1>0. InflationParts \in Nat \ {0} /\ PayFactor \in Nat \ {0} /\ VotepayFactor \in Nat \ {0}
  BY PayAssumption
<1>1. new \in Nat
  <2>1. CASE filled # None /\ now > filled
    <3>1. now - filled \in Nat /\ supply \in Nat
      BY <2>1, TimeAssumption DEF PayTypes, Times
    <3>2. supply * (now - filled) \in Nat
      BY <3>1
    <3> DEFINE x == supply * (now - filled)
    <3> HIDE DEF x
    <3>3. x \div InflationParts \in Nat
      BY <1>0, <3>2, DivNat DEF x
    <3> QED BY <2>1, <3>3 DEF x
  <2>2. CASE ~(filled # None /\ now > filled)
    BY <2>2
  <2> QED BY <2>1, <2>2
<1>2. NewTokens = [all |-> new, savings |-> new - producers, perblock |-> b, pervote |-> producers - b]
  BY DEF NewTokens
<1> HIDE DEF new
<1>3. producers \in Nat /\ producers <= new
  BY <1>0, <1>1, QuotientLess
<1> HIDE DEF producers
<1>4. b \in Nat /\ b <= producers
  BY <1>0, <1>3, QuotientLess
<1> HIDE DEF b
<1> QED BY <1>1, <1>2, <1>3, <1>4

(* Block pay is a part of its bucket: no producer has more unpaid blocks than
   there are. *)
LEMMA BlockPayCovered ==
  ASSUME PayTypes, BucketsAreBacked, NEW p \in Producers, NEW bucket \in Nat
  PROVE  BlockPay(p, bucket) \in 0 .. bucket
<1>1. unpaid \in [Producers -> Nat] /\ unpaid[p] \in Nat /\ total_unpaid \in Nat
  BY DEF PayTypes
<1>2. unpaid[p] <= total_unpaid
  BY <1>1, EntryLess DEF BucketsAreBacked
<1>3. CASE total_unpaid > 0
  <2>1. (bucket * unpaid[p]) \div total_unpaid \in 0 .. bucket
    BY <1>1, <1>2, <1>3, PartCovered
  <2> QED BY <1>3, <2>1 DEF BlockPay
<1>4. CASE ~(total_unpaid > 0)
  BY <1>4 DEF BlockPay
<1> QED BY <1>3, <1>4

(* So is the pay for votes: its share is cut down to the bucket, and before that
   no producer has more votes than there are. *)
LEMMA VotePayCovered ==
  ASSUME PayInv, PayTypes, NEW p \in Producers, NEW bucket \in Nat
  PROVE  VotePay(ClaimTally, p, ClaimShare(p), bucket) \in 0 .. bucket
<1> DEFINE t == ClaimTally
           share == ClaimShare(p)
<1>0. /\ FairNow(tally) /\ VotingTypeOK /\ tally \in Tallies /\ now \in Times /\ MinDailyPay \in Nat
      /\ revision \in Nat
  BY PayAssumption DEF PayInv, VotesInv, VotingTypeOK, PayTypes
<1>1. FairNow(t) /\ t.votes = tally.votes
  <2> DEFINE u == update_total_votepay_share(tally, 0, 0)
  <2>1. u = update_total_votepay_share(tally, 0, 0)
    OBVIOUS
  <2>2. t = IF revision > 0 THEN u ELSE tally
    BY DEF ClaimTally
  <2> HIDE DEF u, t
  <2>3. FairNow(u) /\ u.votes = tally.votes
    BY <1>0, <2>1, TotalsUpdated
  <2> QED BY <1>0, <2>2, <2>3
<1>2. revision = 0 => t.total_weight = SumFunction(t.votes)
  <2>1. tally.total_weight = SumFunction(tally.votes)
    BY InvParts DEF PayInv, AddsUp
  <2> QED BY <2>1 DEF ClaimTally
<1> HIDE DEF t
<1>3. /\ t \in Tallies /\ t.total_share \in Int /\ t.total_weight \in Int
      /\ t.votes \in [Producers -> Nat] /\ t.votes[p] \in Nat
  BY <1>1 DEF FairNow, Fair, Tallies
<1>4. share \in Nat
  <2>1. tally.share[p] \in Nat /\ tally.votes[p] \in Int /\ now \in Int /\ tally.updated[p] \in Int
    BY <1>0, TimeAssumption DEF FairNow, Fair, Tallies, Times, Epoch
  <2>2. ASSUME tally.votes[p] > 0, now > tally.updated[p]
        PROVE  tally.votes[p] * (now - tally.updated[p]) \in Nat
    <3>1. tally.votes[p] \in Nat /\ now - tally.updated[p] \in Nat
      BY <2>1, <2>2
    <3> QED BY <3>1
  <2>3. new_votepay_share(tally, p) \in Nat
    BY <2>1, <2>2 DEF new_votepay_share
  <2> QED BY <2>3 DEF ClaimShare
<1> HIDE DEF share
<1> DEFINE A == revision > 0 /\ t.total_share > 0 /\ ~crossed_threshold(p)
           B == revision = 0 /\ t.total_weight > 0
           x == (share * bucket) \div t.total_share
           y == (bucket * t.votes[p]) \div t.total_weight
           pay == CASE A -> IF share > t.total_share THEN bucket ELSE x
                    [] B -> y
                    [] OTHER -> 0
<1>5. VotePay(t, p, share, bucket) = IF pay < MinDailyPay THEN 0 ELSE pay
  BY DEF VotePay
<1>6. ASSUME A, ~(share > t.total_share) PROVE x \in 0 .. bucket
  <2>1. t.total_share \in Nat \ {0} /\ share <= t.total_share
    BY <1>3, <1>4, <1>6
  <2> HIDE DEF x
  <2>2. (share * bucket) \div t.total_share \in 0 .. bucket
    BY <1>4, <2>1, PartCovered
  <2> QED BY <2>2 DEF x
<1>7. ASSUME B PROVE y \in 0 .. bucket
  <2>1. t.total_weight = SumFunction(t.votes) /\ t.total_weight \in Nat \ {0}
    BY <1>2, <1>3, <1>7
  <2>2. t.votes[p] <= t.total_weight
    BY <1>3, <2>1, EntryLess, VotingSetsAssumption
  <2> QED BY <1>3, <2>1, <2>2, PartCovered
<1> HIDE DEF x, y
<1>8. pay \in 0 .. bucket
  <2>1. ~(A /\ B)
    BY <1>0
  <2>2. CASE A
    <3>1. pay = IF share > t.total_share THEN bucket ELSE x
      BY <2>1, <2>2
    <3> QED BY <1>6, <2>2, <3>1
  <2>3. CASE B
    <3>1. pay = y
      BY <2>1, <2>3
    <3> QED BY <1>7, <2>3, <3>1
  <2>4. CASE ~A /\ ~B
    <3>1. pay = 0
      BY <2>4
    <3> QED BY <3>1
  <2> QED BY <2>2, <2>3, <2>4
<1> HIDE DEF pay
<1> QED BY <1>5, <1>8 DEF t, share

(* Before the first claim nothing was issued. *)
LEMMA InitBacked == Init => BucketsInv
<1> SUFFICES ASSUME Init PROVE BucketsInv
  OBVIOUS
<1>1. /\ liquid = [h \in Holders |-> 0] /\ supply = FirstSupply /\ FirstSupply \in Nat
      /\ unpaid = [p \in Producers |-> 0] /\ total_unpaid = 0 /\ pervote = 0 /\ perblock = 0
      /\ filled = None /\ revision = 0
  BY PayAssumption DEF Init
<1>2. PayTypes
  BY <1>1 DEF PayTypes
<1>3. ASSUME NEW D, IsFiniteSet(D), NEW f, f = [x \in D |-> 0]
      PROVE  SumFunction(f) = 0
  <2>1. f \in [D -> Int] /\ {} \in SUBSET D /\ DOMAIN f = D /\ \A x \in D \ {} : f[x] = 0
    BY <1>3
  <2>2. SumFunctionOnSet(f, D) = SumFunctionOnSet(f, {})
    BY <1>3, <2>1, SumZeros
  <2>3. SumFunctionOnSet(f, {}) = 0
    BY <2>1, SumEmpty
  <2> QED BY <2>1, <2>2, <2>3 DEF SumFunction
<1>4. SumFunction(liquid) = 0 /\ SumFunction(unpaid) = 0
  BY <1>1, <1>3, HoldersAre, VotingSetsAssumption
<1>5. liquid[VPay] = 0 /\ liquid[BPay] = 0
  BY <1>1, HoldersAre
<1> QED BY <1>1, <1>2, <1>4, <1>5 DEF BucketsInv, BucketsAreBacked

(* onblock: one more block of b to be paid for. *)
LEMMA BlockBacked ==
  ASSUME PayInv, BucketsInv, NEW b \in Producers, NEW accepted \in BOOLEAN, onblock(b, accepted)
  PROVE  BucketsInv'
<1>0. /\ PayTypes /\ BucketsAreBacked /\ now \in Times /\ unpaid \in [Producers -> Nat] /\ total_unpaid \in Nat
      /\ total_unpaid = SumFunction(unpaid) /\ IsFiniteSet(Producers)
  BY VotingSetsAssumption DEF BucketsInv, PayInv, VotesInv, VotingTypeOK, PayTypes, BucketsAreBacked
<1>1. UNCHANGED <<pervote, perblock, liquid, supply, revision>> /\ filled' \in Times \cup {None}
  BY <1>0 DEF onblock, PayTypes
<1>2. unpaid' \in [Producers -> Nat] /\ total_unpaid' \in Nat /\ total_unpaid' = SumFunction(unpaid')
  <2>1. CASE b \in registered
    <3> DEFINE one == 1
               g == unpaid'
    <3>1. total_unpaid' = total_unpaid + one /\ unpaid' = [unpaid EXCEPT ![b] = unpaid[b] + one] /\ one \in Nat
      BY <2>1 DEF onblock
    <3> HIDE DEF one
    <3>2. g \in [Producers -> Nat] /\ g[b] = unpaid[b] + one /\ \A x \in Producers \ {b} : g[x] = unpaid[x]
      BY <1>0, <3>1
    <3> HIDE DEF g
    <3>3. one \in Int /\ IsFiniteSet(Producers) /\ unpaid \in [Producers -> Int] /\ g \in [Producers -> Int]
      <4>1. one \in Int /\ IsFiniteSet(Producers)
        BY <1>0, <3>1
      <4>2. unpaid \in [Producers -> Int]
        BY <1>0
      <4>3. g \in [Producers -> Int]
        BY ONLY <3>2
      <4> QED BY <4>1, <4>2, <4>3
    <3>4. SumFunction(g) = SumFunction(unpaid) + one
      BY ONLY <3>2, <3>3, b \in Producers, EntryAdded
    <3>5. total_unpaid' = SumFunction(g) /\ total_unpaid' \in Nat
      <4>1. total_unpaid \in Nat /\ one \in Nat /\ total_unpaid' = total_unpaid + one
        BY <1>0, <3>1
      <4>2. total_unpaid' = SumFunction(unpaid) + one
        BY <1>0, <4>1
      <4> QED BY <3>4, <4>1, <4>2
    <3> QED BY <3>2, <3>5 DEF g
  <2>2. CASE b \notin registered
    BY <1>0, <2>2 DEF onblock
  <2> QED BY <2>1, <2>2
<1> QED BY <1>0, <1>1, <1>2 DEF BucketsInv, PayTypes, BucketsAreBacked

(* claimrewards: the new tokens and the pay go through the accounts as through
   the buckets, and the blocks of p are paid for. *)
LEMMA ClaimBacked ==
  ASSUME PayInv, BucketsInv, NEW p \in Producers, claimrewards(p)
  PROVE  BucketsInv'
<1>0. /\ PayTypes /\ VotingTypeOK /\ FairNow(tally) /\ tally \in Tallies /\ now \in Times
      /\ claimed \in [Producers -> Times \cup {Epoch}]
      /\ liquid[VPay] = pervote /\ liquid[BPay] = perblock /\ total_unpaid = SumFunction(unpaid)
      /\ SumFunction(liquid) = supply - FirstSupply
  BY DEF BucketsInv, PayInv, VotesInv, VotingTypeOK, BucketsAreBacked
<1>1. /\ liquid \in [Holders -> Nat] /\ supply \in Nat /\ pervote \in Nat /\ perblock \in Nat
      /\ filled \in Times \cup {None} /\ revision \in Nat /\ FirstSupply \in Int
      /\ unpaid \in [Producers -> Nat] /\ total_unpaid \in Nat
  BY <1>0, PayAssumption DEF PayTypes
<1> DEFINE all == NewTokens.all
           sv == NewTokens.savings
           nb == NewTokens.perblock
           nv == NewTokens.pervote
           bpay == BlockPay(p, perblock + nb)
           vpay == VotePay(ClaimTally, p, ClaimShare(p), pervote + nv)
           f1 == [liquid EXCEPT ![Saving] = @ + sv]
           f2 == [f1 EXCEPT ![BPay] = @ + nb]
           f3 == [f2 EXCEPT ![VPay] = @ + nv]
           f4 == moved(f3, BPay, p, bpay)
<1>2. {all, sv, nb, nv} \subseteq Nat /\ all = (sv + nb) + nv
  BY <1>0, NewTokensSplit
<1>3. /\ filled' = (IF filled = None THEN None ELSE now) /\ supply' = supply + all
      /\ pervote' = pervote + (nv - vpay) /\ perblock' = perblock + (nb - bpay)
      /\ liquid' = moved(moved(Filled(NewTokens), BPay, p, bpay), VPay, p, vpay)
      /\ total_unpaid' = total_unpaid - unpaid[p] /\ unpaid' = [unpaid EXCEPT ![p] = 0] /\ revision' = revision
  BY DEF claimrewards, UnpaidWithout, ClaimShare, ClaimTally
<1>4. perblock + nb \in Nat /\ pervote + nv \in Nat
  BY <1>1, <1>2
<1>5. bpay \in 0 .. perblock + nb
  <2> DEFINE x == perblock + nb
  <2> HIDE DEF x
  <2>1. BlockPay(p, x) \in 0 .. x
    BY <1>4, BlockPayCovered DEF x, BucketsInv
  <2> QED BY <2>1 DEF x
<1>6. vpay \in 0 .. pervote + nv
  <2> DEFINE x == pervote + nv
  <2> HIDE DEF x
  <2>1. VotePay(ClaimTally, p, ClaimShare(p), x) \in 0 .. x
    BY <1>4, VotePayCovered DEF x, BucketsInv
  <2> QED BY <2>1 DEF x
<1>7. Filled(NewTokens) = f3
  BY <1>1, HoldersAre DEF Filled
<1> HIDE DEF all, sv, nb, nv, bpay, vpay
<1>8. /\ f1 \in [Holders -> Nat] /\ f1[Saving] = liquid[Saving] + sv
      /\ \A x \in Holders \ {Saving} : f1[x] = liquid[x]
  BY <1>1, <1>2, HoldersAre
<1> HIDE DEF f1
<1>9. f2 \in [Holders -> Nat] /\ f2[BPay] = f1[BPay] + nb /\ \A x \in Holders \ {BPay} : f2[x] = f1[x]
  BY <1>2, <1>8, HoldersAre
<1> HIDE DEF f2
<1>10. f3 \in [Holders -> Nat] /\ f3[VPay] = f2[VPay] + nv /\ \A x \in Holders \ {VPay} : f3[x] = f2[x]
  BY <1>2, <1>9, HoldersAre
<1> HIDE DEF f3
<1>11. SumFunction(f3) = SumFunction(liquid) + all /\ SumFunction(liquid) \in Int
  <2>1. SumFunction(f1) = SumFunction(liquid) + sv /\ SumFunction(liquid) \in Int
    BY <1>1, <1>2, <1>8, HoldersAre, EntryAdded
  <2>2. SumFunction(f2) = SumFunction(f1) + nb
    BY <1>2, <1>8, <1>9, HoldersAre, EntryAdded
  <2>3. SumFunction(f3) = SumFunction(f2) + nv
    BY <1>2, <1>9, <1>10, HoldersAre, EntryAdded
  <2> QED BY <1>2, <2>1, <2>2, <2>3
<1>12. p \in Holders /\ p # BPay /\ p # VPay
  BY HoldersAre
<1>13. /\ f4 \in [Holders -> Int] /\ f4[BPay] = f3[BPay] - bpay /\ f4[p] = f3[p] + bpay
       /\ \A x \in Holders \ {BPay, p} : f4[x] = f3[x]
       /\ SumFunction(f4) = SumFunction(f3)
  <2>1. f3 \in [Holders -> Int] /\ bpay \in Int /\ p \in Holders /\ BPay \in Holders /\ BPay # p
        /\ IsFiniteSet(Holders)
    BY <1>1, <1>2, <1>5, <1>10, <1>12, HoldersAre
  <2> QED BY ONLY <2>1, TransferKeeps, SMTT(30) DEF f4
<1>14. liquid' = moved(f4, VPay, p, vpay)
  BY <1>3, <1>7
<1> HIDE DEF f4
<1>15. /\ liquid' \in [Holders -> Int] /\ liquid'[VPay] = f4[VPay] - vpay /\ liquid'[p] = f4[p] + vpay
       /\ \A x \in Holders \ {VPay, p} : liquid'[x] = f4[x]
       /\ SumFunction(liquid') = SumFunction(f4)
  <2>1. f4 \in [Holders -> Int] /\ vpay \in Int /\ p \in Holders /\ VPay \in Holders /\ VPay # p
        /\ IsFiniteSet(Holders)
    BY <1>1, <1>2, <1>6, <1>12, <1>13, HoldersAre
  <2> DEFINE g == moved(f4, VPay, p, vpay)
  <2>2. /\ g \in [Holders -> Int] /\ g[VPay] = f4[VPay] - vpay /\ g[p] = f4[p] + vpay
        /\ \A x \in Holders \ {VPay, p} : g[x] = f4[x]
        /\ SumFunction(g) = SumFunction(f4)
    BY ONLY <2>1, TransferKeeps, SMTT(30)
  <2> QED BY <1>14, <2>2
<1>16. liquid'[BPay] = perblock' /\ liquid'[VPay] = pervote'
  <2>1. /\ liquid'[BPay] = f4[BPay] /\ f3[BPay] = f2[BPay] /\ f1[BPay] = liquid[BPay]
        /\ f4[VPay] = f3[VPay] /\ f2[VPay] = f1[VPay] /\ f1[VPay] = liquid[VPay]
    BY <1>8, <1>9, <1>10, <1>12, <1>13, <1>15, HoldersAre
  <2>2. liquid'[BPay] = (perblock + nb) - bpay
    BY <1>0, <1>9, <1>13, <2>1
  <2>3. liquid'[VPay] = (pervote + nv) - vpay
    BY <1>0, <1>10, <1>15, <2>1
  <2>4. pervote' = (pervote + nv) - vpay /\ perblock' = (perblock + nb) - bpay
    BY <1>1, <1>2, <1>3, <1>5, <1>6
  <2> QED BY ONLY <2>2, <2>3, <2>4
<1>17. SumFunction(liquid') = supply' - FirstSupply
  BY <1>0, <1>1, <1>2, <1>3, <1>11, <1>13, <1>15
<1>18. unpaid' \in [Producers -> Nat] /\ total_unpaid' = SumFunction(unpaid') /\ total_unpaid' \in Nat
  <2> DEFINE g == unpaid'
             d == 0 - unpaid[p]
  <2>1. /\ g \in [Producers -> Nat] /\ g[p] = unpaid[p] + d /\ d \in Int
        /\ \A x \in Producers \ {p} : g[x] = unpaid[x]
    BY <1>1, <1>3
  <2>2. total_unpaid' = total_unpaid + d
    BY <1>1, <1>3
  <2>3. unpaid[p] <= total_unpaid
    BY <1>0, <1>1, EntryLess
  <2>4. total_unpaid' \in Nat
    BY <1>1, <1>3, <2>3
  <2> HIDE DEF g, d
  <2>5. unpaid \in [Producers -> Int] /\ g \in [Producers -> Int]
    BY <1>1, <2>1
  <2>6. SumFunction(g) = SumFunction(unpaid) + d
    BY <2>1, <2>5, VotingSetsAssumption, EntryAdded
  <2> QED BY <1>0, <2>1, <2>2, <2>4, <2>6 DEF g
<1>19. PayTypes'
  <2>1. pervote' \in Nat /\ perblock' \in Nat /\ supply' \in Nat
    BY <1>1, <1>2, <1>3, <1>5, <1>6
  <2>2. filled' \in Times \cup {None} /\ revision' \in Nat
    BY <1>0, <1>1, <1>3
  <2>3. ASSUME NEW x \in Holders PROVE liquid'[x] \in Nat
    <3>1. CASE x = p
      <4>1. liquid'[p] = (f3[p] + bpay) + vpay /\ f3[p] \in Nat
        BY <1>10, <1>12, <1>13, <1>15
      <4>2. bpay \in Nat /\ vpay \in Nat
        BY <1>4, <1>5, <1>6
      <4> QED BY <3>1, <4>1, <4>2
    <3>2. CASE x \in {BPay, VPay}
      BY <1>16, <2>1, <3>2
    <3>3. CASE x \notin {p, BPay, VPay}
      <4>1. liquid'[x] = f3[x]
        BY <1>13, <1>15, <3>3
      <4> QED BY <1>10, <4>1
    <3> QED BY <3>1, <3>2, <3>3
  <2>4. liquid' \in [Holders -> Nat]
    BY <1>15, <2>3
  <2> QED BY <1>18, <2>1, <2>2, <2>4 DEF PayTypes
<1> QED BY <1>16, <1>17, <1>18, <1>19 DEF BucketsInv, BucketsAreBacked

(* Every step keeps the buckets backed. *)
LEMMA NextBacked ==
  ASSUME PayInv, BucketsInv, [PayNext \/ (Votes /\ UNCHANGED payVars)]_vars
  PROVE  BucketsInv'
<1>1. ASSUME NEW b \in Producers, NEW accepted \in BOOLEAN, onblock(b, accepted)
      PROVE  BucketsInv'
  BY <1>1, BlockBacked
<1>2. ASSUME NEW p \in Producers, claimrewards(p)
      PROVE  BucketsInv'
  BY <1>2, ClaimBacked
<1>3. CASE updtrevision
  BY <1>3 DEF updtrevision, buckets, blocks, BucketsInv, PayTypes, BucketsAreBacked
<1>4. CASE UNCHANGED payVars
  BY <1>4 DEF payVars, buckets, blocks, BucketsInv, PayTypes, BucketsAreBacked
<1>5. CASE UNCHANGED vars
  BY <1>4, <1>5 DEF vars
<1> QED BY <1>1, <1>2, <1>3, <1>4, <1>5 DEF PayNext

(* Both invariants hold. *)
THEOREM PayInvariant == PaySpec => [](PayInv /\ BucketsInv)
<1>1. Init => PayInv /\ BucketsInv
  BY InitFair, InitBacked DEF Init
<1>2. PayInv /\ BucketsInv /\ [PayNext \/ (Votes /\ UNCHANGED payVars)]_vars => PayInv' /\ BucketsInv'
  BY NextFairly, NextBacked
<1> QED BY <1>1, <1>2, PTL DEF PaySpec

(* The two buckets are what eosio.vpay and eosio.bpay hold, the blocks that block
   pay is divided by are the unpaid blocks of all producers, and all that was
   issued is still there, in the buckets, in savings or with producers. *)
THEOREM BucketsStayBacked == PaySpec => []BucketsAreBacked
<1>1. PayInv /\ BucketsInv => BucketsAreBacked
  BY DEF BucketsInv
<1> QED BY <1>1, PayInvariant, PTL

(* Whoever claims, the pay is covered: neither kind is negative or more than its
   bucket holds with the new tokens in it, so that no transfer out of a bucket
   fails and no claim takes what it has to leave to the others. *)
ClaimsAreCovered ==
  \A p \in Producers :
    LET blocks_bucket == perblock + NewTokens.perblock
        votes_bucket  == pervote + NewTokens.pervote
    IN  /\ BlockPay(p, blocks_bucket) \in 0 .. blocks_bucket
        /\ VotePay(ClaimTally, p, ClaimShare(p), votes_bucket) \in 0 .. votes_bucket

(* Whoever claims is paid out of the buckets: neither kind of pay is negative or
   more than its bucket holds, so that claimrewards never fails for want of
   tokens (producer_pay.cpp). *)
THEOREM ClaimsStayCovered == PaySpec => []ClaimsAreCovered
<1>1. ASSUME PayInv, BucketsInv, NEW p \in Producers, NEW x, NEW y,
             x = perblock + NewTokens.perblock, y = pervote + NewTokens.pervote
      PROVE  /\ BlockPay(p, x) \in 0 .. x
             /\ VotePay(ClaimTally, p, ClaimShare(p), y) \in 0 .. y
  <2>1. PayTypes /\ BucketsAreBacked /\ now \in Times
    BY <1>1 DEF BucketsInv, PayInv, VotesInv, VotingTypeOK
  <2>2. NewTokens.perblock \in Nat /\ NewTokens.pervote \in Nat /\ perblock \in Nat /\ pervote \in Nat
    BY <2>1, NewTokensSplit DEF PayTypes
  <2>3. x \in Nat /\ y \in Nat
    BY <1>1, <2>2
  <2> QED BY <1>1, <2>1, <2>3, BlockPayCovered, VotePayCovered
<1>2. PayInv /\ BucketsInv => ClaimsAreCovered
  BY <1>1 DEF ClaimsAreCovered
<1> QED BY <1>2, PayInvariant, PTL

-----------------------------------------------------------------------------
(* The schedule *)

(* The active producers with votes *)
Candidates == {p \in active : tally.votes[p] > 0}

(* What the proofs about the index need to know *)
IndexTypes ==
  /\ IsFiniteSet(registered) /\ registered \subseteq Producers /\ active \subseteq registered
  /\ tally.votes \in [Producers -> Nat]
  /\ \A p \in Producers : Rank[p] \in Int
  /\ \A p, q \in Producers : Rank[p] = Rank[q] => p = q

(* The invariant of votes gives it. *)
LEMMA IndexTyped ==
  ASSUME PayInv
  PROVE  IndexTypes
<1>1. VotingTypeOK /\ tally.votes \in [Producers -> Int] /\ \A p \in Producers : tally.votes[p] >= 0
  BY DEF PayInv, VotesInv, VotingTypeOK, Tallies, FairNow, Fair
<1>2. registered \subseteq Producers /\ active \subseteq registered
  BY <1>1 DEF VotingTypeOK
<1>3. IsFiniteSet(registered)
  BY <1>2, VotingSetsAssumption, FS_Subset
<1>4. tally.votes \in [Producers -> Nat]
  BY <1>1
<1>5. \A p, q \in Producers : Rank[p] = Rank[q] => p = q
  BY PayAssumption DEF IsInjective
<1> QED BY <1>2, <1>3, <1>4, <1>5, PayAssumption DEF IndexTypes

(* The index is a strict order of all producers, with the candidates in front. *)
LEMMA IndexOrders ==
  ASSUME IndexTypes
  PROVE  /\ \A p \in Producers : by_votes(p) \in Int /\ ~Before(p, p)
         /\ \A p, q \in Producers : p = q \/ Before(p, q) \/ Before(q, p)
         /\ \A p, q, r \in Producers : Before(p, q) /\ Before(q, r) => Before(p, r)
         /\ \A p \in Candidates, q \in registered \ Candidates : ~Before(q, p)
<1>1. \A p \in Producers : by_votes(p) \in Int /\ Rank[p] \in Int
  BY DEF IndexTypes, by_votes
<1>2. \A p \in Producers : ~Before(p, p)
  BY <1>1 DEF Before
<1>3. \A p, q \in Producers : p = q \/ Before(p, q) \/ Before(q, p)
  BY <1>1 DEF Before, IndexTypes
<1>4. \A p, q, r \in Producers : Before(p, q) /\ Before(q, r) => Before(p, r)
  BY <1>1 DEF Before
<1>5. \A p \in Candidates, q \in registered \ Candidates : ~Before(q, p)
  <2> SUFFICES ASSUME NEW p \in Candidates, NEW q \in registered \ Candidates
               PROVE  by_votes(p) < by_votes(q)
    BY <1>1 DEF Before, Candidates, IndexTypes
  <2>1. /\ p \in active /\ tally.votes[p] \in Nat /\ tally.votes[p] > 0 /\ tally.votes[q] \in Nat
        /\ q \in active => tally.votes[q] = 0
    BY DEF Candidates, IndexTypes
  <2> QED BY <2>1 DEF by_votes
<1> QED BY <1>1, <1>2, <1>3, <1>4, <1>5

(* So the walk only ends early with the last candidate: it takes those that have
   fewer producers ahead of them than the schedule has places. *)
LEMMA WalkTakes ==
  ASSUME IndexTypes
  PROVE  /\ \A p \in Producers : IsFiniteSet(Ahead(p)) /\ Cardinality(Ahead(p)) \in Nat
         /\ \A p \in Candidates : Ahead(p) \subseteq Candidates
         /\ top_producers = {p \in Candidates : Cardinality(Ahead(p)) < ScheduleSize}
         /\ Candidates \subseteq registered /\ top_producers \subseteq Candidates
<1>1. \A p \in Producers : IsFiniteSet(Ahead(p)) /\ Cardinality(Ahead(p)) \in Nat
  <2> SUFFICES ASSUME NEW p \in Producers PROVE IsFiniteSet(Ahead(p)) /\ Cardinality(Ahead(p)) \in Nat
    OBVIOUS
  <2>1. Ahead(p) \in SUBSET registered /\ IsFiniteSet(registered)
    BY DEF Ahead, IndexTypes
  <2>2. IsFiniteSet(Ahead(p))
    BY <2>1, FS_Subset
  <2> QED BY <2>2, FS_CardinalityType
<1>2. Candidates \subseteq registered
  BY DEF Candidates, IndexTypes
<1>3. \A p \in Candidates : Ahead(p) \subseteq Candidates
  BY IndexOrders DEF Ahead
<1>4. \A q \in registered : q \in Candidates <=> q \in active /\ tally.votes[q] > 0
  BY DEF Candidates
<1>5. \A p \in registered :
        (\A q \in Ahead(p) \cup {p} : q \in active /\ tally.votes[q] > 0) <=> p \in Candidates
  BY <1>3, <1>4 DEF Ahead
<1>6. top_producers = {p \in Candidates : Cardinality(Ahead(p)) < ScheduleSize}
  BY <1>2, <1>5 DEF top_producers
<1> QED BY <1>1, <1>2, <1>3, <1>6

(* Who comes earlier has fewer producers ahead. *)
LEMMA AheadGrows ==
  ASSUME IndexTypes, NEW p \in registered, NEW q \in Producers, Before(p, q)
  PROVE  Cardinality(Ahead(p)) < Cardinality(Ahead(q))
<1>1. p \in Producers
  BY DEF IndexTypes
<1>2. Ahead(p) \subseteq Ahead(q) /\ p \in Ahead(q) /\ p \notin Ahead(p)
  BY <1>1, IndexOrders DEF Ahead, IndexTypes
<1>3. IsFiniteSet(Ahead(q)) /\ Cardinality(Ahead(p)) \in Nat /\ Cardinality(Ahead(q)) \in Nat
  BY <1>1, WalkTakes
<1>4. Ahead(p) \in SUBSET Ahead(q) /\ Ahead(p) # Ahead(q)
  BY <1>2
<1>5. Cardinality(Ahead(p)) <= Cardinality(Ahead(q)) /\ Cardinality(Ahead(p)) # Cardinality(Ahead(q))
  BY <1>3, <1>4, FS_Subset
<1> QED BY <1>3, <1>5

(* A candidate that is left out comes later than all that are elected. *)
LEMMA MostVoted ==
  ASSUME IndexTypes, NEW p \in top_producers, NEW q \in Candidates \ top_producers
  PROVE  \/ tally.votes[q] < tally.votes[p]
         \/ tally.votes[q] = tally.votes[p] /\ Rank[p] < Rank[q]
<1>1. p \in Candidates /\ q \in Candidates /\ p \in registered /\ q \in registered /\ p # q
      /\ p \in Producers /\ q \in Producers
  BY WalkTakes DEF IndexTypes
<1>2. /\ Cardinality(Ahead(p)) < ScheduleSize /\ ~(Cardinality(Ahead(q)) < ScheduleSize)
      /\ Cardinality(Ahead(p)) \in Nat /\ Cardinality(Ahead(q)) \in Nat /\ ScheduleSize \in Nat
  BY <1>1, WalkTakes, PayAssumption
<1>3. ~Before(q, p)
  <2> SUFFICES ASSUME Before(q, p) PROVE FALSE
    OBVIOUS
  <2>1. Cardinality(Ahead(q)) < Cardinality(Ahead(p))
    BY <1>1, AheadGrows
  <2> QED BY <1>2, <2>1
<1>4. Before(p, q)
  BY <1>1, <1>3, IndexOrders
<1>5. p \in active /\ q \in active /\ tally.votes[p] \in Nat /\ tally.votes[q] \in Nat
  BY <1>1 DEF Candidates, IndexTypes
<1>6. by_votes(p) = -tally.votes[p] /\ by_votes(q) = -tally.votes[q]
  BY <1>5 DEF by_votes
<1> QED BY <1>4, <1>5, <1>6 DEF Before

(* No more are elected than there are places: each has a number of its own ahead. *)
LEMMA FewEnough ==
  ASSUME IndexTypes
  PROVE  /\ IsFiniteSet(top_producers) /\ Cardinality(top_producers) \in Nat
         /\ Cardinality(top_producers) <= ScheduleSize
<1> DEFINE S == top_producers
           Places == 0 .. ScheduleSize - 1
           place == [p \in S |-> Cardinality(Ahead(p))]
<1>1. ScheduleSize \in Nat \ {0}
  BY PayAssumption
<1>2. S \in SUBSET registered /\ IsFiniteSet(registered) /\ S \subseteq Producers
  BY WalkTakes DEF IndexTypes
<1>3. IsFiniteSet(S) /\ Cardinality(S) \in Nat
  <2>1. IsFiniteSet(S)
    BY <1>2, FS_Subset
  <2> QED BY <2>1, FS_CardinalityType
<1>4. IsFiniteSet(Places) /\ Cardinality(Places) = ScheduleSize
  BY <1>1, FS_Interval
<1>5. \A p \in S : Cardinality(Ahead(p)) \in Places
  <2> SUFFICES ASSUME NEW p \in S PROVE Cardinality(Ahead(p)) \in Places
    OBVIOUS
  <2>1. Cardinality(Ahead(p)) \in Nat /\ Cardinality(Ahead(p)) < ScheduleSize
    BY <1>2, WalkTakes
  <2> QED BY <1>1, <2>1
<1>6. place \in [S -> Places]
  BY <1>5
<1>7. \A p, q \in S : p # q => place[p] # place[q]
  <2> SUFFICES ASSUME NEW p \in S, NEW q \in S, p # q
               PROVE  Cardinality(Ahead(p)) # Cardinality(Ahead(q))
    OBVIOUS
  <2>1. /\ p \in registered /\ q \in registered /\ p \in Producers /\ q \in Producers
        /\ Cardinality(Ahead(p)) \in Nat /\ Cardinality(Ahead(q)) \in Nat
    BY <1>2, WalkTakes
  <2>2. Before(p, q) \/ Before(q, p)
    BY <2>1, IndexOrders
  <2>3. \/ Cardinality(Ahead(p)) < Cardinality(Ahead(q))
        \/ Cardinality(Ahead(q)) < Cardinality(Ahead(p))
    BY <2>1, <2>2, AheadGrows
  <2> QED BY <2>1, <2>3
<1> HIDE DEF S, Places, place
<1>8. ~(Cardinality(Places) < Cardinality(S))
  BY <1>3, <1>4, <1>6, <1>7, FS_PigeonHole
<1>9. Cardinality(S) <= ScheduleSize
  BY <1>1, <1>3, <1>4, <1>8
<1> QED BY <1>3, <1>9 DEF S

(* If one is left out there are as many as there are places: the first that is
   left out has only elected producers ahead. *)
LEMMA ManyEnough ==
  ASSUME IndexTypes, top_producers # Candidates
  PROVE  Cardinality(top_producers) >= ScheduleSize
<1> DEFINE Out == Candidates \ top_producers
           Bad == {Ahead(q) : q \in Out}
<1>1. Out # {} /\ Out \subseteq registered /\ registered \subseteq Producers
  BY WalkTakes DEF IndexTypes
<1>2. IsFiniteSet(registered) /\ Bad \in SUBSET (SUBSET registered) /\ Bad # {}
  <2>1. \A q \in Out : Ahead(q) \subseteq registered
    BY DEF Ahead
  <2>2. Bad \subseteq SUBSET registered
    BY ONLY <2>1
  <2>3. Bad # {}
    BY ONLY <1>1
  <2> QED BY <2>2, <2>3 DEF IndexTypes
<1>3. PICK A \in Bad : \A B \in Bad : ~(B \subseteq A /\ B # A)
  <2> HIDE DEF Bad
  <2> QED BY <1>2, SmallestSubset
<1>4. PICK q \in Out : A = Ahead(q)
  BY <1>3
<1>5. Ahead(q) \subseteq top_producers
  <2> SUFFICES ASSUME NEW r \in Ahead(q), r \notin top_producers PROVE FALSE
    OBVIOUS
  <2>1. r \in Out /\ r \in registered /\ r \in Producers /\ q \in Producers /\ Before(r, q)
    BY <1>1, WalkTakes DEF Ahead
  <2>2. Ahead(r) \subseteq Ahead(q) /\ r \notin Ahead(r)
    BY <1>1, <2>1, IndexOrders DEF Ahead
  <2>3. Ahead(r) \in Bad /\ Ahead(r) # Ahead(q)
    BY <2>1, <2>2
  <2> QED BY <1>3, <1>4, <2>2, <2>3
<1>6. /\ Cardinality(Ahead(q)) \in Nat /\ ScheduleSize \in Nat
      /\ ~(Cardinality(Ahead(q)) < ScheduleSize)
  BY <1>1, WalkTakes, PayAssumption
<1>7. /\ IsFiniteSet(top_producers) /\ Cardinality(top_producers) \in Nat
  BY FewEnough
<1>8. Cardinality(Ahead(q)) <= Cardinality(top_producers)
  BY <1>5, <1>7, FS_Subset
<1> QED BY <1>6, <1>7, <1>8

(* last_producer_schedule_size is the size of the schedule that was accepted last. *)
SizeKept == schedule \subseteq Producers /\ last_size = Cardinality(schedule)

(* A new schedule is the one that update_elected_producers walked to. *)
LEMMA NewSchedule ==
  ASSUME PayInv, [PayNext \/ (Votes /\ UNCHANGED payVars)]_vars, ~(UNCHANGED <<schedule, last_size>>)
  PROVE  /\ schedule' = top_producers /\ last_size' = Cardinality(top_producers)
         /\ Cardinality(top_producers) >= last_size
<1>1. PICK b \in Producers, accepted \in BOOLEAN : onblock(b, accepted)
  BY DEF PayNext, claimrewards, updtrevision, vars, payVars, blocks
<1>2. update_elected_producers(accepted)
  BY <1>1 DEF onblock
<1> QED BY <1>2 DEF update_elected_producers, LargeEnough

(* Every step keeps the size. *)
LEMMA NextKeepsSize ==
  ASSUME PayInv, SizeKept, [PayNext \/ (Votes /\ UNCHANGED payVars)]_vars
  PROVE  SizeKept'
<1>1. CASE UNCHANGED <<schedule, last_size>>
  BY <1>1 DEF SizeKept
<1>2. CASE ~(UNCHANGED <<schedule, last_size>>)
  <2>1. schedule' = top_producers /\ last_size' = Cardinality(top_producers)
    BY <1>2, NewSchedule
  <2>2. top_producers \subseteq Producers
    BY IndexTyped, WalkTakes DEF IndexTypes
  <2> QED BY <2>1, <2>2 DEF SizeKept
<1> QED BY <1>1, <1>2

(* Every schedule is elected, for any number of producers, any votes and any size:
   whatever votes, registrations and claims came before the block, the producers in
   it are the first of the active ones with votes, all of them or as many as there
   are places, and no fewer than before (update_elected_producers, voting.cpp). *)
THEOREM ElectionHolds == PaySpec => ScheduleIsElected
<1> DEFINE Elected ==
             schedule' # schedule =>
               /\ schedule' \subseteq Candidates
               /\ \A p \in schedule', q \in Candidates \ schedule' :
                    \/ tally.votes[q] < tally.votes[p]
                    \/ tally.votes[q] = tally.votes[p] /\ Rank[p] < Rank[q]
               /\ Cardinality(schedule') \in Cardinality(schedule) .. ScheduleSize
               /\ schedule' # Candidates => Cardinality(schedule') = ScheduleSize
<1>1. Init => SizeKept
  BY FS_EmptySet DEF Init, SizeKept
<1>2. PayInv /\ SizeKept /\ [PayNext \/ (Votes /\ UNCHANGED payVars)]_vars => SizeKept' /\ [Elected]_vars
  <2> SUFFICES ASSUME PayInv, SizeKept, [PayNext \/ (Votes /\ UNCHANGED payVars)]_vars,
                      schedule' # schedule
               PROVE  Elected
    BY NextKeepsSize
  <2>1. IndexTypes
    BY IndexTyped
  <2>2. /\ schedule' = top_producers /\ Cardinality(top_producers) >= Cardinality(schedule)
    BY NewSchedule DEF SizeKept
  <2>3. schedule' \subseteq Candidates
    BY <2>1, <2>2, WalkTakes
  <2>4. \A p \in schedule', q \in Candidates \ schedule' :
          \/ tally.votes[q] < tally.votes[p]
          \/ tally.votes[q] = tally.votes[p] /\ Rank[p] < Rank[q]
    BY <2>1, <2>2, MostVoted
  <2>5. Cardinality(schedule) \in Nat
    <3>1. IsFiniteSet(schedule)
      BY VotingSetsAssumption, FS_Subset DEF SizeKept
    <3> QED BY <3>1, FS_CardinalityType
  <2>6. Cardinality(schedule') \in Cardinality(schedule) .. ScheduleSize
    BY <2>1, <2>2, <2>5, FewEnough, PayAssumption
  <2>7. schedule' # Candidates => Cardinality(schedule') = ScheduleSize
    BY <2>1, <2>2, FewEnough, ManyEnough, PayAssumption
  <2> QED BY <2>3, <2>4, <2>6, <2>7
<1>3. ScheduleIsElected <=> [][Elected]_vars
  BY DEF ScheduleIsElected, Candidates
<1> HIDE DEF Elected
<1> QED BY <1>1, <1>2, <1>3, PayInvariant, PTL DEF PaySpec
=============================================================================
