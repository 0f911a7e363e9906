---------------------------- MODULE VotingProofs ----------------------------
(***************************************************************************)
(* Proofs about Voting for any accounts, producers, weights and bounds:    *)
(* what the operations on votes do to the tally, its weights and its vote- *)
(* pay shares.  The specifications that they are steps of are Staking's,   *)
(* with the stakes that votes weigh, and ProducerPay's, with the claims;   *)
(* the theorems about those are in RexProofs and PayProofs.                *)
(***************************************************************************)
EXTENDS Voting, SumsProofs

(* Weights are even numbers. *)
Evens == {2 * i : i \in Int}

(* Sums of even numbers are even, and only zero is within the epsilon. *)
LEMMA EvenNumbers ==
  /\ Evens \subseteq Int /\ 0 \in Evens
  /\ \A a, b \in Evens : a + b \in Evens /\ a - b \in Evens
  /\ \A a \in Evens, n \in Int : n * a \in Evens
  /\ \A a \in Evens : Abs(a) <= 1 => a = 0
<1>1. Evens \subseteq Int /\ 0 \in Evens
  BY DEF Evens
<1>2. ASSUME NEW a \in Evens, NEW b \in Evens
      PROVE  a + b \in Evens /\ a - b \in Evens
  <2>1. PICK i \in Int : a = 2 * i
    BY DEF Evens
  <2>2. PICK j \in Int : b = 2 * j
    BY DEF Evens
  <2>3. a + b = 2 * (i + j) /\ a - b = 2 * (i - j) /\ i + j \in Int /\ i - j \in Int
    BY <2>1, <2>2
  <2> QED BY <2>3 DEF Evens
<1>3. ASSUME NEW a \in Evens, NEW n \in Int
      PROVE  n * a \in Evens
  <2>1. PICK i \in Int : a = 2 * i
    BY DEF Evens
  <2>2. n * a = 2 * (n * i) /\ n * i \in Int
    BY <2>1
  <2> QED BY <2>2 DEF Evens
<1>4. ASSUME NEW a \in Evens, Abs(a) <= 1
      PROVE  a = 0
  BY <1>4 DEF Evens, Abs
<1> QED BY <1>1, <1>2, <1>3, <1>4

(* Stakes weigh an even amount, at least the stake itself. *)
LEMMA StakeWeighs ==
  ASSUME now \in Times, NEW s \in Nat
  PROVE  stake2vote(s) \in Evens /\ stake2vote(s) >= s
<1>1. Weight[now] \in Nat \ {0} /\ Weight[now] % 2 = 0
  BY WeightAssumption
<1>2. Weight[now] \in Evens /\ Weight[now] \in Nat /\ Weight[now] >= 1
  <2> DEFINE i == Weight[now] \div 2
  <2>1. i \in Int /\ Weight[now] = 2 * i
    BY <1>1
  <2> QED BY <1>1, <2>1 DEF Evens
<1> DEFINE w == Weight[now]
<1> HIDE DEF w
<1>3. s * w \in Evens
  BY <1>2, EvenNumbers DEF w
<1>4. s * w >= s
  <2>1. w - 1 \in Nat /\ s * (w - 1) \in Nat
    BY <1>2 DEF w
  <2>2. s * w = s * (w - 1) + s
    BY <1>2 DEF w
  <2> QED BY <2>1, <2>2
<1> QED BY <1>3, <1>4 DEF w, stake2vote

(* Changing one weight changes the sums it is part of. *)
LEMMA SumMoved ==
  ASSUME NEW L \in [Accounts -> Int], NEW M \in [Accounts -> Int], NEW u \in Accounts,
         \A x \in Accounts \ {u} : M[x] = L[x], NEW S \in SUBSET Accounts
  PROVE  /\ SumFunctionOnSet(L, S) \in Int
         /\ SumFunctionOnSet(M, S) = SumFunctionOnSet(L, S) + (IF u \in S THEN M[u] - L[u] ELSE 0)
<1>1. IsFiniteSet(S)
  BY VotingSetsAssumption, FS_Subset
<1>2. SumFunctionOnSet(L, S) \in Int
  BY <1>1, SumType
<1>3. CASE u \in S
  <2>1. SumFunctionOnSet(M, S) = SumFunctionOnSet(L, S) - L[u] + M[u]
    BY <1>1, <1>3, SumDiffer
  <2> DEFINE x == SumFunctionOnSet(L, S)
             y == SumFunctionOnSet(M, S)
  <2>2. x \in Int /\ y = (x - L[u]) + M[u] /\ L[u] \in Int /\ M[u] \in Int
    BY <1>2, <2>1
  <2> HIDE DEF x, y
  <2>3. y = x + (M[u] - L[u])
    BY <2>2
  <2> QED BY <1>2, <1>3, <2>3 DEF x, y
<1>4. CASE u \notin S
  <2>1. SumFunctionOnSet(L, S) = SumFunctionOnSet(M, S)
    BY <1>1, <1>4, SumSame
  <2> QED BY <1>2, <1>4, <2>1
<1> QED BY <1>3, <1>4

-----------------------------------------------------------------------------
(* What the rows of producers are made of *)
RowTypes ==
  /\ now \in Times
  /\ registered \subseteq Producers /\ rows2 \subseteq registered
  /\ claimed \in [Producers -> Times \cup {Epoch}]

(* Bringing the global share up to date touches neither votes nor weights. *)
LEMMA ShareUpdate ==
  ASSUME now \in Times, NEW t \in Tallies, NEW shares \in Int, NEW rate \in Int
  PROVE  LET r == update_total_votepay_share(t, shares, rate)
         IN  /\ r \in Tallies
             /\ r.last_vote_weight = t.last_vote_weight /\ r.proxied = t.proxied
             /\ r.votes = t.votes /\ r.total_weight = t.total_weight
<1>1. now \in Int /\ t.total_updated \in Int /\ t.rate \in Int /\ t.total_share \in Int
  BY DEF Tallies, Times
<1> DEFINE elapsed == IF now > t.total_updated THEN t.rate * (now - t.total_updated) ELSE 0
           a == Floored(t.total_share, elapsed + shares)
           b == Floored(t.rate, rate)
<1>2. elapsed \in Int
  BY <1>1
<1> HIDE DEF elapsed
<1>3. a \in Int /\ b \in Int
  BY <1>1, <1>2 DEF Floored
<1>4. update_total_votepay_share(t, shares, rate) =
        [t EXCEPT !.total_share = a, !.rate = b, !.total_updated = now]
  BY DEF update_total_votepay_share, elapsed
<1> HIDE DEF a, b
<1> QED BY <1>3, <1>4 DEF Tallies

(* The share of a producer is a number. *)
LEMMA ShareType ==
  ASSUME RowTypes, NEW t \in Tallies, NEW p \in Producers
  PROVE  new_votepay_share(t, p) \in Int
<1>1. now \in Int /\ t.updated[p] \in Int /\ t.votes[p] \in Int /\ t.share[p] \in Int
  BY TimeAssumption DEF RowTypes, Tallies, Times, Epoch
<1>2. t.votes[p] * (now - t.updated[p]) \in Int
  BY <1>1
<1> QED BY <1>1, <1>2 DEF new_votepay_share

(* Adding deltas to some of the votes adds their sum to the sum of the votes. *)
LEMMA DeltasTotal ==
  ASSUME NEW f \in [Producers -> Int], NEW h \in [Producers -> Int], NEW D \in SUBSET Producers,
         NEW delta \in [D -> Int], \A p \in Producers : h[p] = f[p] + (IF p \in D THEN delta[p] ELSE 0)
  PROVE  SumFunction(h) = SumFunction(f) + SumFunctionOnSet(delta, D)
<1> DEFINE g == [p \in Producers |-> IF p \in D THEN delta[p] ELSE 0]
<1>1. IsFiniteSet(Producers) /\ IsFiniteSet(D)
  BY VotingSetsAssumption, FS_Subset
<1>2. g \in [Producers -> Int] /\ (\A p \in Producers \ D : g[p] = 0) /\ \A p \in D : g[p] = delta[p]
  OBVIOUS
<1>3. h = [p \in Producers |-> f[p] + g[p]]
  OBVIOUS
<1> HIDE DEF g
<1>4. SumFunctionOnSet(g, Producers) = SumFunctionOnSet(g, D)
  BY <1>1, <1>2, SumZeros
<1>5. SumFunctionOnSet(g, D) = SumFunctionOnSet(delta, D)
  <2>1. D \subseteq D /\ D \in SUBSET Producers /\ delta \in [D -> Int]
    OBVIOUS
  <2> QED BY ONLY <1>1, <1>2, <2>1, SumSame
<1>6. SumFunctionOnSet([p \in Producers |-> f[p] + g[p]], Producers) =
        SumFunctionOnSet(f, Producers) + SumFunctionOnSet(g, Producers)
  BY <1>1, <1>2, SumPlus
<1>7. DOMAIN f = Producers /\ DOMAIN h = Producers
  OBVIOUS
<1> QED BY <1>3, <1>4, <1>5, <1>6, <1>7 DEF SumFunction

(* What ApplyDeltas does to the votes: each producer of the list gets its delta,
   and the total weight stays the sum of the votes. *)
LEMMA DeltasApplied ==
  ASSUME RowTypes, NEW t \in Tallies, NEW D \in SUBSET registered, NEW delta \in [D -> Int]
  PROVE  LET r == ApplyDeltas(t, delta)
         IN  /\ r \in Tallies
             /\ r.last_vote_weight = t.last_vote_weight /\ r.proxied = t.proxied
             /\ \A p \in Producers : r.votes[p] = t.votes[p] + (IF p \in D THEN delta[p] ELSE 0)
             /\ t.total_weight = SumFunction(t.votes) => r.total_weight = SumFunction(r.votes)
<1> DEFINE Paid == D \cap rows2
           rate == [p \in Paid |-> RateChange(t, p, delta[p])]
           lost == [p \in Paid |-> IF Lapses(t, p) THEN new_votepay_share(t, p) ELSE 0]
           vt == [p \in Producers |-> IF p \in D THEN t.votes[p] + delta[p] ELSE t.votes[p]]
           tw == t.total_weight + SumFunctionOnSet(delta, D)
           sh == [p \in Producers |-> IF p \notin Paid THEN t.share[p]
                                      ELSE IF Lapses(t, p) THEN 0 ELSE new_votepay_share(t, p)]
           up == [p \in Producers |-> IF p \in Paid THEN now ELSE t.updated[p]]
           t1 == [t EXCEPT !.votes = vt, !.total_weight = tw, !.share = sh, !.updated = up]
<1>1. DOMAIN delta \cap registered = D
  OBVIOUS
<1>2. ApplyDeltas(t, delta) = update_total_votepay_share(t1, -SumFunction(lost), SumFunction(rate))
  BY <1>1 DEF ApplyDeltas
<1>3. D \subseteq Producers /\ IsFiniteSet(D) /\ IsFiniteSet(Paid) /\ now \in Times
  BY VotingSetsAssumption, FS_Subset DEF RowTypes
<1>4. \A p \in Producers : new_votepay_share(t, p) \in Int
  BY ShareType
<1>5. t.votes \in [Producers -> Int] /\ t.share \in [Producers -> Int] /\ t.total_weight \in Int
      /\ t.updated \in [Producers -> Times \cup {Epoch}]
  BY DEF Tallies
<1>6. SumFunctionOnSet(delta, D) \in Int
  BY <1>3, SumType
<1>7. lost \in [Paid -> Int] /\ DOMAIN lost = Paid
  BY <1>3, <1>4
<1>8. rate \in [Paid -> Int] /\ DOMAIN rate = Paid
  <2>1. \A p \in Paid : RateChange(t, p, delta[p]) \in Int
    BY <1>3, <1>5 DEF RateChange, Lapses
  <2> QED BY <2>1
<1>9. vt \in [Producers -> Int] /\ tw \in Int /\ up \in [Producers -> Times \cup {Epoch}]
  BY <1>3, <1>5, <1>6
<1>10. sh \in [Producers -> Int]
  BY <1>3, <1>4, <1>5
<1> HIDE DEF lost, rate, vt, tw, sh, up, Paid
<1>11. SumFunction(lost) \in Int /\ SumFunction(rate) \in Int
  BY <1>3, <1>7, <1>8, SumType DEF SumFunction
<1>12. /\ t1 \in Tallies /\ t1.last_vote_weight = t.last_vote_weight /\ t1.proxied = t.proxied
       /\ t1.votes = vt /\ t1.total_weight = tw
  BY <1>9, <1>10 DEF Tallies
<1> HIDE DEF t1
<1>13. -SumFunction(lost) \in Int
  BY <1>11
<1>14. LET r == ApplyDeltas(t, delta)
       IN  /\ r \in Tallies
           /\ r.last_vote_weight = t1.last_vote_weight /\ r.proxied = t1.proxied
           /\ r.votes = t1.votes /\ r.total_weight = t1.total_weight
  <2> DEFINE x == -SumFunction(lost)
             y == SumFunction(rate)
  <2>1. x \in Int /\ y \in Int
    BY <1>11, <1>13
  <2> HIDE DEF x, y
  <2>2. LET r == update_total_votepay_share(t1, x, y)
        IN  /\ r \in Tallies
            /\ r.last_vote_weight = t1.last_vote_weight /\ r.proxied = t1.proxied
            /\ r.votes = t1.votes /\ r.total_weight = t1.total_weight
    BY <1>3, <1>12, <2>1, ShareUpdate
  <2> QED BY <1>2, <2>2 DEF x, y
<1>15. \A p \in Producers : vt[p] = t.votes[p] + (IF p \in D THEN delta[p] ELSE 0)
  BY <1>5 DEF vt
<1>16. SumFunction(vt) = SumFunction(t.votes) + SumFunctionOnSet(delta, D)
  BY <1>3, <1>5, <1>9, <1>15, DeltasTotal
<1> QED BY <1>12, <1>14, <1>15, <1>16 DEF tw

-----------------------------------------------------------------------------
(* Vote-pay shares in the tally t, with the claims c and the producers2 rows R,
   at time n: who earns, what a producer would get, and the two sums *)

Earns(t, c, p) == ~(c[p] + ClaimWindow <= t.updated[p])

Accrued(t, c, n, p) ==
  t.share[p] + IF Earns(t, c, p) /\ t.votes[p] > 0 /\ n > t.updated[p]
               THEN t.votes[p] * (n - t.updated[p]) ELSE 0

Rates(t, c, R) == [p \in Producers |-> IF p \in R /\ Earns(t, c, p) THEN t.votes[p] ELSE 0]
Shares(t, c, R, n) == [p \in Producers |-> IF p \in R THEN Accrued(t, c, n, p) ELSE 0]

Fair(t, c, R, n) ==
  /\ t \in Tallies /\ t.total_updated <= n
  /\ \A p \in Producers : /\ t.votes[p] >= 0 /\ t.share[p] >= 0 /\ t.updated[p] <= n
                          /\ p \notin R => t.share[p] = 0
  /\ t.rate = SumFunctionOnSet(Rates(t, c, R), Producers)
  /\ t.total_share + t.rate * (n - t.total_updated) = SumFunctionOnSet(Shares(t, c, R, n), Producers)

(* What is added up are numbers, and none of them is negative. *)
LEMMA FairTypes ==
  ASSUME NEW t \in Tallies, NEW c \in [Producers -> Times \cup {Epoch}], NEW R, NEW n \in Times,
         \A p \in Producers : t.votes[p] >= 0 /\ t.share[p] >= 0
  PROVE  /\ Rates(t, c, R) \in [Producers -> Nat] /\ Shares(t, c, R, n) \in [Producers -> Nat]
         /\ SumFunctionOnSet(Rates(t, c, R), Producers) \in Nat
         /\ SumFunctionOnSet(Shares(t, c, R, n), Producers) \in Nat
<1>1. n \in Int /\ t.votes \in [Producers -> Int] /\ t.share \in [Producers -> Int]
      /\ t.updated \in [Producers -> Int]
  BY TimeAssumption DEF Tallies, Times, Epoch
<1>2. ASSUME NEW p \in Producers
      PROVE  Accrued(t, c, n, p) \in Nat /\ t.votes[p] \in Nat
  <2>1. t.votes[p] \in Nat /\ t.share[p] \in Nat /\ t.updated[p] \in Int
    BY <1>1
  <2>2. ASSUME n > t.updated[p] PROVE t.votes[p] * (n - t.updated[p]) \in Nat
    <3>1. n - t.updated[p] \in Nat
      BY <1>1, <2>1, <2>2
    <3> QED BY <2>1, <3>1
  <2> QED BY <2>1, <2>2 DEF Accrued
<1>3. Rates(t, c, R) \in [Producers -> Nat] /\ Shares(t, c, R, n) \in [Producers -> Nat]
  BY <1>2 DEF Rates, Shares
<1> DEFINE f == Rates(t, c, R)
           g == Shares(t, c, R, n)
<1>4. f \in [Producers -> Int] /\ g \in [Producers -> Int] /\ \A p \in Producers : f[p] >= 0 /\ g[p] >= 0
  BY <1>3
<1>5. IsFiniteSet(Producers) /\ Producers \in SUBSET Producers
  BY VotingSetsAssumption
<1> HIDE DEF f, g
<1>6. SumFunctionOnSet(f, Producers) \in Nat /\ SumFunctionOnSet(g, Producers) \in Nat
  BY <1>4, <1>5, SumNat
<1> QED BY <1>3, <1>6 DEF f, g

(* Neither total falls below zero, so update_total_votepay_share adds what it is
   given and what the old rate has earned since. *)
LEMMA TotalsMove ==
  ASSUME now \in Times, NEW s \in Tallies, s.total_updated <= now, NEW d \in Int, NEW e \in Int,
         (s.total_share + s.rate * (now - s.total_updated)) + d >= 0, s.rate + e >= 0,
         NEW r, r = update_total_votepay_share(s, d, e)
  PROVE  /\ r \in Tallies /\ r.votes = s.votes /\ r.share = s.share /\ r.updated = s.updated
         /\ r.total_share = (s.total_share + s.rate * (now - s.total_updated)) + d
         /\ r.rate = s.rate + e /\ r.total_updated = now
<1>1. now \in Int /\ s.total_updated \in Int /\ s.rate \in Int /\ s.total_share \in Int
  BY DEF Tallies, Times
<1> DEFINE elapsed == IF now > s.total_updated THEN s.rate * (now - s.total_updated) ELSE 0
           z == s.rate * (now - s.total_updated)
<1>2. elapsed = z /\ z \in Int
  BY <1>1
<1>3. r = [s EXCEPT !.total_share = Floored(s.total_share, elapsed + d), !.rate = Floored(s.rate, e),
                    !.total_updated = now]
  BY DEF update_total_votepay_share
<1> HIDE DEF elapsed
<1>4. (s.total_share + z) + d >= 0
  OBVIOUS
<1> HIDE DEF z
<1>5. Floored(s.total_share, elapsed + d) = (s.total_share + z) + d /\ Floored(s.rate, e) = s.rate + e
  BY <1>1, <1>2, <1>4 DEF Floored
<1>6. (s.total_share + z) + d \in Int /\ s.rate + e \in Int
  BY <1>1, <1>2
<1>7. r = [s EXCEPT !.total_share = (s.total_share + z) + d, !.rate = s.rate + e, !.total_updated = now]
  BY <1>3, <1>5
<1>8. /\ r \in Tallies /\ r.votes = s.votes /\ r.share = s.share /\ r.updated = s.updated
      /\ r.total_share = (s.total_share + z) + d /\ r.rate = s.rate + e /\ r.total_updated = now
  BY <1>6, <1>7 DEF Tallies
<1> QED BY <1>8 DEF z

(* Sums of functions that differ by d *)
LEMMA SumShifted ==
  ASSUME NEW f \in [Producers -> Int], NEW g \in [Producers -> Int], NEW d \in [Producers -> Int],
         \A p \in Producers : g[p] = f[p] + d[p]
  PROVE  SumFunctionOnSet(g, Producers) = SumFunctionOnSet(f, Producers) + SumFunctionOnSet(d, Producers)
<1>1. g = [p \in Producers |-> f[p] + d[p]]
  OBVIOUS
<1> QED BY <1>1, SumPlus, VotingSetsAssumption

(* Rates and shares are made of votes, shares and times. *)
LEMMA SameShares ==
  ASSUME NEW t, NEW r, r.votes = t.votes, r.share = t.share, r.updated = t.updated, NEW c, NEW R, NEW n
  PROVE  Rates(r, c, R) = Rates(t, c, R) /\ Shares(r, c, R, n) = Shares(t, c, R, n)
BY DEF Rates, Shares, Accrued, Earns

(* The totals move with the shares: when each producer's share and rate change
   by ds and dr, and the totals are given the sums of those, they stay the sums. *)
LEMMA SharesMove ==
  ASSUME now \in Times, NEW c \in [Producers -> Times \cup {Epoch}], NEW R, NEW t, Fair(t, c, R, now),
         NEW s \in Tallies, s.rate = t.rate, s.total_share = t.total_share, s.total_updated = t.total_updated,
         NEW k \in [Producers -> Times \cup {Epoch}], NEW Q,
         \A p \in Producers : /\ s.votes[p] >= 0 /\ s.share[p] >= 0 /\ s.updated[p] <= now
                              /\ p \notin Q => s.share[p] = 0,
         NEW ds \in [Producers -> Int], NEW dr \in [Producers -> Int],
         \A p \in Producers : /\ Shares(s, k, Q, now)[p] = Shares(t, c, R, now)[p] + ds[p]
                              /\ Rates(s, k, Q)[p] = Rates(t, c, R)[p] + dr[p],
         NEW r, r = update_total_votepay_share(s, SumFunctionOnSet(ds, Producers), SumFunctionOnSet(dr, Producers))
  PROVE  Fair(r, k, Q, now)
<1> DEFINE d == SumFunctionOnSet(ds, Producers)
           e == SumFunctionOnSet(dr, Producers)
           f == Rates(t, c, R)
           g == Shares(t, c, R, now)
           h == Rates(s, k, Q)
           i == Shares(s, k, Q, now)
           z == s.total_share + s.rate * (now - s.total_updated)
<1>1. /\ t \in Tallies /\ t.rate = SumFunctionOnSet(f, Producers) /\ z = SumFunctionOnSet(g, Producers)
      /\ s.total_updated <= now /\ \A p \in Producers : t.votes[p] >= 0 /\ t.share[p] >= 0
  BY DEF Fair
<1>2. f \in [Producers -> Nat] /\ g \in [Producers -> Nat]
      /\ SumFunctionOnSet(f, Producers) \in Nat /\ SumFunctionOnSet(g, Producers) \in Nat
  BY <1>1, FairTypes
<1>3. h \in [Producers -> Nat] /\ i \in [Producers -> Nat]
      /\ SumFunctionOnSet(h, Producers) \in Nat /\ SumFunctionOnSet(i, Producers) \in Nat
  BY FairTypes
<1>4. \A p \in Producers : i[p] = g[p] + ds[p] /\ h[p] = f[p] + dr[p]
  OBVIOUS
<1>5. d \in Int /\ e \in Int
  BY SumType, VotingSetsAssumption
<1>6. r = update_total_votepay_share(s, d, e) /\ s.rate = SumFunctionOnSet(f, Producers)
  BY <1>1
<1> HIDE DEF d, e, f, g, h, i
<1>70. {f, g, h, i} \subseteq [Producers -> Int]
  BY <1>2, <1>3
<1>7. SumFunctionOnSet(i, Producers) = SumFunctionOnSet(g, Producers) + d
  BY <1>4, <1>70, SumShifted DEF d
<1>8. SumFunctionOnSet(h, Producers) = SumFunctionOnSet(f, Producers) + e
  BY <1>4, <1>70, SumShifted DEF e
<1>9. z + d >= 0 /\ s.rate + e >= 0
  BY <1>1, <1>2, <1>3, <1>5, <1>6, <1>7, <1>8
<1>10. /\ r \in Tallies /\ r.votes = s.votes /\ r.share = s.share /\ r.updated = s.updated
       /\ r.total_share = z + d /\ r.rate = s.rate + e /\ r.total_updated = now
  BY <1>1, <1>5, <1>6, <1>9, TotalsMove
<1>11. Rates(r, k, Q) = h /\ Shares(r, k, Q, now) = i
  BY <1>10, SameShares DEF h, i
<1> HIDE DEF z
<1>12. r.rate = SumFunctionOnSet(h, Producers) /\ r.total_share = SumFunctionOnSet(i, Producers)
  BY <1>1, <1>6, <1>7, <1>8, <1>10
<1>13. r.total_share + r.rate * (now - r.total_updated) = r.total_share
  <2>1. now \in Int /\ r.rate \in Int /\ r.total_share \in Int /\ r.total_updated = now
    BY <1>10 DEF Times, Tallies
  <2> QED BY <2>1
<1>14. r.total_updated <= now
  BY <1>10 DEF Times
<1> QED BY <1>10, <1>11, <1>12, <1>13, <1>14 DEF Fair

(* Once more *)
LEMMA OneMore ==
  ASSUME NEW a \in Int, NEW b \in Int
  PROVE  a * (b + 1) = a * b + a /\ a * b \in Int
OBVIOUS

(* A step of the clock: every share grows by its rate, and so does the total. *)
LEMMA SharesTick ==
  ASSUME NEW n \in Times, n + 1 \in Times, NEW c \in [Producers -> Times \cup {Epoch}], NEW R, NEW t,
         Fair(t, c, R, n)
  PROVE  Fair(t, c, R, n + 1)
<1> DEFINE f == Rates(t, c, R)
           g == Shares(t, c, R, n)
           h == Shares(t, c, R, n + 1)
<1>1. /\ t \in Tallies /\ t.rate = SumFunctionOnSet(f, Producers)
      /\ t.total_share + t.rate * (n - t.total_updated) = SumFunctionOnSet(g, Producers)
      /\ t.total_updated <= n /\ \A p \in Producers : t.votes[p] >= 0 /\ t.share[p] >= 0 /\ t.updated[p] <= n
  BY DEF Fair
<1>2. f \in [Producers -> Int] /\ g \in [Producers -> Int] /\ h \in [Producers -> Int]
  BY <1>1, FairTypes
<1>3. n \in Int /\ t.total_updated \in Int /\ t.rate \in Int /\ t.total_share \in Int
  BY <1>1 DEF Tallies, Times
<1>4. ASSUME NEW p \in Producers
      PROVE  h[p] = g[p] + f[p]
  <2> DEFINE v == t.votes[p]
             u == t.updated[p]
  <2>1. v \in Int /\ v >= 0 /\ u \in Int /\ u <= n /\ t.share[p] \in Int
    BY <1>1, TimeAssumption DEF Tallies, Times, Epoch
  <2>2. CASE p \notin R
    BY <2>2 DEF Rates, Shares
  <2>3. CASE p \in R /\ ~Earns(t, c, p)
    <3>1. g[p] = t.share[p] + 0 /\ h[p] = t.share[p] + 0 /\ f[p] = 0
      BY <2>3 DEF Rates, Shares, Accrued
    <3> QED BY <2>1, <3>1
  <2>4. CASE p \in R /\ Earns(t, c, p)
    <3>1. /\ g[p] = t.share[p] + (IF v > 0 /\ n > u THEN v * (n - u) ELSE 0)
          /\ h[p] = t.share[p] + (IF v > 0 /\ n + 1 > u THEN v * ((n + 1) - u) ELSE 0) /\ f[p] = v
      BY <2>4 DEF Rates, Shares, Accrued
    <3>2. v * ((n + 1) - u) = v * (n - u) + v /\ v * (n - u) \in Int
      <4> HIDE DEF v, u
      <4>1. n - u \in Int /\ (n + 1) - u = (n - u) + 1
        BY <1>3, <2>1
      <4> QED BY <2>1, <4>1, OneMore
    <3>3. (v = 0 \/ n = u) => v * (n - u) = 0
      BY <1>3, <2>1
    <3> DEFINE x == v * (n - u)
               y == v * ((n + 1) - u)
    <3> HIDE DEF x, y
    <3>4. /\ g[p] = t.share[p] + (IF v > 0 /\ n > u THEN x ELSE 0)
          /\ h[p] = t.share[p] + (IF v > 0 /\ n + 1 > u THEN y ELSE 0)
          /\ y = x + v /\ x \in Int /\ ((v = 0 \/ n = u) => x = 0)
      BY <3>1, <3>2, <3>3 DEF x, y
    <3> QED BY <1>3, <2>1, <3>1, <3>4
  <2> QED BY <2>2, <2>3, <2>4
<1> HIDE DEF f, g, h
<1>5. SumFunctionOnSet(h, Producers) = SumFunctionOnSet(g, Producers) + SumFunctionOnSet(f, Producers)
  BY <1>2, <1>4, SumShifted
<1>6. t.total_share + t.rate * ((n + 1) - t.total_updated) = SumFunctionOnSet(h, Producers)
  <2>1. t.rate * ((n + 1) - t.total_updated) = t.rate * (n - t.total_updated) + t.rate
        /\ t.rate * (n - t.total_updated) \in Int
    <3>1. n - t.total_updated \in Int /\ (n + 1) - t.total_updated = (n - t.total_updated) + 1
      BY <1>3
    <3> QED BY <1>3, <3>1, OneMore
  <2> DEFINE x == t.rate * (n - t.total_updated)
             y == t.rate * ((n + 1) - t.total_updated)
  <2>2. y = x + t.rate /\ x \in Int /\ t.total_share + x = SumFunctionOnSet(g, Producers)
    BY <1>1, <2>1
  <2> HIDE DEF x, y
  <2>3. t.total_share + y = SumFunctionOnSet(h, Producers)
    BY <1>1, <1>3, <1>5, <2>2
  <2> QED BY <2>3 DEF y
<1>7. \A p \in Producers : t.updated[p] <= n + 1
  BY <1>1, <1>3, TimeAssumption DEF Tallies, Times, Epoch
<1> QED BY <1>1, <1>3, <1>6, <1>7 DEF Fair, f, h

-----------------------------------------------------------------------------
(* ApplyDeltas *)

(* The sum over some producers, with zero for the others *)
LEMMA SumExtended ==
  ASSUME NEW P \in SUBSET Producers, NEW f \in [P -> Int], NEW g \in [Producers -> Int],
         \A p \in Producers : g[p] = IF p \in P THEN f[p] ELSE 0
  PROVE  SumFunction(f) = SumFunctionOnSet(g, Producers)
<1>1. IsFiniteSet(Producers) /\ IsFiniteSet(P) /\ P \in SUBSET P /\ DOMAIN f = P
  BY VotingSetsAssumption, FS_Subset
<1>2. \A p \in Producers \ P : g[p] = 0
  OBVIOUS
<1>3. SumFunctionOnSet(g, Producers) = SumFunctionOnSet(g, P)
  BY <1>1, <1>2, SumZeros
<1>4. \A p \in P : f[p] = g[p]
  OBVIOUS
<1>5. SumFunctionOnSet(f, P) = SumFunctionOnSet(g, P)
  BY <1>1, <1>4, SumSame
<1> QED BY <1>1, <1>3, <1>5 DEF SumFunction

(* The sum of zeros *)
LEMMA SumNone ==
  ASSUME NEW f \in [Producers -> Int], \A p \in Producers : f[p] = 0
  PROVE  SumFunctionOnSet(f, Producers) = 0
<1>1. {} \in SUBSET Producers /\ \A p \in Producers \ {} : f[p] = 0
  OBVIOUS
<1> QED BY <1>1, SumZeros, SumEmpty, VotingSetsAssumption

(* The sum of what is taken away *)
LEMMA SumNegated ==
  ASSUME NEW f \in [Producers -> Int], NEW g \in [Producers -> Int], \A p \in Producers : g[p] = -f[p]
  PROVE  SumFunctionOnSet(g, Producers) = -SumFunctionOnSet(f, Producers)
<1> DEFINE z == [p \in Producers |-> 0]
<1>1. z \in [Producers -> Int] /\ (\A p \in Producers : z[p] = f[p] + g[p]) /\ \A p \in Producers : z[p] = 0
  OBVIOUS
<1> HIDE DEF z
<1>2. SumFunctionOnSet(z, Producers) = 0
  BY <1>1, SumNone
<1>3. SumFunctionOnSet(z, Producers) = SumFunctionOnSet(f, Producers) + SumFunctionOnSet(g, Producers)
  BY <1>1, SumShifted
<1>4. SumFunctionOnSet(f, Producers) \in Int /\ SumFunctionOnSet(g, Producers) \in Int
  BY SumType, VotingSetsAssumption
<1> QED BY <1>2, <1>3, <1>4

(* What ApplyDeltas does for one producer with a row in producers2: its share is
   brought up to date, or lost once its claim is overdue. *)
LEMMA OneShare ==
  ASSUME RowTypes, NEW t, Fair(t, claimed, rows2, now), NEW s \in Tallies, NEW p \in Producers, p \in rows2,
         NEW d \in Int, s.votes[p] = t.votes[p] + d, s.updated[p] = now,
         s.share[p] = IF Lapses(t, p) THEN 0 ELSE new_votepay_share(t, p)
  PROVE  /\ new_votepay_share(t, p) \in Nat
         /\ Shares(s, claimed, rows2, now)[p] = Shares(t, claimed, rows2, now)[p]
              + (IF Lapses(t, p) THEN -new_votepay_share(t, p) ELSE 0)
         /\ Rates(s, claimed, rows2)[p] = Rates(t, claimed, rows2)[p] + RateChange(t, p, d)
<1> DEFINE g == new_votepay_share(t, p)
<1>0. /\ t \in Tallies /\ t.votes[p] \in Int /\ t.updated[p] \in Int /\ t.updated[p] <= now
      /\ now \in Int /\ claimed[p] + ClaimWindow \in Int /\ s.share[p] \in Int
      /\ \A q \in Producers : t.votes[q] >= 0 /\ t.share[q] >= 0
  BY TimeAssumption DEF Fair, RowTypes, Tallies, Times, Epoch
<1>1. g = Shares(t, claimed, rows2, now)[p]
  BY DEF Shares, Accrued, Earns, new_votepay_share, updated_after_threshold
<1>2. g \in Nat
  <2>1. Shares(t, claimed, rows2, now) \in [Producers -> Nat]
    BY <1>0, FairTypes DEF RowTypes
  <2> QED BY <1>1, <2>1
<1> HIDE DEF g
<1>3. Shares(s, claimed, rows2, now)[p] = s.share[p] + 0
  BY <1>0 DEF Shares, Accrued
<1>4. Shares(s, claimed, rows2, now)[p] = Shares(t, claimed, rows2, now)[p]
              + (IF Lapses(t, p) THEN -new_votepay_share(t, p) ELSE 0)
  BY <1>0, <1>1, <1>2, <1>3 DEF g
<1>5. Rates(s, claimed, rows2)[p] = Rates(t, claimed, rows2)[p] + RateChange(t, p, d)
  <2>1. /\ Rates(s, claimed, rows2)[p] = IF ~crossed_threshold(p) THEN t.votes[p] + d ELSE 0
        /\ Rates(t, claimed, rows2)[p] = IF ~updated_after_threshold(t, p) THEN t.votes[p] ELSE 0
    BY DEF Rates, Earns, crossed_threshold, updated_after_threshold
  <2>2. ~crossed_threshold(p) => ~updated_after_threshold(t, p)
    BY <1>0 DEF crossed_threshold, updated_after_threshold
  <2>3. CASE ~crossed_threshold(p)
    <3>1. RateChange(t, p, d) = d
      BY <2>2, <2>3 DEF RateChange, Lapses
    <3> QED BY <1>0, <2>1, <2>2, <2>3, <3>1
  <2>4. CASE Lapses(t, p)
    <3>1. RateChange(t, p, d) = -t.votes[p]
      BY <2>4 DEF RateChange, Lapses
    <3> QED BY <1>0, <2>1, <2>4, <3>1 DEF Lapses
  <2>5. CASE crossed_threshold(p) /\ ~Lapses(t, p)
    <3>1. RateChange(t, p, d) = 0
      BY <2>5 DEF RateChange
    <3> QED BY <1>0, <2>1, <2>5, <3>1 DEF Lapses
  <2> QED BY <2>3, <2>4, <2>5
<1> QED BY <1>2, <1>4, <1>5 DEF g

(* ApplyDeltas keeps the global share the sum of the producers' shares, as long
   as no producer's votes fall below zero. *)
LEMMA DeltasFair ==
  ASSUME RowTypes, NEW t, Fair(t, claimed, rows2, now),
         NEW D \in SUBSET registered, NEW delta \in [D -> Int], \A p \in D : t.votes[p] + delta[p] >= 0
  PROVE  Fair(ApplyDeltas(t, delta), claimed, rows2, now)
<1> DEFINE Paid == D \cap rows2
           rate == [p \in Paid |-> RateChange(t, p, delta[p])]
           lost == [p \in Paid |-> IF Lapses(t, p) THEN new_votepay_share(t, p) ELSE 0]
           vt == [p \in Producers |-> IF p \in D THEN t.votes[p] + delta[p] ELSE t.votes[p]]
           tw == t.total_weight + SumFunctionOnSet(delta, D)
           sh == [p \in Producers |-> IF p \notin Paid THEN t.share[p]
                                      ELSE IF Lapses(t, p) THEN 0 ELSE new_votepay_share(t, p)]
           up == [p \in Producers |-> IF p \in Paid THEN now ELSE t.updated[p]]
           s == [t EXCEPT !.votes = vt, !.total_weight = tw, !.share = sh, !.updated = up]
           lose == [p \in Producers |-> IF p \in Paid THEN lost[p] ELSE 0]
           ds == [p \in Producers |-> -lose[p]]
           dr == [p \in Producers |-> IF p \in Paid THEN rate[p] ELSE 0]
<1>1. DOMAIN delta \cap registered = D
  OBVIOUS
<1>2. ApplyDeltas(t, delta) = update_total_votepay_share(s, -SumFunction(lost), SumFunction(rate))
  BY <1>1 DEF ApplyDeltas
<1>3. D \subseteq Producers /\ IsFiniteSet(D) /\ now \in Times /\ Paid \in SUBSET Producers /\ t \in Tallies
      /\ claimed \in [Producers -> Times \cup {Epoch}]
  BY VotingSetsAssumption, FS_Subset DEF RowTypes, Fair
<1>4. \A p \in Producers : new_votepay_share(t, p) \in Int
  BY <1>3, ShareType
<1>5. t.votes \in [Producers -> Int] /\ t.share \in [Producers -> Int] /\ t.total_weight \in Int
      /\ t.updated \in [Producers -> Times \cup {Epoch}]
  BY <1>3 DEF Tallies
<1>6. SumFunctionOnSet(delta, D) \in Int
  BY <1>3, SumType
<1>7. lost \in [Paid -> Int]
  BY <1>3, <1>4
<1>8. rate \in [Paid -> Int]
  <2>1. \A p \in Paid : RateChange(t, p, delta[p]) \in Int
    BY <1>3, <1>5 DEF RateChange, Lapses
  <2> QED BY <2>1
<1>9. vt \in [Producers -> Int] /\ tw \in Int /\ up \in [Producers -> Times \cup {Epoch}]
  BY <1>3, <1>5, <1>6
<1>10. sh \in [Producers -> Int]
  BY <1>3, <1>4, <1>5
<1>11. lose \in [Producers -> Int] /\ ds \in [Producers -> Int] /\ dr \in [Producers -> Int]
  BY <1>7, <1>8
<1>12. /\ \A p \in Paid : lost[p] = IF Lapses(t, p) THEN new_votepay_share(t, p) ELSE 0
       /\ \A p \in Paid : rate[p] = RateChange(t, p, delta[p])
       /\ \A p \in Producers : lose[p] = IF p \in Paid THEN lost[p] ELSE 0
       /\ \A p \in Producers : ds[p] = -lose[p] /\ dr[p] = IF p \in Paid THEN rate[p] ELSE 0
       /\ \A p \in Producers : vt[p] = IF p \in D THEN t.votes[p] + delta[p] ELSE t.votes[p]
       /\ \A p \in Producers : sh[p] = IF p \notin Paid THEN t.share[p]
                                       ELSE IF Lapses(t, p) THEN 0 ELSE new_votepay_share(t, p)
       /\ \A p \in Producers : up[p] = IF p \in Paid THEN now ELSE t.updated[p]
  OBVIOUS
<1> HIDE DEF lost, rate, vt, tw, sh, up, lose, ds, dr
<1>13. /\ s \in Tallies /\ s.votes = vt /\ s.share = sh /\ s.updated = up
       /\ s.rate = t.rate /\ s.total_share = t.total_share /\ s.total_updated = t.total_updated
  BY <1>3, <1>9, <1>10 DEF Tallies
<1> HIDE DEF s
<1>14. ASSUME NEW p \in Producers
       PROVE  /\ s.votes[p] >= 0 /\ s.share[p] >= 0 /\ s.updated[p] <= now
              /\ p \notin rows2 => s.share[p] = 0
              /\ Shares(s, claimed, rows2, now)[p] = Shares(t, claimed, rows2, now)[p] + ds[p]
              /\ Rates(s, claimed, rows2)[p] = Rates(t, claimed, rows2)[p] + dr[p]
  <2>0. t.votes[p] >= 0 /\ t.share[p] >= 0 /\ t.updated[p] <= now /\ (p \notin rows2 => t.share[p] = 0)
    BY DEF Fair
  <2>1. CASE p \in Paid
    <3>1. /\ p \in D /\ p \in rows2 /\ delta[p] \in Int /\ s.votes[p] = t.votes[p] + delta[p] /\ s.updated[p] = now
          /\ s.share[p] = IF Lapses(t, p) THEN 0 ELSE new_votepay_share(t, p)
      BY <1>12, <1>13, <2>1
    <3>2. /\ new_votepay_share(t, p) \in Nat
          /\ Shares(s, claimed, rows2, now)[p] = Shares(t, claimed, rows2, now)[p]
               + (IF Lapses(t, p) THEN -new_votepay_share(t, p) ELSE 0)
          /\ Rates(s, claimed, rows2)[p] = Rates(t, claimed, rows2)[p] + RateChange(t, p, delta[p])
      BY <1>13, <3>1, OneShare
    <3>3. ds[p] = (IF Lapses(t, p) THEN -new_votepay_share(t, p) ELSE 0) /\ dr[p] = RateChange(t, p, delta[p])
      BY <1>12, <2>1, <3>2
    <3>4. s.votes[p] >= 0 /\ s.share[p] >= 0 /\ s.updated[p] <= now
      BY <1>3, <3>1, <3>2 DEF Times
    <3> QED BY <3>1, <3>2, <3>3, <3>4
  <2>2. CASE p \notin Paid
    <3>1. /\ s.share[p] = t.share[p] /\ s.updated[p] = t.updated[p] /\ ds[p] = 0 /\ dr[p] = 0
      BY <1>12, <1>13, <2>2
    <3>2. s.votes[p] >= 0
      BY <1>12, <1>13, <2>0
    <3>3. \A x \in Nat : x + 0 = x
      OBVIOUS
    <3>4. Shares(t, claimed, rows2, now)[p] \in Nat /\ Rates(t, claimed, rows2)[p] \in Nat
      <4>1. \A q \in Producers : t.votes[q] >= 0 /\ t.share[q] >= 0
        BY DEF Fair
      <4>2. Rates(t, claimed, rows2) \in [Producers -> Nat] /\ Shares(t, claimed, rows2, now) \in [Producers -> Nat]
        BY <1>3, <4>1, FairTypes
      <4> QED BY <4>2
    <3>5. CASE p \in rows2
      <4>1. s.votes[p] = t.votes[p]
        BY <1>12, <1>13, <2>2, <3>5
      <4>2. /\ Shares(s, claimed, rows2, now)[p] = Shares(t, claimed, rows2, now)[p]
            /\ Rates(s, claimed, rows2)[p] = Rates(t, claimed, rows2)[p]
        BY <3>1, <4>1 DEF Shares, Rates, Accrued, Earns
      <4> QED BY <2>0, <3>1, <3>2, <3>3, <3>4, <3>5, <4>2
    <3>6. CASE p \notin rows2
      <4>1. /\ Shares(s, claimed, rows2, now)[p] = Shares(t, claimed, rows2, now)[p]
            /\ Rates(s, claimed, rows2)[p] = Rates(t, claimed, rows2)[p]
        BY <3>6 DEF Shares, Rates
      <4> QED BY <2>0, <3>1, <3>2, <3>3, <3>4, <3>6, <4>1
    <3> QED BY <3>5, <3>6
  <2> QED BY <2>1, <2>2
<1> HIDE DEF Paid
<1>15. SumFunctionOnSet(ds, Producers) = -SumFunction(lost)
  <2>1. SumFunction(lost) = SumFunctionOnSet(lose, Producers)
    <3>1. \A p \in Producers : lose[p] = IF p \in Paid THEN lost[p] ELSE 0
      BY <1>12
    <3> QED BY <1>3, <1>7, <1>11, <3>1, SumExtended
  <2>2. SumFunctionOnSet(ds, Producers) = -SumFunctionOnSet(lose, Producers)
    BY <1>11, <1>12, SumNegated
  <2> QED BY <2>1, <2>2
<1>16. SumFunctionOnSet(dr, Producers) = SumFunction(rate)
  <2>1. \A p \in Producers : dr[p] = IF p \in Paid THEN rate[p] ELSE 0
    BY <1>12
  <2> QED BY <1>3, <1>8, <1>11, <2>1, SumExtended
<1> DEFINE r == ApplyDeltas(t, delta)
<1>17. r = update_total_votepay_share(s, SumFunctionOnSet(ds, Producers), SumFunctionOnSet(dr, Producers))
  BY <1>2, <1>15, <1>16
<1> HIDE DEF r
<1>18. Fair(r, claimed, rows2, now)
  BY <1>3, <1>11, <1>13, <1>14, <1>17, SharesMove
<1> QED BY <1>18 DEF r

FairNow(t) == Fair(t, claimed, rows2, now)

(* Weights and proxies have no part in it. *)
LEMMA SameFair ==
  ASSUME NEW t, FairNow(t), NEW r \in Tallies, r.votes = t.votes, r.share = t.share, r.updated = t.updated,
         r.rate = t.rate, r.total_share = t.total_share, r.total_updated = t.total_updated
  PROVE  FairNow(r)
<1>1. Rates(r, claimed, rows2) = Rates(t, claimed, rows2)
      /\ Shares(r, claimed, rows2, now) = Shares(t, claimed, rows2, now)
  BY SameShares
<1> QED BY <1>1 DEF FairNow, Fair

-----------------------------------------------------------------------------
(* Proxies *)

(* What the absence of cycles needs: the types of what votes are made of, that
   only accounts with a row use a proxy, and that active producers have rows. *)
ProxyTypes ==
  /\ is_proxy \in [Accounts -> BOOLEAN]
  /\ proxy \in [Accounts -> Accounts \cup {None}]
  /\ choice \in [Accounts -> SUBSET Producers]
  /\ active \subseteq registered
  /\ \A v \in Accounts : proxy[v] # None => v \in voters

ProxyInv == ProxyTypes /\ NoProxyCycle

(* Rows are added and producers registered, votes stay. *)
LEMMA ProxyKept ==
  ASSUME ProxyInv, UNCHANGED voteVars, voters \subseteq voters', registered \subseteq registered',
         active' \subseteq registered'
  PROVE  ProxyInv'
BY DEF ProxyInv, ProxyTypes, NoProxyCycle, voteVars

(* A vote for a proxy adds a link to an account that has none: no cycle closes. *)
LEMMA ProxyVote ==
  ASSUME ProxyInv, NEW v \in Accounts, NEW px \in Accounts \cup {None}, NEW ps \in SUBSET Producers,
         NEW growth, voteproducer(v, px, ps, growth)
  PROVE  ProxyInv'
<1>1. /\ v \in voters /\ VoteAllowed(v, px, ps, TRUE)
      /\ proxy' = [proxy EXCEPT ![v] = px] /\ choice' = [choice EXCEPT ![v] = ps]
      /\ voters' = voters /\ is_proxy' = is_proxy /\ registered' = registered /\ active' = active
  BY DEF voteproducer, prodVars
<1>2. ProxyTypes /\ NoProxyCycle /\ None \notin Accounts
  BY VotingSetsAssumption DEF ProxyInv
<1>3. /\ px # None => ps = {} /\ v # px /\ ~is_proxy[v] /\ px \in voters /\ is_proxy[px]
      /\ ps \subseteq registered
  BY <1>1, <1>2 DEF VoteAllowed, ProxyTypes
<1>4. ProxyTypes' /\ proxy'[v] = px /\ choice'[v] = ps
      /\ \A u \in Accounts \ {v} : proxy'[u] = proxy[u] /\ choice'[u] = choice[u]
  BY <1>1, <1>2 DEF ProxyTypes
<1>5. ASSUME NEW S \in SUBSET Accounts, S # {}
      PROVE  \E u \in S : proxy'[u] \notin S
  <2>1. CASE v \notin S
    BY <1>2, <1>4, <1>5, <2>1 DEF NoProxyCycle
  <2>2. CASE v \in S /\ px \notin S
    BY <1>4, <2>2
  <2>3. CASE v \in S /\ px \in S
    <3>1. px \in Accounts /\ px # None
      BY <1>2, <2>3
    <3>2. proxy'[px] = None
      BY <1>2, <1>3, <1>4, <3>1 DEF NoProxyCycle
    <3> QED BY <1>2, <2>3, <3>2
  <2> QED BY <2>1, <2>2, <2>3
<1>6. ASSUME NEW u \in Accounts
      PROVE  /\ is_proxy'[u] => proxy'[u] = None
             /\ proxy'[u] # None => proxy'[u] \in voters' /\ choice'[u] = {}
             /\ choice'[u] \subseteq registered'
  <2>1. CASE u = v
    BY <1>1, <1>3, <1>4, <2>1
  <2>2. CASE u # v
    BY <1>1, <1>2, <1>4, <2>2 DEF NoProxyCycle
  <2> QED BY <2>1, <2>2
<1>7. NoProxyCycle'
  BY <1>5, <1>6 DEF NoProxyCycle
<1> QED BY <1>4, <1>7 DEF ProxyInv

(* An account that registers as a proxy uses none. *)
LEMMA ProxyRegistered ==
  ASSUME ProxyInv, NEW v \in Accounts, NEW isp \in BOOLEAN, regproxy(v, isp)
  PROVE  ProxyInv'
<1>1. /\ is_proxy' = [is_proxy EXCEPT ![v] = isp] /\ proxy' = proxy /\ choice' = choice
      /\ voters \subseteq voters' /\ registered' = registered /\ active' = active
      /\ isp /\ v \in voters => proxy[v] = None
  BY DEF regproxy, prodVars, MayRegister
<1>2. ProxyTypes /\ NoProxyCycle
  BY DEF ProxyInv
<1>3. isp => proxy[v] = None
  BY <1>1, <1>2 DEF ProxyTypes
<1>4. /\ ProxyTypes' /\ is_proxy'[v] = isp /\ \A u \in Accounts \ {v} : is_proxy'[u] = is_proxy[u]
  BY <1>1, <1>2 DEF ProxyTypes
<1>5. \A u \in Accounts : is_proxy'[u] => proxy[u] = None
  BY <1>2, <1>3, <1>4 DEF NoProxyCycle
<1>6. NoProxyCycle'
  BY <1>1, <1>2, <1>5 DEF NoProxyCycle
<1> QED BY <1>4, <1>6 DEF ProxyInv

-----------------------------------------------------------------------------
(* Weights *)

(* The tally t adds up for the votes of the accounts of X, apart from an extra
   weight e that proxies hold and an extra weight c of the producers: in the
   middle of update_votes for v, X is everybody else. *)
Sound(t, X, e, c) ==
  /\ t \in Tallies
  /\ \A u \in Accounts : /\ t.last_vote_weight[u] \in Evens /\ t.last_vote_weight[u] >= 0
                         /\ t.proxied[u] \in Evens
  /\ \A x \in Accounts :
       t.proxied[x] = SumFunctionOnSet(t.last_vote_weight, {u \in X : proxy[u] = x}) + e[x]
  /\ \A p \in Producers :
       t.votes[p] = SumFunctionOnSet(t.last_vote_weight, {u \in X : p \in choice[u]}) + c[p]
  /\ t.total_weight = SumFunction(t.votes)

(* The weight an account casts is even and, if it has a stake, not zero. *)
LEMMA WeightCast ==
  ASSUME now \in Times, ProxyTypes, NEW X \in SUBSET Accounts, NEW e \in [Accounts -> Nat], NEW c,
         NEW t, Sound(t, X, e, c), NEW stk \in [Accounts -> Nat], NEW isp \in [Accounts -> BOOLEAN],
         NEW u \in Accounts
  PROVE  /\ VoteWeight(t, stk, isp, u) \in Evens
         /\ VoteWeight(t, stk, isp, u) >= stk[u]
         /\ t.proxied[u] >= 0
<1> DEFINE S == {a \in X : proxy[a] = u}
           x == SumFunctionOnSet(t.last_vote_weight, S)
           s == stake2vote(stk[u])
<1>1. t.last_vote_weight \in [Accounts -> Int] /\ t.proxied[u] \in Evens
      /\ \A a \in S : t.last_vote_weight[a] >= 0
  BY DEF Sound, Tallies
<1>2. IsFiniteSet(S) /\ S \in SUBSET Accounts
  BY VotingSetsAssumption, FS_Subset
<1>3. x \in Nat
  BY <1>1, <1>2, SumNat
<1>4. t.proxied[u] = x + e[u] /\ e[u] \in Nat
  BY DEF Sound
<1> HIDE DEF x
<1>5. t.proxied[u] \in Nat
  BY <1>3, <1>4
<1>6. s \in Evens /\ s >= stk[u] /\ stk[u] \in Nat /\ s \in Int
  BY StakeWeighs, EvenNumbers
<1> HIDE DEF s
<1>7. VoteWeight(t, stk, isp, u) = s + (IF isp[u] THEN t.proxied[u] ELSE 0)
  BY DEF VoteWeight, s
<1>8. CASE isp[u]
  <2>1. VoteWeight(t, stk, isp, u) = s + t.proxied[u]
    BY <1>7, <1>8
  <2> QED BY <1>1, <1>5, <1>6, <2>1, EvenNumbers, SMTT(30)
<1>9. CASE ~isp[u]
  <2>1. VoteWeight(t, stk, isp, u) = s
    BY <1>6, <1>7, <1>9
  <2> QED BY <1>5, <1>6, <2>1
<1> QED BY <1>8, <1>9

(* What one call for u changes: its weight, and what its proxy holds if the walk
   goes on with it. *)
Once(t, r, stk, isp, u) ==
  /\ r.next \in {proxy[u], None}
  /\ r.tally.last_vote_weight[u] = VoteWeight(t, stk, isp, u)
  /\ \A x \in Accounts \ {u} : r.tally.last_vote_weight[x] = t.last_vote_weight[x]
  /\ \A x \in Accounts : r.next # x => r.tally.proxied[x] = t.proxied[x]

(* One call of propagate_weight_change for an account of X keeps the tally
   adding up: the change of its weight goes to its proxy or to its producers. *)
LEMMA OnceSound ==
  ASSUME RowTypes, ProxyInv, NEW X \in SUBSET Accounts, NEW e \in [Accounts -> Nat],
         NEW c \in [Producers -> Nat], NEW t, Sound(t, X, e, c),
         NEW stk \in [Accounts -> Nat], NEW isp \in [Accounts -> BOOLEAN], NEW u \in X
  PROVE  /\ Sound(PropagateOnce(t, stk, isp, u).tally, X, e, c)
         /\ Once(t, PropagateOnce(t, stk, isp, u), stk, isp, u)
<1> DEFINE new == VoteWeight(t, stk, isp, u)
           L == t.last_vote_weight
           M == [L EXCEPT ![u] = new]
           delta == new - L[u]
           moves == Abs(delta) > 1
           r == PropagateOnce(t, stk, isp, u)
<1>0. ProxyTypes /\ NoProxyCycle /\ None \notin Accounts /\ now \in Times /\ u \in Accounts
      /\ registered \subseteq Producers
  BY VotingSetsAssumption DEF ProxyInv, RowTypes
<1>1. new \in Evens /\ new >= stk[u] /\ stk[u] \in Nat
  BY <1>0, WeightCast
<1>2. /\ t \in Tallies /\ L \in [Accounts -> Int] /\ t.proxied \in [Accounts -> Int]
      /\ t.votes \in [Producers -> Int]
      /\ \A a \in Accounts : L[a] \in Evens /\ L[a] >= 0 /\ t.proxied[a] \in Evens
  BY DEF Sound, Tallies
<1> HIDE DEF new, L
<1>3. new \in Int /\ new >= 0 /\ delta \in Evens /\ delta \in Int
  <2>1. L[u] \in Evens /\ Evens \subseteq Int
    BY <1>0, <1>2, EvenNumbers
  <2>2. new - L[u] \in Evens
    BY <1>1, <2>1, EvenNumbers
  <2>3. new \in Int /\ new - L[u] \in Int
    BY <1>1, <2>1, <2>2
  <2>4. new >= 0
    BY <1>1, <2>3
  <2> QED BY <2>2, <2>3, <2>4
<1>4. M \in [Accounts -> Int] /\ M[u] = new /\ (\A a \in Accounts \ {u} : M[a] = L[a]) /\ \A a \in Accounts : M[a] \in Evens /\ M[a] >= 0
  BY <1>1, <1>2, <1>3
<1>5. ASSUME NEW S \in SUBSET Accounts
      PROVE  SumFunctionOnSet(L, S) \in Int
             /\ SumFunctionOnSet(M, S) = SumFunctionOnSet(L, S) + (IF u \in S THEN delta ELSE 0)
  <2> HIDE DEF M
  <2>1. /\ SumFunctionOnSet(L, S) \in Int
        /\ SumFunctionOnSet(M, S) = SumFunctionOnSet(L, S) + (IF u \in S THEN M[u] - L[u] ELSE 0)
    BY <1>0, <1>2, <1>4, SumMoved, SMTT(30)
  <2> QED BY <1>4, <2>1
<1> HIDE DEF M
<1>6. \A x \in Accounts : /\ t.proxied[x] = SumFunctionOnSet(L, {a \in X : proxy[a] = x}) + e[x]
                          /\ e[x] \in Int
  BY DEF Sound, L
<1>7. \A p \in Producers : /\ t.votes[p] = SumFunctionOnSet(L, {a \in X : p \in choice[a]}) + c[p]
                           /\ c[p] \in Int
  BY DEF Sound, L
<1>8. t.total_weight = SumFunction(t.votes)
  BY DEF Sound
<1> HIDE DEF delta
<1>9. CASE moves /\ proxy[u] # None
  <2> DEFINE q == [t.proxied EXCEPT ![proxy[u]] = @ + delta]
             t2 == [t EXCEPT !.last_vote_weight = M, !.proxied = q]
  <2>1. proxy[u] \in Accounts /\ choice[u] = {}
    BY <1>0, <1>9 DEF ProxyTypes, NoProxyCycle
  <2>2. r = [tally |-> t2, next |-> proxy[u]]
    BY <1>9 DEF PropagateOnce, new, L, M, delta
  <2>3. q \in [Accounts -> Int] /\ \A a \in Accounts : q[a] \in Evens
    BY <1>2, <1>3, <2>1, EvenNumbers
  <2>4. q[proxy[u]] = t.proxied[proxy[u]] + delta /\ \A x \in Accounts \ {proxy[u]} : q[x] = t.proxied[x]
    BY <1>2, <2>1
  <2>5. ASSUME NEW x \in Accounts
        PROVE  q[x] = SumFunctionOnSet(M, {a \in X : proxy[a] = x}) + e[x]
    <3> DEFINE S == {a \in X : proxy[a] = x}
               y == SumFunctionOnSet(L, S)
               z == SumFunctionOnSet(M, S)
    <3>1. y \in Int /\ z = y + (IF x = proxy[u] THEN delta ELSE 0) /\ t.proxied[x] = y + e[x] /\ e[x] \in Int
      BY <1>5, <1>6
    <3>2. q[x] = t.proxied[x] + (IF x = proxy[u] THEN delta ELSE 0)
      BY <1>2, <1>3, <2>4
    <3> HIDE DEF y, z
    <3>3. q[x] = z + e[x]
      BY <1>3, <3>1, <3>2
    <3> QED BY <3>3 DEF z
  <2>6. ASSUME NEW p \in Producers
        PROVE  t.votes[p] = SumFunctionOnSet(M, {a \in X : p \in choice[a]}) + c[p]
    <3> DEFINE S == {a \in X : p \in choice[a]}
    <3>1. u \notin S /\ S \in SUBSET Accounts
      BY <2>1
    <3> HIDE DEF S
    <3>2. SumFunctionOnSet(M, S) = SumFunctionOnSet(L, S)
      BY <1>5, <3>1
    <3> USE DEF S
    <3> QED BY <1>7, <3>2
  <2> HIDE DEF q
  <2>7. /\ t2 \in Tallies /\ t2.last_vote_weight = M /\ t2.proxied = q
        /\ t2.votes = t.votes /\ t2.total_weight = t.total_weight
    BY <1>2, <1>4, <2>3 DEF Tallies
  <2> HIDE DEF t2
  <2>8. Sound(t2, X, e, c)
    BY <1>4, <1>8, <2>3, <2>5, <2>6, <2>7 DEF Sound
  <2> QED BY <1>4, <2>2, <2>4, <2>7, <2>8 DEF L, new, Once
<1>10. CASE moves /\ proxy[u] = None
  <2> DEFINE D == choice[u]
             dl == [p \in D |-> delta]
             t1 == ApplyDeltas(t, dl)
             t2 == [t1 EXCEPT !.last_vote_weight = M]
             vt == t1.votes
  <2>1. D \in SUBSET registered /\ D \in SUBSET Producers
    BY <1>0 DEF NoProxyCycle
  <2>2. dl \in [D -> Int]
    BY <1>3
  <2> HIDE DEF D, dl
  <2>3. /\ t1 \in Tallies /\ t1.last_vote_weight = L /\ t1.proxied = t.proxied
        /\ \A p \in Producers : vt[p] = t.votes[p] + (IF p \in D THEN dl[p] ELSE 0)
        /\ t1.total_weight = SumFunction(vt)
    <3> HIDE DEF t1
    <3>1. /\ ApplyDeltas(t, dl) \in Tallies
          /\ ApplyDeltas(t, dl).last_vote_weight = t.last_vote_weight /\ ApplyDeltas(t, dl).proxied = t.proxied
          /\ \A p \in Producers : ApplyDeltas(t, dl).votes[p] = t.votes[p] + (IF p \in D THEN dl[p] ELSE 0)
          /\ t.total_weight = SumFunction(t.votes) => ApplyDeltas(t, dl).total_weight = SumFunction(ApplyDeltas(t, dl).votes)
      <4>1. t \in Tallies
        BY <1>2
      <4> QED BY ONLY RowTypes, <4>1, <2>1, <2>2, DeltasApplied
    <3>2. t1 = ApplyDeltas(t, dl)
      BY DEF t1
    <3> QED BY <1>8, <3>1, <3>2 DEF L
  <2> USE DEF D, dl
  <2>4. r = [tally |-> t2, next |-> None]
    <3>1. r = [tally |-> [t1 EXCEPT !.last_vote_weight[u] = new], next |-> None]
      BY <1>10 DEF PropagateOnce, new, L, delta
    <3>2. [t1 EXCEPT !.last_vote_weight[u] = new] = t2
      <4> HIDE DEF t1
      <4> QED BY <2>3 DEF M
    <3> QED BY <3>1, <3>2
  <2>5. \A p \in Producers : vt[p] = t.votes[p] + (IF p \in D THEN delta ELSE 0)
    <3> HIDE DEF t1
    <3> QED BY <2>3
  <2>6. t1.total_weight = SumFunction(vt)
    BY <2>3
  <2> HIDE DEF t1, vt, dl
  <2>7. ASSUME NEW x \in Accounts
        PROVE  t.proxied[x] = SumFunctionOnSet(M, {a \in X : proxy[a] = x}) + e[x]
    <3> DEFINE S == {a \in X : proxy[a] = x}
    <3>1. u \notin S /\ S \in SUBSET Accounts
      BY <1>0, <1>10
    <3> HIDE DEF S
    <3>2. SumFunctionOnSet(M, S) = SumFunctionOnSet(L, S)
      BY <1>5, <3>1
    <3> USE DEF S
    <3> QED BY <1>6, <3>2
  <2>8. ASSUME NEW p \in Producers
        PROVE  vt[p] = SumFunctionOnSet(M, {a \in X : p \in choice[a]}) + c[p]
    <3> DEFINE S == {a \in X : p \in choice[a]}
               y == SumFunctionOnSet(L, S)
               z == SumFunctionOnSet(M, S)
    <3>1. y \in Int /\ z = y + (IF p \in D THEN delta ELSE 0) /\ t.votes[p] = y + c[p] /\ c[p] \in Int
      BY <1>5, <1>7
    <3>2. vt[p] = t.votes[p] + (IF p \in D THEN delta ELSE 0)
      BY <2>5
    <3> HIDE DEF y, z
    <3>3. vt[p] = z + c[p]
      BY <1>3, <3>1, <3>2
    <3> QED BY <3>3 DEF z
  <2>9. /\ t2 \in Tallies /\ t2.last_vote_weight = M /\ t2.proxied = t.proxied
        /\ t2.votes = vt /\ t2.total_weight = t1.total_weight
    BY <1>4, <2>3 DEF Tallies, vt
  <2> HIDE DEF t2
  <2>10. Sound(t2, X, e, c)
    BY <1>2, <1>4, <2>3, <2>6, <2>7, <2>8, <2>9 DEF Sound
  <2> QED BY <1>4, <2>4, <2>9, <2>10 DEF L, new, Once
<1>11. CASE ~moves
  <2>1. delta = 0
    <3>1. Abs(delta) <= 1
      BY <1>3, <1>11 DEF Abs
    <3> QED BY <1>3, <3>1, EvenNumbers
  <2>2. M = L /\ new = L[u]
    BY <1>0, <1>2, <1>3, <2>1 DEF delta, M
  <2>3. r = [tally |-> [t EXCEPT !.last_vote_weight[u] = new], next |-> None]
    BY <1>11 DEF PropagateOnce, new, L, delta
  <2>4. [t EXCEPT !.last_vote_weight[u] = new] = t
    BY <1>0, <1>2, <2>2 DEF L, Tallies
  <2>5. r.tally = t /\ r.next = None
    BY <2>3, <2>4
  <2>6. t.last_vote_weight[u] = VoteWeight(t, stk, isp, u)
    BY <2>2 DEF L, new
  <2> HIDE DEF r
  <2>7. /\ Sound(r.tally, X, e, c) /\ r.next \in {proxy[u], None}
        /\ r.tally.last_vote_weight = t.last_vote_weight /\ r.tally.proxied = t.proxied
    BY <2>5
  <2> QED BY <2>6, <2>7 DEF r, Once
<1> QED BY <1>9, <1>10, <1>11

(* The votes that a tally adds up are not negative. *)
LEMMA VotesNat ==
  ASSUME NEW X \in SUBSET Accounts, NEW e, NEW c \in [Producers -> Nat], NEW t, Sound(t, X, e, c), NEW p \in Producers
  PROVE  t.votes[p] \in Nat
<1> DEFINE S == {u \in X : p \in choice[u]}
           z == SumFunctionOnSet(t.last_vote_weight, S)
<1>1. S \in SUBSET Accounts /\ IsFiniteSet(S)
  BY VotingSetsAssumption, FS_Subset
<1>2. t.last_vote_weight \in [Accounts -> Int] /\ \A a \in Accounts : t.last_vote_weight[a] >= 0
  BY DEF Sound, Tallies
<1>3. z \in Nat
  BY <1>1, <1>2, SumNat
<1>4. t.votes[p] = z + c[p] /\ c[p] \in Nat
  BY DEF Sound
<1> QED BY <1>3, <1>4

(* One call of propagate_weight_change *)
LEMMA OnceFair ==
  ASSUME RowTypes, ProxyInv, NEW X \in SUBSET Accounts, NEW e \in [Accounts -> Nat],
         NEW c \in [Producers -> Nat], NEW t, Sound(t, X, e, c), FairNow(t),
         NEW stk \in [Accounts -> Nat], NEW isp \in [Accounts -> BOOLEAN], NEW u \in X
  PROVE  FairNow(PropagateOnce(t, stk, isp, u).tally)
<1> DEFINE new == VoteWeight(t, stk, isp, u)
           delta == new - t.last_vote_weight[u]
           moves == Abs(delta) > 1
           deltas == [p \in choice[u] |-> delta]
           s == CASE moves /\ proxy[u] # None -> [t EXCEPT !.proxied[proxy[u]] = @ + delta]
                  [] moves /\ proxy[u] = None -> ApplyDeltas(t, deltas)
                  [] OTHER -> t
           r == [s EXCEPT !.last_vote_weight[u] = new]
<1>0. ProxyTypes /\ NoProxyCycle /\ now \in Times /\ u \in Accounts /\ choice[u] \subseteq registered
      /\ proxy[u] \in Accounts \cup {None}
  BY DEF ProxyInv, RowTypes, NoProxyCycle, ProxyTypes
<1>1. new \in Int
  <2>1. new \in Evens
    BY <1>0, WeightCast
  <2> QED BY <2>1, EvenNumbers
<1>2. /\ t \in Tallies /\ t.last_vote_weight \in [Accounts -> Int] /\ t.proxied \in [Accounts -> Int]
  BY DEF Sound, Tallies
<1>3. PropagateOnce(t, stk, isp, u).tally = r
  BY DEF PropagateOnce
<1>4. Sound(r, X, e, c)
  BY <1>0, <1>3, OnceSound
<1>5. delta \in Int
  BY <1>0, <1>1, <1>2
<1> HIDE DEF new, delta, moves, deltas, s
<1>6. s \in Tallies => r \in Tallies /\ r.votes = s.votes /\ r.share = s.share /\ r.updated = s.updated
         /\ r.rate = s.rate /\ r.total_share = s.total_share /\ r.total_updated = s.total_updated
  BY <1>0, <1>1 DEF Tallies
<1>7. CASE moves /\ proxy[u] # None
  <2>1. s = [t EXCEPT !.proxied[proxy[u]] = @ + delta] /\ proxy[u] \in Accounts
    BY <1>0, <1>7 DEF s
  <2>2. s \in Tallies /\ s.votes = t.votes /\ s.share = t.share /\ s.updated = t.updated
         /\ s.rate = t.rate /\ s.total_share = t.total_share /\ s.total_updated = t.total_updated
    BY <1>2, <1>5, <2>1 DEF Tallies
  <2> HIDE DEF r
  <2>3. FairNow(r)
    BY <1>6, <2>2, SameFair
  <2> QED BY <1>3, <2>3
<1>8. CASE moves /\ proxy[u] = None
  <2>1. s = ApplyDeltas(t, deltas)
    BY <1>8 DEF s
  <2> DEFINE D == choice[u]
  <2>2. D \in SUBSET registered /\ deltas \in [D -> Int]
    BY <1>0, <1>5 DEF deltas
  <2> HIDE DEF D
  <2>3. s \in Tallies /\ \A p \in Producers : s.votes[p] = t.votes[p] + (IF p \in D THEN deltas[p] ELSE 0)
    <3>1. t \in Tallies
      BY <1>2
    <3>2. LET q == ApplyDeltas(t, deltas)
          IN  q \in Tallies /\ \A p \in Producers : q.votes[p] = t.votes[p] + (IF p \in D THEN deltas[p] ELSE 0)
      BY <2>2, <3>1, DeltasApplied
    <3> QED BY <2>1, <3>2
  <2> HIDE DEF r
  <2>4. \A p \in Producers : s.votes[p] \in Nat
    BY <1>4, <1>6, <2>3, VotesNat, SMTT(30)
  <2>5. \A p \in D : t.votes[p] + deltas[p] >= 0
    BY <2>2, <2>3, <2>4 DEF RowTypes
  <2>6. FairNow(s)
    BY <2>1, <2>2, <2>5, DeltasFair DEF FairNow
  <2>7. FairNow(r)
    BY <1>6, <2>3, <2>6, SameFair
  <2> QED BY <1>3, <2>7
<1>9. CASE ~moves
  <2>1. s = t
    BY <1>9 DEF s
  <2> HIDE DEF r
  <2>2. FairNow(r)
    BY <1>2, <1>6, <2>1, SameFair
  <2> QED BY <1>3, <2>2
<1> QED BY <1>7, <1>8, <1>9

-----------------------------------------------------------------------------
(* The recursion of propagate_weight_change *)

(* The recursive function that propagate_weight_change is defined by *)
Walks(g, t, stk, isp, v) ==
  g = [n \in 0 .. Cardinality(Accounts) |->
        IF n = 0 THEN [tally |-> t, next |-> v]
        ELSE LET w == g[n - 1]
             IN  IF w.next = None THEN w ELSE PropagateOnce(w.tally, stk, isp, w.next)]

(* What propagate_weight_change is by its definition. *)
LEMMA WalkDef ==
  ASSUME NEW t, NEW stk, NEW isp, NEW v
  PROVE  propagate_weight_change(t, stk, isp, v) =
           (CHOOSE g : Walks(g, t, stk, isp, v))[Cardinality(Accounts)].tally
BY DEF propagate_weight_change, Walks

(* A function as the recursion asks for exists when its steps stay in a set W. *)
LEMMA WalkExists ==
  ASSUME NEW t, NEW stk, NEW isp, NEW v, NEW W, [tally |-> t, next |-> v] \in W,
         \A w \in W : (IF w.next = None THEN w ELSE PropagateOnce(w.tally, stk, isp, w.next)) \in W
  PROVE  LET g == CHOOSE g : Walks(g, t, stk, isp, v) IN Walks(g, t, stk, isp, v)
<1> DEFINE F == [w \in W |-> IF w.next = None THEN w ELSE PropagateOnce(w.tally, stk, isp, w.next)]
           a == [tally |-> t, next |-> v]
           N == Cardinality(Accounts)
<1>1. F \in [W -> W] /\ a \in W
  OBVIOUS
<1>2. N \in Nat
  BY VotingSetsAssumption, FS_CardinalityType
<1>3. \A w \in W : F[w] = IF w.next = None THEN w ELSE PropagateOnce(w.tally, stk, isp, w.next)
  OBVIOUS
<1> HIDE DEF F, a, N
<1>40. PICK g : Iterates(g, W, F, a, N)
  BY <1>1, <1>2, IterationExists
<1>4. g \in [0 .. N -> W] /\ g[0] = a /\ \A n \in 1 .. N : g[n] = F[g[n - 1]]
  BY <1>40 DEF Iterates
<1> DEFINE Step(w) == IF w.next = None THEN w ELSE PropagateOnce(w.tally, stk, isp, w.next)
<1>5. ASSUME NEW n \in 0 .. N
      PROVE  g[n] = IF n = 0 THEN a ELSE Step(g[n - 1])
  <2>1. CASE n = 0
    BY <1>4, <2>1
  <2>2. CASE n # 0
    <3>1. n \in 1 .. N /\ n - 1 \in 0 .. N
      BY <1>2, <2>2
    <3>2. g[n - 1] \in W /\ g[n] = F[g[n - 1]]
      BY <1>4, <3>1
    <3>3. F[g[n - 1]] = Step(g[n - 1])
      BY <1>3, <3>2
    <3> QED BY <2>2, <3>2, <3>3
  <2> QED BY <2>1, <2>2
<1> HIDE DEF Step
<1>6. g = [n \in 0 .. N |-> IF n = 0 THEN a ELSE Step(g[n - 1])]
  BY <1>4, <1>5
<1>7. Walks(g, t, stk, isp, v)
  BY <1>6 DEF Walks, N, a, Step
<1> QED BY <1>7

(* The accounts that following proxies from A can reach are in A. *)
Closed(A) == A \in SUBSET Accounts /\ \A a \in A : proxy[a] \in A \cup {None}

(* What a cast vote of a weighed at some time since, see CastIsCurrent. *)
Current(t, stk, isp, a) ==
  HasVote(a) => \E s \in 0 .. now :
    t.last_vote_weight[a] = stk[a] * Weight[s] + (IF isp[a] THEN t.proxied[a] ELSE 0)

(* Outside A nothing changes, and who has a stake and a weight keeps a weight. *)
Touches(t, r, stk, A) ==
  /\ \A a \in Accounts \ A : /\ r.last_vote_weight[a] = t.last_vote_weight[a]
                             /\ r.proxied[a] = t.proxied[a]
  /\ \A a \in Accounts : t.last_vote_weight[a] > 0 /\ stk[a] > 0 => r.last_vote_weight[a] > 0

(* One step of the walk: only the account it goes on with may not be current. *)
LEMMA OnceCurrent ==
  ASSUME RowTypes, ProxyInv, NEW X \in SUBSET Accounts, NEW e \in [Accounts -> Nat],
         NEW c \in [Producers -> Nat], NEW t, Sound(t, X, e, c),
         NEW stk \in [Accounts -> Nat], NEW isp \in [Accounts -> BOOLEAN],
         NEW A \in SUBSET X, Closed(A), NEW t0, Touches(t0, t, stk, A),
         NEW u \in A, \A a \in X \ {u} : Current(t, stk, isp, a)
  PROVE  LET r == PropagateOnce(t, stk, isp, u)
         IN  /\ r \in [tally : Tallies, next : A \cup {None}]
             /\ Touches(t0, r.tally, stk, A)
             /\ \A a \in X : a = r.next \/ Current(r.tally, stk, isp, a)
<1> DEFINE r == PropagateOnce(t, stk, isp, u)
           new == VoteWeight(t, stk, isp, u)
<1>1. /\ Sound(r.tally, X, e, c) /\ r.next \in {proxy[u], None}
      /\ r.tally.last_vote_weight[u] = new
      /\ \A x \in Accounts \ {u} : r.tally.last_vote_weight[x] = t.last_vote_weight[x]
      /\ \A x \in Accounts : r.next # x => r.tally.proxied[x] = t.proxied[x]
  <2>1. u \in X
    OBVIOUS
  <2>3. /\ Sound(PropagateOnce(t, stk, isp, u).tally, X, e, c)
        /\ Once(t, PropagateOnce(t, stk, isp, u), stk, isp, u)
    BY <2>1, OnceSound
  <2> QED BY <2>3 DEF Once
<1>2. r = [tally |-> r.tally, next |-> r.next]
  BY DEF PropagateOnce
<1>3. /\ None \notin Accounts /\ u \in Accounts /\ ProxyTypes /\ NoProxyCycle /\ now \in Times
      /\ t.last_vote_weight \in [Accounts -> Int] /\ stk[u] \in Nat
  BY VotingSetsAssumption DEF ProxyInv, RowTypes, Sound, Tallies
<1>4. new = stk[u] * Weight[now] + (IF isp[u] THEN t.proxied[u] ELSE 0)
  BY DEF VoteWeight, stake2vote
<1>5. new \in Int /\ new >= stk[u]
  BY <1>3, WeightCast, EvenNumbers
<1> HIDE DEF r, new
<1>6. r.tally \in Tallies /\ r.next \in A \cup {None}
  BY <1>1 DEF Sound, Closed
<1>7. r \in [tally : Tallies, next : A \cup {None}]
  BY <1>2, <1>6
<1>8. r.tally.last_vote_weight[u] = new /\ \A a \in Accounts \ {u} : r.tally.last_vote_weight[a] = t.last_vote_weight[a]
  BY <1>1, <1>3
<1>9. Touches(t0, r.tally, stk, A)
  <2>1. \A a \in Accounts \ A : a # u /\ r.next # a
    BY <1>3, <1>6
  <2>2. ASSUME NEW a \in Accounts, t0.last_vote_weight[a] > 0, stk[a] > 0
        PROVE  r.tally.last_vote_weight[a] > 0
    <3>1. CASE a = u
      BY <1>3, <1>5, <1>8, <2>2, <3>1
    <3>2. CASE a # u
      BY <1>8, <2>2, <3>2 DEF Touches
    <3> QED BY <3>1, <3>2
  <2> QED BY <1>1, <1>8, <2>1, <2>2 DEF Touches
<1>10. proxy[u] # u
  <2>1. {u} \in SUBSET Accounts /\ {u} # {}
    BY <1>3
  <2>2. PICK a \in {u} : proxy[a] \notin {u}
    BY <1>3, <2>1 DEF NoProxyCycle
  <2> QED BY <2>2
<1>11. ASSUME NEW a \in X, a # r.next
       PROVE  Current(r.tally, stk, isp, a)
  <2>0. r.tally.proxied[a] = t.proxied[a] /\ a \in Accounts
    BY <1>1, <1>11
  <2>1. CASE a = u
    <3>1. r.tally.last_vote_weight[a] = stk[a] * Weight[now] + (IF isp[a] THEN r.tally.proxied[a] ELSE 0)
      BY <1>4, <1>8, <2>0, <2>1
    <3>2. now \in 0 .. now
      BY <1>3 DEF Times
    <3> QED BY <3>1, <3>2 DEF Current
  <2>2. CASE a # u
    <3>1. Current(t, stk, isp, a)
      BY <2>2
    <3>2. r.tally.last_vote_weight[a] = t.last_vote_weight[a]
      BY <1>8, <2>0, <2>2
    <3> QED BY <2>0, <3>1, <3>2 DEF Current
  <2> QED BY <2>1, <2>2
<1> QED BY <1>7, <1>9, <1>11 DEF r

(* Following the proxy of v leads into a smaller set, as nothing leads back to v. *)
LEMMA ClosedAhead ==
  ASSUME ProxyInv, NEW A, Closed(A), NEW v \in A
  PROVE  \E B \in SUBSET (A \ {v}) :
           /\ Closed(B) /\ proxy[v] \in B \cup {None}
           /\ Cardinality(A) \in Nat /\ Cardinality(B) \in Nat /\ Cardinality(B) + 1 <= Cardinality(A)
<1> DEFINE Back == {a \in A : \A C \in SUBSET A : Closed(C) /\ a \in C => v \in C}
           B == A \ Back
<1>0. NoProxyCycle /\ A \in SUBSET Accounts /\ None \notin Accounts /\ v \in Back
      /\ \A a \in A : proxy[a] \in A \cup {None}
  BY VotingSetsAssumption DEF ProxyInv, Closed
<1>1. ASSUME NEW a \in B
      PROVE  proxy[a] \in B \cup {None}
  <2>1. PICK C \in SUBSET A : Closed(C) /\ a \in C /\ v \notin C
    OBVIOUS
  <2>2. proxy[a] \in C \cup {None}
    BY <2>1 DEF Closed
  <2> QED BY <2>1, <2>2
<1>2. ASSUME NEW a \in Back, a # v
      PROVE  proxy[a] \in Back
  <2>1. CASE proxy[a] = None
    <3>1. Closed({a}) /\ {a} \in SUBSET A
      BY <1>0, <2>1 DEF Closed
    <3> QED BY <1>2, <3>1
  <2>2. CASE proxy[a] # None
    <3> SUFFICES ASSUME proxy[a] \notin Back PROVE FALSE
      OBVIOUS
    <3>1. proxy[a] \in A
      BY <1>0, <2>2
    <3>2. PICK C \in SUBSET A : Closed(C) /\ proxy[a] \in C /\ v \notin C
      BY <3>1
    <3>3. Closed(C \cup {a}) /\ C \cup {a} \in SUBSET A
      BY <1>0, <3>2 DEF Closed
    <3>4. a \in C \cup {a} /\ v \notin C \cup {a}
      BY <1>2, <3>2
    <3> QED BY <3>3, <3>4
  <2> QED BY <2>1, <2>2
<1>3. proxy[v] \notin Back
  <2>1. Back \in SUBSET Accounts /\ Back # {}
    BY <1>0
  <2> HIDE DEF Back
  <2>2. PICK a \in Back : proxy[a] \notin Back
    BY <1>0, <2>1 DEF NoProxyCycle
  <2>3. a = v
    BY <1>2, <2>2
  <2> QED BY <2>2, <2>3
<1>4. B \in SUBSET (A \ {v}) /\ Closed(B) /\ proxy[v] \in B \cup {None}
  BY <1>0, <1>1, <1>3 DEF Closed
<1> HIDE DEF B, Back
<1>5. IsFiniteSet(A) /\ IsFiniteSet(A \ {v}) /\ Cardinality(A) \in Nat
      /\ Cardinality(A \ {v}) = Cardinality(A) - 1
  BY <1>0, VotingSetsAssumption, FS_Subset, FS_RemoveElement, FS_CardinalityType
<1>6. Cardinality(B) <= Cardinality(A \ {v}) /\ Cardinality(B) \in Nat
  BY <1>4, <1>5, FS_Subset, FS_CardinalityType
<1>7. Cardinality(B) + 1 <= Cardinality(A)
  BY <1>5, <1>6
<1> QED BY <1>4, <1>5, <1>6, <1>7

(* propagate_weight_change for v keeps the tally adding up, reaches only accounts
   that proxies lead to from v, and leaves every vote current: it does not stop
   before the proxies end. *)
LEMMA PropagateSound ==
  ASSUME RowTypes, ProxyInv, NEW X \in SUBSET Accounts, NEW e \in [Accounts -> Nat],
         NEW c \in [Producers -> Nat], NEW t, Sound(t, X, e, c),
         NEW stk \in [Accounts -> Nat], NEW isp \in [Accounts -> BOOLEAN],
         NEW A \in SUBSET X, Closed(A), NEW v \in A,
         \A a \in X \ {v} : Current(t, stk, isp, a)
  PROVE  /\ Sound(propagate_weight_change(t, stk, isp, v), X, e, c)
         /\ Touches(t, propagate_weight_change(t, stk, isp, v), stk, A)
         /\ \A a \in X : Current(propagate_weight_change(t, stk, isp, v), stk, isp, a)
         /\ FairNow(t) => FairNow(propagate_weight_change(t, stk, isp, v))
<1> DEFINE Good(w) == /\ Sound(w.tally, X, e, c) /\ Touches(t, w.tally, stk, A)
                      /\ FairNow(t) => FairNow(w.tally)
                      /\ \A a \in X : a = w.next \/ Current(w.tally, stk, isp, a)
           W == {w \in [tally : Tallies, next : A \cup {None}] : Good(w)}
           Step(w) == IF w.next = None THEN w ELSE PropagateOnce(w.tally, stk, isp, w.next)
           g == CHOOSE g : Walks(g, t, stk, isp, v)
           N == Cardinality(Accounts)
           Ends(n) == \/ g[n].next = None
                      \/ \E B \in SUBSET Accounts :
                           Closed(B) /\ g[n].next \in B /\ Cardinality(B) \in Nat /\ Cardinality(B) + n <= N
<1>0. N \in Nat /\ None \notin Accounts /\ A \in SUBSET Accounts /\ t \in Tallies
  BY VotingSetsAssumption, FS_CardinalityType DEF Sound
<1>1. [tally |-> t, next |-> v] \in W
  <2>1. Touches(t, t, stk, A)
    BY DEF Touches
  <2> QED BY <1>0, <2>1
<1>2. ASSUME NEW w \in W, w.next # None
      PROVE  PropagateOnce(w.tally, stk, isp, w.next) \in W
  <2> DEFINE s == w.tally
             u == w.next
             r == PropagateOnce(s, stk, isp, u)
  <2>1. u \in A /\ Sound(s, X, e, c) /\ Touches(t, s, stk, A) /\ (\A a \in X \ {u} : Current(s, stk, isp, a))
        /\ (FairNow(t) => FairNow(s))
    BY <1>2
  <2> HIDE DEF s, u
  <2>2. u \in X
    BY <2>1
  <2>3. Sound(r.tally, X, e, c)
    BY <2>1, <2>2, OnceSound
  <2>4. /\ r \in [tally : Tallies, next : A \cup {None}]
        /\ Touches(t, r.tally, stk, A)
        /\ \A a \in X : a = r.next \/ Current(r.tally, stk, isp, a)
    BY <2>1, OnceCurrent
  <2>5. FairNow(t) => FairNow(r.tally)
    BY <2>1, <2>2, OnceFair
  <2>6. r \in W
    BY <2>3, <2>4, <2>5
  <2> QED BY <2>6 DEF s, u
<1>3. \A w \in W : Step(w) \in W
  BY <1>2
<1>4. Walks(g, t, stk, isp, v)
  <2> HIDE DEF W
  <2>1. \A w \in W : (IF w.next = None THEN w ELSE PropagateOnce(w.tally, stk, isp, w.next)) \in W
    BY <1>3
  <2>2. LET h == CHOOSE h : Walks(h, t, stk, isp, v) IN Walks(h, t, stk, isp, v)
    BY ONLY <1>1, <2>1, WalkExists
  <2> QED BY <2>2
<1> HIDE DEF g
<1>5. g[0] = [tally |-> t, next |-> v] /\ \A n \in 0 .. N : n # 0 => g[n] = Step(g[n - 1])
  BY <1>0, <1>4 DEF Walks
<1> HIDE DEF W, N, Step
<1> DEFINE T == {n \in Nat : n <= N => g[n] \in W /\ Ends(n)}
<1>6. 0 \in T
  <2>1. Closed(Accounts) /\ Accounts \in SUBSET Accounts /\ v \in Accounts
    BY <1>0 DEF Closed, ProxyInv, ProxyTypes
  <2>2. g[0].next = v /\ N + 0 <= N /\ N = Cardinality(Accounts)
    BY <1>0, <1>5 DEF N
  <2>3. Ends(0)
    BY <1>0, <2>1, <2>2
  <2> QED BY <1>1, <1>5, <2>3
<1>7. ASSUME NEW n \in Nat, n \in T
      PROVE  n + 1 \in T
  <2> SUFFICES ASSUME n + 1 <= N PROVE g[n + 1] \in W /\ Ends(n + 1)
    OBVIOUS
  <2>1. n <= N /\ n + 1 \in 0 .. N /\ n + 1 # 0 /\ (n + 1) - 1 = n
    BY <1>0
  <2>2. g[n] \in W /\ Ends(n)
    BY <1>7, <2>1
  <2>3. g[n + 1] = Step(g[n])
    BY <1>5, <2>1
  <2>4. g[n + 1] \in W
    BY <1>3, <2>2, <2>3
  <2>5. CASE g[n].next = None
    BY <2>3, <2>4, <2>5 DEF Step
  <2>6. CASE g[n].next # None
    <3> DEFINE s == g[n].tally
               u == g[n].next
    <3>1. u \in A /\ Sound(s, X, e, c)
      BY <2>2, <2>6 DEF W
    <3>2. PICK B \in SUBSET Accounts : Closed(B) /\ u \in B /\ Cardinality(B) \in Nat /\ Cardinality(B) + n <= N
      BY <2>2, <2>6
    <3>3. g[n + 1] = PropagateOnce(s, stk, isp, u)
      BY <2>3, <2>6 DEF Step
    <3> HIDE DEF s, u
    <3>4. g[n + 1].next \in {proxy[u], None}
      <4>1. u \in X
        BY <3>1
      <4>2. Once(s, PropagateOnce(s, stk, isp, u), stk, isp, u)
        BY <3>1, <4>1, OnceSound
      <4> QED BY <3>3, <4>2 DEF Once
    <3>5. PICK C \in SUBSET (B \ {u}) : /\ Closed(C) /\ proxy[u] \in C \cup {None}
             /\ Cardinality(B) \in Nat /\ Cardinality(C) \in Nat /\ Cardinality(C) + 1 <= Cardinality(B)
      BY <3>2, ClosedAhead
    <3>6. Cardinality(C) + (n + 1) <= N
      BY <1>0, <3>2, <3>5
    <3>7. C \in SUBSET Accounts /\ Closed(C) /\ Cardinality(C) \in Nat
      BY <3>2, <3>5
    <3>8. g[n + 1].next = None \/ g[n + 1].next \in C
      BY <3>4, <3>5
    <3>9. Ends(n + 1)
      BY <3>6, <3>7, <3>8
    <3> QED BY <2>4, <3>9
  <2> QED BY <2>5, <2>6
<1>8. N \in T
  <2> HIDE DEF T
  <2> QED BY <1>0, <1>6, <1>7, NumberInduction
<1>9. g[N].next = None
  <2>1. ASSUME NEW B \in SUBSET Accounts, g[N].next \in B, Cardinality(B) \in Nat, Cardinality(B) + N <= N
        PROVE  FALSE
    <3>1. Cardinality(B) = 0 /\ IsFiniteSet(B)
      BY <1>0, <2>1, VotingSetsAssumption, FS_Subset
    <3>2. B = {}
      BY <3>1, FS_EmptySet
    <3> QED BY <2>1, <3>2
  <2>2. Ends(N)
    BY <1>0, <1>8
  <2> QED BY <2>1, <2>2
<1>10. g[N] \in W
  BY <1>0, <1>8
<1>11. propagate_weight_change(t, stk, isp, v) = g[N].tally
  BY WalkDef DEF g, N
<1>12. Good(g[N]) /\ \A a \in X : a # g[N].next
  BY <1>0, <1>9, <1>10 DEF W
<1> QED BY <1>11, <1>12

-----------------------------------------------------------------------------
(* update_votes *)

(* The tally with y as what the proxy x holds *)
Holding(t, x, y) == [t EXCEPT !.proxied[x] = y]

(* The extra weights f differ from e by d for x. *)
Shifts(e, f, x, d) == f[x] = e[x] + d /\ \A a \in Accounts \ {x} : f[a] = e[a]

(* What a proxy holds is changed and the change propagated from it. *)
LEMMA ChangeSound ==
  ASSUME RowTypes, ProxyInv, NEW X \in SUBSET Accounts, NEW e \in [Accounts -> Nat],
         NEW c \in [Producers -> Nat], NEW t, Sound(t, X, e, c),
         NEW stk \in [Accounts -> Nat], \A a \in X : Current(t, stk, is_proxy, a),
         NEW A \in SUBSET X, Closed(A), NEW x \in A, NEW y \in Evens, NEW f \in [Accounts -> Nat],
         Shifts(e, f, x, y - t.proxied[x]), NEW r, r = propagate_weight_change(Holding(t, x, y), stk, is_proxy, x)
  PROVE  /\ Sound(r, X, f, c) /\ Touches(t, r, stk, A) /\ \A a \in X : Current(r, stk, is_proxy, a)
         /\ FairNow(t) => FairNow(r)
<1> DEFINE s == Holding(t, x, y)
<1>0. x \in Accounts /\ y \in Int /\ is_proxy \in [Accounts -> BOOLEAN]
  BY EvenNumbers DEF ProxyInv, ProxyTypes
<1>1. t \in Tallies /\ t.proxied \in [Accounts -> Int]
  BY DEF Sound, Tallies
<1>2. /\ s \in Tallies /\ s.last_vote_weight = t.last_vote_weight /\ s.votes = t.votes
      /\ s.total_weight = t.total_weight /\ s.proxied[x] = y
      /\ \A a \in Accounts \ {x} : s.proxied[a] = t.proxied[a]
      /\ s.share = t.share /\ s.updated = t.updated /\ s.rate = t.rate
      /\ s.total_share = t.total_share /\ s.total_updated = t.total_updated
  BY <1>0, <1>1 DEF Tallies, Holding
<1> HIDE DEF s
<1>3. ASSUME NEW a \in Accounts
      PROVE  /\ s.proxied[a] \in Evens
             /\ s.proxied[a] = SumFunctionOnSet(s.last_vote_weight, {u \in X : proxy[u] = a}) + f[a]
  <2> DEFINE z == SumFunctionOnSet(t.last_vote_weight, {u \in X : proxy[u] = a})
  <2>1. t.proxied[a] = z + e[a] /\ e[a] \in Nat /\ t.proxied[a] \in Int
    BY <1>1 DEF Sound
  <2>2. z \in Int
    <3>1. {u \in X : proxy[u] = a} \in SUBSET Accounts /\ IsFiniteSet({u \in X : proxy[u] = a})
      BY VotingSetsAssumption, FS_Subset
    <3>2. t.last_vote_weight \in [Accounts -> Int]
      BY <1>1 DEF Tallies
    <3> QED BY <3>1, <3>2, SumType
  <2> HIDE DEF z
  <2>3. s.proxied[a] \in Evens
    BY <1>2 DEF Sound
  <2>4. s.proxied[a] = z + f[a]
    BY <1>0, <1>2, <2>1, <2>2 DEF Shifts
  <2> QED BY <1>2, <2>3, <2>4 DEF z
<1>4. Sound(s, X, f, c)
  BY <1>2, <1>3 DEF Sound
<1>5. \A a \in X \ {x} : Current(s, stk, is_proxy, a)
  BY <1>2 DEF Current
<1>6. /\ Sound(propagate_weight_change(s, stk, is_proxy, x), X, f, c)
      /\ Touches(s, propagate_weight_change(s, stk, is_proxy, x), stk, A)
      /\ \A a \in X : Current(propagate_weight_change(s, stk, is_proxy, x), stk, is_proxy, a)
      /\ FairNow(s) => FairNow(propagate_weight_change(s, stk, is_proxy, x))
  BY <1>0, <1>4, <1>5, PropagateSound
<1>7. r = propagate_weight_change(s, stk, is_proxy, x)
  BY DEF s
<1>8. Touches(t, r, stk, A)
  BY <1>2, <1>6, <1>7 DEF Touches
<1>9. FairNow(t) => FairNow(r)
  BY <1>2, <1>6, <1>7, SameFair
<1> QED BY <1>6, <1>7, <1>8, <1>9

(* Extra weights: w for the proxy x, or for every producer of S. *)
HeldBy(x, w) == [a \in Accounts |-> IF a = x THEN w ELSE 0]
GivenTo(S, w) == [p \in Producers |-> IF p \in S THEN w ELSE 0]

(* Extra weights are numbers. *)
LEMMA ExtraTypes ==
  ASSUME NEW x, NEW S, NEW w \in Nat
  PROVE  HeldBy(x, w) \in [Accounts -> Nat] /\ GivenTo(S, w) \in [Producers -> Nat]
BY DEF HeldBy, GivenTo

(* The set of accounts that proxies lead to from the proxy of v; v is not in it. *)
LEMMA AheadOf ==
  ASSUME ProxyInv, NEW v \in Accounts
  PROVE  \E A \in SUBSET (Accounts \ {v}) : Closed(A) /\ proxy[v] \in A \cup {None}
<1>1. Closed(Accounts)
  BY DEF Closed, ProxyInv, ProxyTypes
<1> QED BY <1>1, ClosedAhead

(* UndoProxy takes the weight of v from its proxy. *)
LEMMA UndoSound ==
  ASSUME RowTypes, ProxyInv, NEW v \in Accounts, NEW c \in [Producers -> Nat], NEW t,
         Sound(t, Accounts \ {v}, HeldBy(proxy[v], t.last_vote_weight[v]), c),
         NEW stk \in [Accounts -> Nat], \A a \in Accounts \ {v} : Current(t, stk, is_proxy, a),
         NEW r, r = UndoProxy(t, stk, v)
  PROVE  /\ Sound(r, Accounts \ {v}, HeldBy(None, 0), c)
         /\ Touches(t, r, stk, Accounts \ {v})
         /\ \A a \in Accounts \ {v} : Current(r, stk, is_proxy, a)
         /\ FairNow(t) => FairNow(r)
<1> DEFINE w == t.last_vote_weight[v]
           X == Accounts \ {v}
           e == HeldBy(proxy[v], w)
           f == HeldBy(None, 0)
<1>0. /\ t \in Tallies /\ w \in Evens /\ w \in Nat /\ None \notin Accounts /\ proxy[v] \in Accounts \cup {None}
  <2>1. w \in Evens /\ w >= 0 /\ t \in Tallies
    BY DEF Sound
  <2>2. w \in Int
    BY <2>1, EvenNumbers
  <2> QED BY <2>1, <2>2, VotingSetsAssumption DEF ProxyInv, ProxyTypes
<1>1. e \in [Accounts -> Nat] /\ f \in [Accounts -> Nat] /\ \A a \in Accounts : f[a] = 0
  BY <1>0, ExtraTypes, VotingSetsAssumption DEF HeldBy
<1>2. CASE w > 0 /\ proxy[v] # None
  <2> DEFINE x == proxy[v]
             y == t.proxied[x] - w
  <2>1. PICK A \in SUBSET X : Closed(A) /\ x \in A
    BY <1>2, AheadOf
  <2>2. e[x] = w /\ \A a \in Accounts \ {x} : e[a] = 0
    BY <1>0, <1>2 DEF HeldBy
  <2>3. t.proxied[x] \in Evens /\ x \in Accounts
    BY <1>0, <1>2 DEF Sound
  <2>4. y \in Evens
    BY <1>0, <2>3, EvenNumbers
  <2>5. f[x] = e[x] + (y - t.proxied[x])
    <3>1. t.proxied[x] \in Int
      BY <2>3, EvenNumbers
    <3> QED BY <1>0, <1>1, <2>2, <2>3, <3>1
  <2>6. r = propagate_weight_change(Holding(t, x, y), stk, is_proxy, x)
    BY <1>2 DEF UndoProxy, Holding
  <2>7. Sound(t, X, e, c) /\ X \in SUBSET Accounts /\ \A a \in X : Current(t, stk, is_proxy, a)
    OBVIOUS
  <2>8. Shifts(e, f, x, y - t.proxied[x])
    BY <1>1, <2>2, <2>5 DEF Shifts
  <2> HIDE DEF X, e, f, x, y
  <2>9. /\ Sound(r, X, f, c) /\ Touches(t, r, stk, A) /\ \A a \in X : Current(r, stk, is_proxy, a)
        /\ FairNow(t) => FairNow(r)
    BY <1>1, <2>1, <2>4, <2>6, <2>7, <2>8, ChangeSound
  <2>10. Touches(t, r, stk, X)
    BY <2>1, <2>9 DEF Touches
  <2> QED BY <2>9, <2>10 DEF X, f
<1>3. CASE ~(w > 0 /\ proxy[v] # None)
  <2>1. r = t
    BY <1>3 DEF UndoProxy
  <2>2. \A a \in Accounts : e[a] = 0
    BY <1>0, <1>3 DEF HeldBy
  <2>3. e = f
    BY <1>1, <2>2
  <2> QED BY <2>1, <2>3 DEF Touches
<1> QED BY <1>2, <1>3

(* AddProxy gives the weight to the new proxy, from which v is not reached. *)
LEMMA AddSound ==
  ASSUME RowTypes, ProxyInv, NEW v \in Accounts, NEW c \in [Producers -> Nat], NEW t,
         Sound(t, Accounts \ {v}, HeldBy(None, 0), c),
         NEW stk \in [Accounts -> Nat], \A a \in Accounts \ {v} : Current(t, stk, is_proxy, a),
         NEW px \in Accounts \cup {None}, px # v, px # None => proxy[px] = None \/ px = proxy[v],
         NEW w \in Evens, w >= 0, NEW r, r = AddProxy(t, stk, px, w)
  PROVE  /\ Sound(r, Accounts \ {v}, HeldBy(px, w), c)
         /\ Touches(t, r, stk, Accounts \ {v})
         /\ \A a \in Accounts \ {v} : Current(r, stk, is_proxy, a)
         /\ FairNow(t) => FairNow(r)
<1> DEFINE X == Accounts \ {v}
           e == HeldBy(None, 0)
           f == HeldBy(px, w)
<1>0. t \in Tallies /\ w \in Nat /\ None \notin Accounts
  BY EvenNumbers, VotingSetsAssumption DEF Sound
<1>1. e \in [Accounts -> Nat] /\ f \in [Accounts -> Nat] /\ \A a \in Accounts : e[a] = 0
  BY <1>0, ExtraTypes DEF HeldBy
<1>2. CASE px # None
  <2> DEFINE y == t.proxied[px] + w
  <2>1. PICK A \in SUBSET X : Closed(A) /\ px \in A
    <3>1. CASE proxy[px] = None
      <4>1. Closed({px}) /\ {px} \in SUBSET X
        BY <1>2, <3>1 DEF Closed
      <4> QED BY <4>1
    <3>2. CASE px = proxy[v]
      BY <1>2, <3>2, AheadOf
    <3> QED BY <1>2, <3>1, <3>2
  <2>2. f[px] = w /\ \A a \in Accounts \ {px} : f[a] = 0
    BY <1>0, <1>2 DEF HeldBy
  <2>3. t.proxied[px] \in Evens /\ px \in Accounts
    BY <1>0, <1>2 DEF Sound
  <2>4. y \in Evens
    BY <1>0, <2>3, EvenNumbers
  <2>5. f[px] = e[px] + (y - t.proxied[px])
    <3>1. t.proxied[px] \in Int
      BY <2>3, EvenNumbers
    <3> QED BY <1>0, <1>1, <2>2, <2>3, <3>1
  <2>6. r = propagate_weight_change(Holding(t, px, y), stk, is_proxy, px)
    BY <1>2 DEF AddProxy, Holding
  <2>7. Sound(t, X, e, c) /\ X \in SUBSET Accounts /\ \A a \in X : Current(t, stk, is_proxy, a)
    OBVIOUS
  <2>8. Shifts(e, f, px, y - t.proxied[px])
    BY <1>1, <2>2, <2>5 DEF Shifts
  <2> HIDE DEF X, e, f, y
  <2>9. /\ Sound(r, X, f, c) /\ Touches(t, r, stk, A) /\ \A a \in X : Current(r, stk, is_proxy, a)
        /\ FairNow(t) => FairNow(r)
    BY <1>1, <2>1, <2>4, <2>6, <2>7, <2>8, ChangeSound
  <2>10. Touches(t, r, stk, X)
    BY <2>1, <2>9 DEF Touches
  <2> QED BY <2>9, <2>10 DEF X, f
<1>3. CASE px = None
  <2>1. r = t
    BY <1>3 DEF AddProxy
  <2>2. e = f
    BY <1>0, <1>3 DEF HeldBy
  <2> QED BY <2>1, <2>2 DEF Touches
<1> QED BY <1>2, <1>3

(* delta takes w0 from the producers of S and gives w to those of ps. *)
Replaces(delta, D, S, w0, ps, w) ==
  /\ ps \subseteq D
  /\ \A p \in D : delta[p] = (IF p \in ps THEN w ELSE 0) - (IF p \in S THEN w0 ELSE 0)
  /\ \A p \in S \ D : w0 = 0

(* The deltas take the weight w0 of v from the producers S it voted for and give
   its new weight to ps; total_votes needs no correction to zero. *)
LEMMA DeltasSound ==
  ASSUME RowTypes, ProxyInv, NEW v \in Accounts, NEW w0 \in Nat, NEW S \in SUBSET registered,
         NEW e, NEW t, Sound(t, Accounts \ {v}, e, GivenTo(S, w0)),
         NEW ps \in SUBSET registered, NEW w \in Nat, NEW D \in SUBSET registered,
         NEW delta \in [D -> Int], Replaces(delta, D, S, w0, ps, w), NEW r, r = NonNegative(ApplyDeltas(t, delta), D)
  PROVE  /\ Sound(r, Accounts \ {v}, e, GivenTo(ps, w))
         /\ r.last_vote_weight = t.last_vote_weight /\ r.proxied = t.proxied
         /\ FairNow(t) => FairNow(r)
<1> DEFINE q == ApplyDeltas(t, delta)
           X == Accounts \ {v}
           c == GivenTo(S, w0)
           d == GivenTo(ps, w)
<1>0. t \in Tallies /\ t.last_vote_weight \in [Accounts -> Int] /\ t.votes \in [Producers -> Int]
      /\ \A a \in Accounts : t.last_vote_weight[a] >= 0
  BY DEF Sound, Tallies
<1>1. /\ q \in Tallies
      /\ q.last_vote_weight = t.last_vote_weight /\ q.proxied = t.proxied
      /\ \A p \in Producers : q.votes[p] = t.votes[p] + (IF p \in D THEN delta[p] ELSE 0)
      /\ t.total_weight = SumFunction(t.votes) => q.total_weight = SumFunction(q.votes)
  BY <1>0, DeltasApplied
<1> HIDE DEF q
<1>2. ASSUME NEW p \in Producers
      PROVE  /\ q.votes[p] = SumFunctionOnSet(t.last_vote_weight, {u \in X : p \in choice[u]}) + d[p]
             /\ q.votes[p] >= 0
  <2> DEFINE z == SumFunctionOnSet(t.last_vote_weight, {u \in X : p \in choice[u]})
  <2>1. z \in Nat
    <3>1. {u \in X : p \in choice[u]} \in SUBSET Accounts /\ IsFiniteSet({u \in X : p \in choice[u]})
      BY VotingSetsAssumption, FS_Subset
    <3> QED BY <1>0, <3>1, SumNat
  <2>2. t.votes[p] = z + c[p] /\ c[p] = (IF p \in S THEN w0 ELSE 0) /\ d[p] = (IF p \in ps THEN w ELSE 0)
    BY DEF Sound, GivenTo
  <2> HIDE DEF z, c, d
  <2>3. q.votes[p] = z + d[p]
    <3>1. CASE p \in D
      BY <1>1, <2>1, <2>2, <3>1 DEF Replaces
    <3>2. CASE p \notin D
      BY <1>1, <2>1, <2>2, <3>2 DEF Replaces
    <3> QED BY <3>1, <3>2
  <2> QED BY <2>1, <2>2, <2>3 DEF z
<1>3. r = q
  <2>1. [p \in Producers |-> IF p \in D /\ q.votes[p] < 0 THEN 0 ELSE q.votes[p]] = q.votes
    <3>1. q.votes \in [Producers -> Int]
      BY <1>1 DEF Tallies
    <3>2. \A p \in Producers : q.votes[p] >= 0
      BY <1>2
    <3>3. \A p \in Producers : (IF p \in D /\ q.votes[p] < 0 THEN 0 ELSE q.votes[p]) = q.votes[p]
      BY <3>1, <3>2
    <3> QED BY ONLY <3>1, <3>3
  <2>2. r = [q EXCEPT !.votes = q.votes]
    BY <2>1 DEF NonNegative, q
  <2> QED BY <1>1, <2>2 DEF Tallies
<1>4. Sound(q, X, e, d)
  <2> HIDE DEF d
  <2> QED BY <1>1, <1>2 DEF Sound
<1>5. FairNow(t) => FairNow(q)
  <2>1. \A p \in D : t.votes[p] + delta[p] >= 0
    BY <1>1, <1>2 DEF RowTypes
  <2> QED BY <2>1, DeltasFair DEF FairNow, q
<1> QED BY <1>1, <1>3, <1>4, <1>5

(* The deltas that update_votes applies are the ones of the last lemma. *)
LEMMA DeltasAre ==
  ASSUME ProxyInv, NEW v \in Accounts, NEW t, NEW w0 \in Nat, t.last_vote_weight[v] = w0,
         NEW ps \in SUBSET registered, NEW w \in Nat,
         NEW delta, delta = ProducerDeltas(t, v, ps, w), NEW D, D = DOMAIN delta
  PROVE  D \in SUBSET registered /\ delta \in [D -> Int] /\ Replaces(delta, D, choice[v], w0, ps, w)
<1> DEFINE old == IF w0 > 0 /\ proxy[v] = None THEN choice[v] ELSE {}
<1>1. delta = [p \in old \cup ps |-> (IF p \in old THEN -w0 ELSE 0) + (IF p \in ps THEN w ELSE 0)]
  BY DEF ProducerDeltas
<1>2. choice[v] \subseteq registered /\ (proxy[v] # None => choice[v] = {})
  BY DEF ProxyInv, NoProxyCycle
<1>3. (old = choice[v] /\ w0 > 0) \/ (old = {} /\ (w0 = 0 \/ choice[v] = {}))
  BY <1>2
<1>4. D = old \cup ps /\ delta \in [old \cup ps -> Int] /\ old \cup ps \in SUBSET registered
  BY <1>1, <1>2, <1>3
<1>5. ASSUME NEW p \in old \cup ps
      PROVE  delta[p] = (IF p \in ps THEN w ELSE 0) - (IF p \in choice[v] THEN w0 ELSE 0)
  <2>1. delta[p] = (IF p \in old THEN -w0 ELSE 0) + (IF p \in ps THEN w ELSE 0)
    BY <1>1
  <2> HIDE DEF old
  <2> QED BY <1>3, <2>1
<1>6. \A p \in choice[v] \ (old \cup ps) : w0 = 0
  BY <1>3
<1> QED BY <1>4, <1>5, <1>6 DEF Replaces

(* The tally adds up for the given proxies and producers of all accounts. *)
AddsUp(t, pr, ch) ==
  /\ t \in Tallies
  /\ \A u \in Accounts : /\ t.last_vote_weight[u] \in Evens /\ t.last_vote_weight[u] >= 0
                         /\ t.proxied[u] \in Evens
  /\ \A x \in Accounts :
       t.proxied[x] = SumFunctionOnSet(t.last_vote_weight, {u \in Accounts : pr[u] = x})
  /\ \A p \in Producers :
       t.votes[p] = SumFunctionOnSet(t.last_vote_weight, {u \in Accounts : p \in ch[u]})
  /\ t.total_weight = SumFunction(t.votes)

(* The weight of v is part of a sum or not. *)
LEMMA SumApart ==
  ASSUME NEW L \in [Accounts -> Int], NEW v \in Accounts, NEW S \in SUBSET Accounts,
         NEW T \in SUBSET Accounts, S \ {v} = T
  PROVE  /\ SumFunctionOnSet(L, T) \in Int
         /\ SumFunctionOnSet(L, S) = SumFunctionOnSet(L, T) + (IF v \in S THEN L[v] ELSE 0)
<1>1. IsFiniteSet(S) /\ IsFiniteSet(T)
  BY VotingSetsAssumption, FS_Subset
<1>2. SumFunctionOnSet(L, T) \in Int /\ L[v] \in Int
  BY <1>1, SumType
<1>3. CASE v \in S
  <2>1. SumFunctionOnSet(L, S) = L[v] + SumFunctionOnSet(L, S \ {v})
    BY <1>1, <1>3, SumRemove
  <2>2. S \ {v} = T
    OBVIOUS
  <2>3. SumFunctionOnSet(L, S) = L[v] + SumFunctionOnSet(L, T)
    BY ONLY <2>1, <2>2
  <2> QED BY <1>2, <1>3, <2>3
<1>4. CASE v \notin S
  <2>1. S = T
    BY <1>4
  <2> QED BY <1>2, <1>4, <2>1
<1> QED BY <1>3, <1>4

(* Taken apart: the votes of everybody else, and the weight of v. *)
LEMMA Apart ==
  ASSUME ProxyTypes, NEW v \in Accounts, NEW t, AddsUp(t, proxy, choice)
  PROVE  Sound(t, Accounts \ {v}, HeldBy(proxy[v], t.last_vote_weight[v]),
                                  GivenTo(choice[v], t.last_vote_weight[v]))
<1> DEFINE X == Accounts \ {v}
           L == t.last_vote_weight
           e == HeldBy(proxy[v], L[v])
           c == GivenTo(choice[v], L[v])
<1>1. L \in [Accounts -> Int]
  BY DEF AddsUp, Tallies
<1>2. ASSUME NEW x \in Accounts
      PROVE  t.proxied[x] = SumFunctionOnSet(L, {u \in X : proxy[u] = x}) + e[x]
  <2> DEFINE S == {u \in Accounts : proxy[u] = x}
             T == {u \in X : proxy[u] = x}
  <2>1. S \in SUBSET Accounts /\ T \in SUBSET Accounts /\ S \ {v} = T /\ (v \in S <=> proxy[v] = x)
    OBVIOUS
  <2>2. t.proxied[x] = SumFunctionOnSet(L, S) /\ e[x] = (IF proxy[v] = x THEN L[v] ELSE 0)
    BY DEF AddsUp, HeldBy
  <2> HIDE DEF S, T, L, e
  <2>3. SumFunctionOnSet(L, S) = SumFunctionOnSet(L, T) + (IF v \in S THEN L[v] ELSE 0)
    BY <1>1, <2>1, SumApart
  <2>4. t.proxied[x] = SumFunctionOnSet(L, T) + e[x]
    BY ONLY <2>1, <2>2, <2>3
  <2> QED BY <2>4 DEF T
<1>3. ASSUME NEW p \in Producers
      PROVE  t.votes[p] = SumFunctionOnSet(L, {u \in X : p \in choice[u]}) + c[p]
  <2> DEFINE S == {u \in Accounts : p \in choice[u]}
             T == {u \in X : p \in choice[u]}
  <2>1. S \in SUBSET Accounts /\ T \in SUBSET Accounts /\ S \ {v} = T /\ (v \in S <=> p \in choice[v])
    OBVIOUS
  <2>2. t.votes[p] = SumFunctionOnSet(L, S) /\ c[p] = (IF p \in choice[v] THEN L[v] ELSE 0)
    BY DEF AddsUp, GivenTo
  <2> HIDE DEF S, T, L, c
  <2>3. SumFunctionOnSet(L, S) = SumFunctionOnSet(L, T) + (IF v \in S THEN L[v] ELSE 0)
    BY <1>1, <2>1, SumApart
  <2>4. t.votes[p] = SumFunctionOnSet(L, T) + c[p]
    BY ONLY <2>1, <2>2, <2>3
  <2> QED BY <2>4 DEF T
<1> QED BY <1>2, <1>3 DEF AddsUp, Sound

(* Put together: v has voted for px or ps with its weight. *)
LEMMA Joined ==
  ASSUME NEW v \in Accounts, NEW px, NEW ps, NEW t,
         Sound(t, Accounts \ {v}, HeldBy(px, t.last_vote_weight[v]), GivenTo(ps, t.last_vote_weight[v])),
         NEW pr, NEW ch, pr[v] = px, ch[v] = ps,
         \A u \in Accounts \ {v} : pr[u] = proxy[u] /\ ch[u] = choice[u]
  PROVE  AddsUp(t, pr, ch)
<1> DEFINE X == Accounts \ {v}
           L == t.last_vote_weight
           e == HeldBy(px, L[v])
           c == GivenTo(ps, L[v])
<1>1. L \in [Accounts -> Int]
  BY DEF Sound, Tallies
<1>2. ASSUME NEW x \in Accounts
      PROVE  t.proxied[x] = SumFunctionOnSet(L, {u \in Accounts : pr[u] = x})
  <2> DEFINE S == {u \in Accounts : pr[u] = x}
             T == {u \in X : proxy[u] = x}
  <2>1. S \in SUBSET Accounts /\ T \in SUBSET Accounts /\ S \ {v} = T /\ (v \in S <=> px = x)
    OBVIOUS
  <2>2. t.proxied[x] = SumFunctionOnSet(L, T) + e[x] /\ e[x] = (IF px = x THEN L[v] ELSE 0)
    BY DEF Sound, HeldBy
  <2> HIDE DEF S, T, L, e
  <2>3. SumFunctionOnSet(L, S) = SumFunctionOnSet(L, T) + (IF v \in S THEN L[v] ELSE 0)
    BY <1>1, <2>1, SumApart
  <2>4. t.proxied[x] = SumFunctionOnSet(L, S)
    BY ONLY <2>1, <2>2, <2>3
  <2> QED BY <2>4 DEF S
<1>3. ASSUME NEW p \in Producers
      PROVE  t.votes[p] = SumFunctionOnSet(L, {u \in Accounts : p \in ch[u]})
  <2> DEFINE S == {u \in Accounts : p \in ch[u]}
             T == {u \in X : p \in choice[u]}
  <2>1. S \in SUBSET Accounts /\ T \in SUBSET Accounts /\ S \ {v} = T /\ (v \in S <=> p \in ps)
    OBVIOUS
  <2>2. t.votes[p] = SumFunctionOnSet(L, T) + c[p] /\ c[p] = (IF p \in ps THEN L[v] ELSE 0)
    BY DEF Sound, GivenTo
  <2> HIDE DEF S, T, L, c
  <2>3. SumFunctionOnSet(L, S) = SumFunctionOnSet(L, T) + (IF v \in S THEN L[v] ELSE 0)
    BY <1>1, <2>1, SumApart
  <2>4. t.votes[p] = SumFunctionOnSet(L, S)
    BY ONLY <2>1, <2>2, <2>3
  <2> QED BY <2>4 DEF S
<1> QED BY <1>2, <1>3 DEF AddsUp, Sound

(* What a vote weighs that was cast or changed now *)
CastNow(t, stk, v) ==
  t.last_vote_weight[v] = stk[v] * Weight[now] + (IF is_proxy[v] THEN t.proxied[v] ELSE 0)

(* Who has a stake and a weight keeps a weight, and a voter with a stake has one. *)
KeepsWeight(t, r, stk, v) ==
  \A a \in Accounts : (a = v \/ t.last_vote_weight[a] > 0) /\ stk[a] > 0 => r.last_vote_weight[a] > 0

(* What update_votes promises of the tally r that it leaves: v votes for px or ps,
   the votes of everybody else stay current, and the shares keep adding up. *)
Recast(t, r, stk, v, px, ps) ==
  /\ Sound(r, Accounts \ {v}, HeldBy(px, r.last_vote_weight[v]), GivenTo(ps, r.last_vote_weight[v]))
  /\ CastNow(r, stk, v)
  /\ \A a \in Accounts \ {v} : Current(r, stk, is_proxy, a)
  /\ KeepsWeight(t, r, stk, v)
  /\ FairNow(t) => FairNow(r)

(* update_votes: whatever v voted for before, the tally then adds up with the new
   vote of v, which is current, and the votes of everybody else stay current. *)
LEMMA VotesRecast ==
  ASSUME RowTypes, ProxyInv, NEW v \in Accounts, NEW t, AddsUp(t, proxy, choice),
         NEW stk \in [Accounts -> Nat], \A a \in Accounts \ {v} : Current(t, stk, is_proxy, a),
         NEW px \in Accounts \cup {None}, px # v, px # None => proxy[px] = None \/ px = proxy[v],
         NEW ps \in SUBSET registered, NEW r, r = update_votes(t, stk, v, px, ps)
  PROVE  Recast(t, r, stk, v, px, ps)
<1> DEFINE X == Accounts \ {v}
           w0 == t.last_vote_weight[v]
           w == VoteWeight(t, stk, is_proxy, v)
           c == GivenTo(choice[v], w0)
           d == GivenTo(ps, w)
           t1 == UndoProxy(t, stk, v)
           t2 == AddProxy(t1, stk, px, w)
           delta == ProducerDeltas(t, v, ps, w)
           t3 == NonNegative(ApplyDeltas(t2, delta), DOMAIN delta)
<1>0. /\ ProxyTypes /\ now \in Times /\ registered \subseteq Producers /\ X \in SUBSET Accounts
      /\ is_proxy \in [Accounts -> BOOLEAN] /\ choice[v] \subseteq registered
  BY DEF ProxyInv, ProxyTypes, NoProxyCycle, RowTypes
<1>1. Sound(t, X, HeldBy(proxy[v], w0), c)
  BY <1>0, Apart
<1>2. w0 \in Nat /\ w0 \in Evens
  <2>1. w0 \in Evens /\ w0 >= 0
    BY DEF AddsUp
  <2>2. w0 \in Int
    BY <2>1, EvenNumbers
  <2> HIDE DEF w0
  <2> QED BY <2>1, <2>2
<1>3. w \in Evens /\ w >= stk[v] /\ w \in Nat /\ stk[v] \in Nat
  <2>1. HeldBy(proxy[v], w0) \in [Accounts -> Nat]
    BY <1>2, ExtraTypes
  <2> HIDE DEF w0, c, X
  <2>2. w \in Evens /\ w >= stk[v] /\ stk[v] \in Nat
    BY <1>0, <1>1, <2>1, WeightCast
  <2>3. w \in Int
    BY <2>2, EvenNumbers
  <2> HIDE DEF w
  <2> QED BY <2>2, <2>3
<1>4. c \in [Producers -> Nat]
  BY <1>2, ExtraTypes
<1> HIDE DEF w, c
<1>5. /\ Sound(t1, X, HeldBy(None, 0), c) /\ Touches(t, t1, stk, X)
      /\ \A a \in X : Current(t1, stk, is_proxy, a)
      /\ FairNow(t) => FairNow(t1)
  BY <1>1, <1>4, UndoSound
<1> HIDE DEF t1
<1>6. /\ Sound(t2, X, HeldBy(px, w), c) /\ Touches(t1, t2, stk, X)
      /\ \A a \in X : Current(t2, stk, is_proxy, a)
      /\ FairNow(t1) => FairNow(t2)
  <2>1. t2 = AddProxy(t1, stk, px, w)
    OBVIOUS
  <2>2. w \in Evens /\ w >= 0
    BY <1>3
  <2> HIDE DEF t2
  <2> QED BY <1>4, <1>5, <2>1, <2>2, AddSound
<1> HIDE DEF t2
<1>7. /\ DOMAIN delta \in SUBSET registered /\ delta \in [DOMAIN delta -> Int]
      /\ Replaces(delta, DOMAIN delta, choice[v], w0, ps, w)
  <2> DEFINE D == DOMAIN delta
  <2>1. D = DOMAIN delta /\ delta = ProducerDeltas(t, v, ps, w) /\ t.last_vote_weight[v] = w0
    OBVIOUS
  <2> HIDE DEF D, delta, w0
  <2>2. D \in SUBSET registered /\ delta \in [D -> Int] /\ Replaces(delta, D, choice[v], w0, ps, w)
    BY <1>2, <1>3, <2>1, DeltasAre
  <2> QED BY <2>2 DEF D
<1>8. /\ Sound(t3, X, HeldBy(px, w), d) /\ t3.last_vote_weight = t2.last_vote_weight
      /\ t3.proxied = t2.proxied /\ (FairNow(t2) => FairNow(t3))
  <2> DEFINE D == DOMAIN delta
             e == HeldBy(px, w)
             S == choice[v]
  <2>1. S \in SUBSET registered /\ Sound(t2, Accounts \ {v}, e, GivenTo(S, w0))
    BY <1>0, <1>6 DEF c
  <2>2. t3 = NonNegative(ApplyDeltas(t2, delta), D)
    OBVIOUS
  <2>3. D \in SUBSET registered /\ delta \in [D -> Int] /\ Replaces(delta, D, S, w0, ps, w)
    BY <1>7
  <2> HIDE DEF D, e, S, delta, t3, w0
  <2>4. /\ Sound(t3, Accounts \ {v}, e, GivenTo(ps, w))
        /\ t3.last_vote_weight = t2.last_vote_weight /\ t3.proxied = t2.proxied
        /\ FairNow(t2) => FairNow(t3)
    BY <1>2, <1>3, <2>1, <2>2, <2>3, DeltasSound, SMTT(30)
  <2> QED BY <2>4 DEF e
<1>9. r = [t3 EXCEPT !.last_vote_weight[v] = w]
  BY DEF update_votes, w, t1, t2
<1> HIDE DEF t3, delta, d
<1> DEFINE M == [t3.last_vote_weight EXCEPT ![v] = w]
<1>10. t3 \in Tallies /\ t3.last_vote_weight \in [Accounts -> Int]
  BY <1>8 DEF Sound, Tallies
<1>11. /\ M \in [Accounts -> Int] /\ M[v] = w /\ \A a \in X : M[a] = t3.last_vote_weight[a]
  BY <1>3, <1>10
<1>12. /\ r \in Tallies /\ r.last_vote_weight = M /\ r.proxied = t3.proxied /\ r.votes = t3.votes
       /\ r.total_weight = t3.total_weight /\ r.share = t3.share /\ r.updated = t3.updated
       /\ r.rate = t3.rate /\ r.total_share = t3.total_share /\ r.total_updated = t3.total_updated
  <2>1. r = [t3 EXCEPT !.last_vote_weight = M]
    BY <1>9, <1>10 DEF Tallies
  <2> HIDE DEF M
  <2> QED BY <1>10, <1>11, <2>1 DEF Tallies
<1> HIDE DEF M
<1>13. ASSUME NEW S \in SUBSET X
       PROVE  SumFunctionOnSet(M, S) = SumFunctionOnSet(t3.last_vote_weight, S)
  <2>1. S \in SUBSET Accounts /\ S \subseteq Accounts /\ IsFiniteSet(S) /\ \A a \in S : t3.last_vote_weight[a] = M[a]
    BY <1>11, VotingSetsAssumption, FS_Subset
  <2> QED BY ONLY <1>10, <1>11, <2>1, SumSame
<1>14. Sound(r, X, HeldBy(px, w), d)
  <2>1. \A u \in Accounts : M[u] \in Evens /\ M[u] >= 0 /\ t3.proxied[u] \in Evens
    <3>1. ASSUME NEW u \in Accounts
          PROVE  M[u] \in Evens /\ M[u] >= 0 /\ t3.proxied[u] \in Evens
      <4>1. CASE u = v
        BY <1>3, <1>8, <1>11, <4>1 DEF Sound
      <4>2. CASE u # v
        BY <1>8, <1>11, <4>2 DEF Sound
      <4> QED BY <4>1, <4>2
    <3> QED BY <3>1
  <2>2. ASSUME NEW x \in Accounts
        PROVE  t3.proxied[x] = SumFunctionOnSet(M, {u \in X : proxy[u] = x}) + HeldBy(px, w)[x]
    <3> DEFINE S == {u \in X : proxy[u] = x}
    <3>1. t3.proxied[x] = SumFunctionOnSet(t3.last_vote_weight, S) + HeldBy(px, w)[x]
      BY <1>8 DEF Sound
    <3>2. SumFunctionOnSet(M, S) = SumFunctionOnSet(t3.last_vote_weight, S)
      <4>1. S \in SUBSET X
        OBVIOUS
      <4> HIDE DEF S
      <4> QED BY <1>13, <4>1
    <3> QED BY ONLY <3>1, <3>2
  <2>3. ASSUME NEW p \in Producers
        PROVE  t3.votes[p] = SumFunctionOnSet(M, {u \in X : p \in choice[u]}) + d[p]
    <3> DEFINE S == {u \in X : p \in choice[u]}
    <3>1. t3.votes[p] = SumFunctionOnSet(t3.last_vote_weight, S) + d[p]
      BY <1>8 DEF Sound
    <3>2. SumFunctionOnSet(M, S) = SumFunctionOnSet(t3.last_vote_weight, S)
      <4>1. S \in SUBSET X
        OBVIOUS
      <4> HIDE DEF S
      <4> QED BY <1>13, <4>1
    <3> QED BY ONLY <3>1, <3>2
  <2>4. t3.total_weight = SumFunction(t3.votes)
    BY <1>8 DEF Sound
  <2> QED BY <1>12, <2>1, <2>2, <2>3, <2>4 DEF Sound
<1>15. CastNow(r, stk, v)
  <2>1. w = stk[v] * Weight[now] + (IF is_proxy[v] THEN t.proxied[v] ELSE 0)
    BY DEF w, VoteWeight, stake2vote
  <2>2. t1.proxied[v] = t.proxied[v] /\ t2.proxied[v] = t1.proxied[v]
    BY <1>5, <1>6 DEF Touches
  <2>3. r.proxied[v] = t.proxied[v] /\ r.last_vote_weight[v] = w
    BY <1>8, <1>11, <1>12, <2>2
  <2> QED BY <2>1, <2>3 DEF CastNow
<1>16. \A a \in X : r.last_vote_weight[a] = t2.last_vote_weight[a] /\ r.proxied[a] = t2.proxied[a]
  BY <1>8, <1>11, <1>12
<1>17. \A a \in X : Current(r, stk, is_proxy, a)
  BY <1>6, <1>16 DEF Current
<1>18. ASSUME NEW a \in Accounts, a = v \/ t.last_vote_weight[a] > 0, stk[a] > 0
       PROVE  r.last_vote_weight[a] > 0
  <2>1. CASE a = v
    BY <1>3, <1>11, <1>12, <1>18, <2>1
  <2>2. CASE a # v
    BY <1>5, <1>6, <1>16, <1>18, <2>2 DEF Touches
  <2> QED BY <2>1, <2>2
<1>19. r.last_vote_weight[v] = w
  BY <1>11, <1>12
<1>20. FairNow(t) => FairNow(r)
  BY <1>5, <1>6, <1>8, <1>12, SameFair
<1> QED BY <1>14, <1>15, <1>17, <1>18, <1>19, <1>20 DEF Recast, KeepsWeight, d

(* The parts of that promise *)
LEMMA VotesUpdated ==
  ASSUME RowTypes, ProxyInv, NEW v \in Accounts, NEW t, AddsUp(t, proxy, choice),
         NEW stk \in [Accounts -> Nat], \A a \in Accounts \ {v} : Current(t, stk, is_proxy, a),
         NEW px \in Accounts \cup {None}, px # v, px # None => proxy[px] = None \/ px = proxy[v],
         NEW ps \in SUBSET registered, NEW r, r = update_votes(t, stk, v, px, ps)
  PROVE  /\ Sound(r, Accounts \ {v}, HeldBy(px, r.last_vote_weight[v]), GivenTo(ps, r.last_vote_weight[v]))
         /\ CastNow(r, stk, v)
         /\ \A a \in Accounts \ {v} : Current(r, stk, is_proxy, a)
         /\ KeepsWeight(t, r, stk, v)
<1>1. Recast(t, r, stk, v, px, ps)
  BY VotesRecast
<1> QED BY <1>1 DEF Recast

(* update_votes keeps the shares. *)
LEMMA VotesFair ==
  ASSUME RowTypes, ProxyInv, NEW v \in Accounts, NEW t, AddsUp(t, proxy, choice), FairNow(t),
         NEW stk \in [Accounts -> Nat], \A a \in Accounts \ {v} : Current(t, stk, is_proxy, a),
         NEW px \in Accounts \cup {None}, px # v, px # None => proxy[px] = None \/ px = proxy[v],
         NEW ps \in SUBSET registered, NEW r, r = update_votes(t, stk, v, px, ps)
  PROVE  FairNow(r)
<1>1. Recast(t, r, stk, v, px, ps)
  BY VotesRecast
<1> QED BY <1>1 DEF Recast

-----------------------------------------------------------------------------
(* Steps *)

(* The invariant of the votes: the tally adds up, votes are current, and who has
   a vote has voted. *)
VotesInv ==
  /\ VotingTypeOK
  /\ ProxyInv
  /\ AddsUp(tally, proxy, choice)
  /\ \A a \in Accounts : Current(tally, staked, is_proxy, a)
  /\ \A a \in Accounts : HasVote(a) => a \in voted

(* The parts of the invariant that the lemmas above need *)
LEMMA InvParts ==
  ASSUME VotesInv
  PROVE  /\ RowTypes /\ ProxyInv /\ ProxyTypes /\ NoProxyCycle /\ AddsUp(tally, proxy, choice)
         /\ tally \in Tallies /\ staked \in [Accounts -> Nat] /\ is_proxy \in [Accounts -> BOOLEAN]
         /\ \A a \in Accounts : Current(tally, staked, is_proxy, a)
BY DEF VotesInv, VotingTypeOK, RowTypes, ProxyInv

(* Initially nobody has voted and all weights are zero. *)
LEMMA VotesBegin == VotingInit => VotesInv
<1> SUFFICES ASSUME VotingInit PROVE VotesInv
  OBVIOUS
<1>0. /\ IsFiniteSet(Accounts) /\ IsFiniteSet(Producers) /\ None \notin Accounts /\ None \notin Int
      /\ Legacy \subseteq Producers /\ MaxTime \in Nat /\ ClaimWindow \in Nat
  BY VotingSetsAssumption, TimeAssumption
<1>1. VotingTypeOK
  <2>1. 0 \in Times /\ InitTally \in Tallies
    BY <1>0 DEF InitTally, Tallies, Times
  <2> QED BY <1>0, <2>1 DEF VotingInit, VotingTypeOK, Times
<1>2. ProxyInv
  BY <1>0 DEF VotingInit, ProxyInv, ProxyTypes, NoProxyCycle
<1> DEFINE z == [v \in Accounts |-> 0]
           y == [p \in Producers |-> 0]
<1>3. /\ tally.last_vote_weight = z /\ tally.proxied = z /\ tally.votes = y /\ tally.total_weight = 0
      /\ tally \in Tallies
  BY <1>1 DEF VotingInit, InitTally, VotingTypeOK
<1>4. z \in [Accounts -> Int] /\ (\A v \in Accounts : z[v] = 0) /\ y \in [Producers -> Int]
      /\ (\A p \in Producers : y[p] = 0) /\ DOMAIN y = Producers
  OBVIOUS
<1> HIDE DEF z, y
<1>5. \A x \in Accounts : {u \in Accounts : proxy[u] = x} = {}
  BY <1>0 DEF VotingInit
<1>6. \A p \in Producers : {u \in Accounts : p \in choice[u]} = {}
  BY DEF VotingInit
<1>7. SumFunctionOnSet(z, {}) = 0 /\ SumFunctionOnSet(y, {}) = 0
  BY <1>4, SumEmpty
<1>8. SumFunction(y) = 0
  <2>1. SumFunctionOnSet(y, Producers) = SumFunctionOnSet(y, {})
    BY <1>0, <1>4, SumZeros
  <2> QED BY <1>4, <1>7, <2>1 DEF SumFunction
<1>9. AddsUp(tally, proxy, choice)
  <2>1. \A u \in Accounts : z[u] \in Evens /\ z[u] >= 0
    BY <1>4, EvenNumbers
  <2>2. \A x \in Accounts : z[x] = SumFunctionOnSet(z, {u \in Accounts : proxy[u] = x})
    BY <1>4, <1>5, <1>7
  <2>3. \A p \in Producers : y[p] = SumFunctionOnSet(z, {u \in Accounts : p \in choice[u]})
    BY <1>4, <1>6, <1>7
  <2> QED BY <1>3, <1>8, <2>1, <2>2, <2>3 DEF AddsUp
<1>10. \A a \in Accounts : ~HasVote(a)
  BY DEF VotingInit, HasVote
<1> QED BY <1>1, <1>2, <1>9, <1>10 DEF VotesInv, Current

(* The activated stake and the time of activation are of their types. *)
LEMMA ActivateTypes ==
  ASSUME VotesInv, NEW stk \in [Accounts -> Nat], NEW v \in Accounts, Activate(stk, v)
  PROVE  activated' \in Nat /\ thresh' \in Times \cup {None}
<1>1. activated \in Nat /\ thresh \in Times \cup {None} /\ now \in Times /\ stk[v] \in Nat
  BY DEF VotesInv, VotingTypeOK
<1>2. ActivatedBy(stk, v) \in Nat
  BY <1>1 DEF ActivatedBy
<1> QED BY <1>1, <1>2 DEF Activate

(* The shares in the new tally, when claims, rows and the clock stay *)
LEMMA SameRows ==
  ASSUME now' = now, rows2' = rows2, claimed' = claimed, FairNow(tally')
  PROVE  FairNow(tally)'
<1>1. FairNow(tally)' = Fair(tally', claimed', rows2', now')
  BY DEF FairNow, Fair, Rates, Shares, Accrued, Earns
<1> QED BY <1>1 DEF FairNow

(* voteproducer *)
LEMMA VoteInv ==
  ASSUME VotesInv, NEW v \in Accounts, NEW px \in Accounts \cup {None}, NEW ps \in SUBSET Producers,
         NEW growth \in Int, staked[v] + growth \in Nat, voteproducer(v, px, ps, growth)
  PROVE  VotesInv' /\ KeepsWeight(tally, tally', staked', v) /\ (FairNow(tally) => FairNow(tally)')
<1>0. /\ RowTypes /\ ProxyInv /\ ProxyTypes /\ NoProxyCycle /\ AddsUp(tally, proxy, choice)
      /\ tally \in Tallies /\ staked \in [Accounts -> Nat] /\ is_proxy \in [Accounts -> BOOLEAN]
      /\ \A a \in Accounts : Current(tally, staked, is_proxy, a)
  BY InvParts
<1>1. /\ v \in voters /\ VoteAllowed(v, px, ps, TRUE)
      /\ staked' = [staked EXCEPT ![v] = @ + growth]
      /\ tally' = update_votes(tally, staked', v, px, ps)
      /\ Activate(staked', v)
      /\ proxy' = [proxy EXCEPT ![v] = px] /\ choice' = [choice EXCEPT ![v] = ps]
      /\ voted' = voted \cup {v}
      /\ now' = now /\ voters' = voters /\ is_proxy' = is_proxy
      /\ registered' = registered /\ active' = active /\ rows2' = rows2 /\ claimed' = claimed
  BY DEF voteproducer, prodVars
<1>2. ProxyInv'
  BY <1>0, ProxyVote
<1>3. staked' \in [Accounts -> Nat] /\ \A a \in Accounts \ {v} : staked'[a] = staked[a]
  BY <1>0, <1>1
<1>4. /\ proxy'[v] = px /\ choice'[v] = ps
      /\ \A u \in Accounts \ {v} : proxy'[u] = proxy[u] /\ choice'[u] = choice[u]
  BY <1>0, <1>1 DEF ProxyTypes
<1>5. /\ px # v /\ (px # None => proxy[px] = None \/ px = proxy[v]) /\ ps \in SUBSET registered
  BY <1>0, <1>1, VotingSetsAssumption DEF VoteAllowed, ProxyTypes, NoProxyCycle
<1>6. \A a \in Accounts \ {v} : Current(tally, staked', is_proxy, a)
  BY <1>0, <1>3 DEF Current
<1>7. /\ Sound(tally', Accounts \ {v}, HeldBy(px, tally'.last_vote_weight[v]),
                                       GivenTo(ps, tally'.last_vote_weight[v]))
      /\ CastNow(tally', staked', v)
      /\ \A a \in Accounts \ {v} : Current(tally', staked', is_proxy, a)
      /\ KeepsWeight(tally, tally', staked', v)
      /\ FairNow(tally) => FairNow(tally')
  <2> DEFINE r == tally'
             stk == staked'
  <2>1. r = update_votes(tally, stk, v, px, ps) /\ stk \in [Accounts -> Nat]
        /\ \A a \in Accounts \ {v} : Current(tally, stk, is_proxy, a)
    BY <1>1, <1>3, <1>6
  <2> HIDE DEF r, stk
  <2>2. /\ Sound(r, Accounts \ {v}, HeldBy(px, r.last_vote_weight[v]), GivenTo(ps, r.last_vote_weight[v]))
        /\ CastNow(r, stk, v)
        /\ \A a \in Accounts \ {v} : Current(r, stk, is_proxy, a)
        /\ KeepsWeight(tally, r, stk, v)
    BY <1>0, <1>5, <2>1, VotesUpdated
  <2>3. FairNow(tally) => FairNow(r)
    BY <1>0, <1>5, <2>1, VotesFair
  <2> QED BY <2>2, <2>3 DEF r, stk
<1>8. AddsUp(tally', proxy', choice')
  BY <1>4, <1>7, Joined
<1>9. ASSUME NEW a \in Accounts
      PROVE  Current(tally, staked, is_proxy, a)'
  <2>1. CASE a = v
    <3>1. now \in 0 .. now
      BY <1>0 DEF RowTypes, Times
    <3> QED BY <1>1, <1>7, <2>1, <3>1 DEF Current, CastNow
  <2>2. CASE a # v
    <3>1. HasVote(a)' <=> HasVote(a)
      BY <1>4, <2>2 DEF HasVote
    <3>2. Current(tally', staked', is_proxy, a)
      BY <1>7, <2>2
    <3> HIDE DEF HasVote
    <3> QED BY <1>1, <3>1, <3>2 DEF Current
  <2> QED BY <2>1, <2>2
<1>10. \A a \in Accounts : HasVote(a)' => a \in voted'
  BY <1>1, <1>4 DEF HasVote, VotesInv
<1>11. VotingTypeOK'
  <2>1. activated' \in Nat /\ thresh' \in Times \cup {None}
    BY <1>1, <1>3, ActivateTypes
  <2>2. tally' \in Tallies
    BY <1>8 DEF AddsUp
  <2>3. proxy' \in [Accounts -> Accounts \cup {None}] /\ choice' \in [Accounts -> SUBSET Producers]
    BY <1>2 DEF ProxyInv, ProxyTypes
  <2> QED BY <1>1, <1>3, <2>1, <2>2, <2>3 DEF VotesInv, VotingTypeOK
<1>12. FairNow(tally) => FairNow(tally)'
  BY <1>1, <1>7, SameRows
<1> QED BY <1>2, <1>7, <1>8, <1>9, <1>10, <1>11, <1>12 DEF VotesInv

(* update_voting_power *)
LEMMA PowerInv ==
  ASSUME VotesInv, NEW v \in Accounts, NEW d \in Int, update_voting_power(v, d),
         UNCHANGED <<now, prodVars>>
  PROVE  VotesInv' /\ staked' = [staked EXCEPT ![v] = @ + d]
         /\ (HasVote(v) => KeepsWeight(tally, tally', staked', v))
         /\ (FairNow(tally) => FairNow(tally)')
<1>0. /\ RowTypes /\ ProxyInv /\ ProxyTypes /\ NoProxyCycle /\ AddsUp(tally, proxy, choice)
      /\ tally \in Tallies /\ staked \in [Accounts -> Nat] /\ is_proxy \in [Accounts -> BOOLEAN]
      /\ \A a \in Accounts : Current(tally, staked, is_proxy, a)
  BY InvParts
<1>1. /\ voters' = voters \cup {v}
      /\ staked' = [staked EXCEPT ![v] = staked[v] + d] /\ staked[v] + d >= 0
      /\ is_proxy' = is_proxy /\ proxy' = proxy /\ choice' = choice /\ voted' = voted
      /\ now' = now /\ registered' = registered /\ active' = active /\ rows2' = rows2
      /\ claimed' = claimed
  BY DEF update_voting_power, voteVars, prodVars, NewStake, StakeSuffices
<1>2. ProxyInv'
  BY <1>0, <1>1, ProxyKept DEF voteVars, ProxyTypes
<1>3. staked' \in [Accounts -> Nat] /\ \A a \in Accounts \ {v} : staked'[a] = staked[a]
  BY <1>0, <1>1
<1>4. ASSUME tally' \in Tallies, activated' \in Nat, thresh' \in Times \cup {None}
      PROVE  VotingTypeOK'
  BY <1>1, <1>3, <1>4 DEF VotesInv, VotingTypeOK
<1>5. \A a \in Accounts : HasVote(a)' => a \in voted'
  BY <1>1 DEF HasVote, VotesInv
<1>6. \A a \in Accounts \ {v} : Current(tally, staked', is_proxy, a)
  BY <1>0, <1>3 DEF Current
<1>7. CASE HasVote(v)
  <2> DEFINE px == proxy[v]
             ps == choice[v]
  <2>1. /\ VoteAllowed(v, px, ps, FALSE) /\ tally' = update_votes(tally, staked', v, px, ps)
        /\ Activate(staked', v)
    BY <1>7 DEF update_voting_power
  <2>2. px \in Accounts \cup {None} /\ px # v /\ px = proxy[v] /\ ps \in SUBSET registered
    BY <1>0, <2>1, VotingSetsAssumption DEF VoteAllowed, ProxyTypes, NoProxyCycle
  <2> HIDE DEF px, ps
  <2>3. /\ Sound(tally', Accounts \ {v}, HeldBy(px, tally'.last_vote_weight[v]),
                                         GivenTo(ps, tally'.last_vote_weight[v]))
        /\ CastNow(tally', staked', v)
        /\ \A a \in Accounts \ {v} : Current(tally', staked', is_proxy, a)
        /\ KeepsWeight(tally, tally', staked', v)
        /\ FairNow(tally) => FairNow(tally')
    <3> DEFINE r == tally'
               stk == staked'
    <3>1. r = update_votes(tally, stk, v, px, ps) /\ stk \in [Accounts -> Nat]
          /\ \A a \in Accounts \ {v} : Current(tally, stk, is_proxy, a)
      BY <1>3, <1>6, <2>1
    <3> HIDE DEF r, stk
    <3>2. /\ Sound(r, Accounts \ {v}, HeldBy(px, r.last_vote_weight[v]), GivenTo(ps, r.last_vote_weight[v]))
          /\ CastNow(r, stk, v)
          /\ \A a \in Accounts \ {v} : Current(r, stk, is_proxy, a)
          /\ KeepsWeight(tally, r, stk, v)
      BY <1>0, <2>2, <3>1, VotesUpdated
    <3>3. FairNow(tally) => FairNow(r)
      BY <1>0, <2>2, <3>1, VotesFair
    <3> QED BY <3>2, <3>3 DEF r, stk
  <2>4. AddsUp(tally', proxy, choice)
    <3>1. proxy[v] = px /\ choice[v] = ps
      BY DEF px, ps
    <3> QED BY <2>3, <3>1, Joined
  <2>5. ASSUME NEW a \in Accounts
        PROVE  Current(tally, staked, is_proxy, a)'
    <3>1. CASE a = v
      <4>1. now \in 0 .. now
        BY <1>0 DEF RowTypes, Times
      <4> QED BY <1>1, <2>3, <3>1, <4>1 DEF Current, CastNow
    <3>2. CASE a # v
      BY <1>1, <2>3, <3>2 DEF Current, HasVote
    <3> QED BY <3>1, <3>2
  <2>6. VotingTypeOK'
    <3>1. activated' \in Nat /\ thresh' \in Times \cup {None}
      BY <1>3, <2>1, ActivateTypes
    <3> QED BY <1>4, <2>4, <3>1 DEF AddsUp
  <2>7. FairNow(tally) => FairNow(tally)'
    BY <1>1, <2>3, SameRows
  <2> QED BY <1>1, <1>2, <1>5, <2>3, <2>4, <2>5, <2>6, <2>7 DEF VotesInv
<1>8. CASE ~HasVote(v)
  <2>1. tally' = tally /\ activated' = activated /\ thresh' = thresh
    BY <1>8 DEF update_voting_power
  <2>2. ASSUME NEW a \in Accounts
        PROVE  Current(tally, staked, is_proxy, a)'
    <3>1. CASE a = v
      BY <1>1, <1>8, <3>1 DEF Current, HasVote
    <3>2. CASE a # v
      BY <1>1, <1>6, <2>1, <3>2 DEF Current, HasVote
    <3> QED BY <3>1, <3>2
  <2>3. VotingTypeOK'
    BY <1>4, <2>1 DEF VotesInv, VotingTypeOK
  <2>4. FairNow(tally) => FairNow(tally)'
    BY <1>1, <2>1, SameRows
  <2> QED BY <1>0, <1>1, <1>2, <1>5, <1>8, <2>1, <2>2, <2>3, <2>4 DEF VotesInv
<1> QED BY <1>7, <1>8

(* Everybody's votes, with nothing extra *)
LEMMA AllSound ==
  ASSUME NEW t
  PROVE  AddsUp(t, proxy, choice) <=> Sound(t, Accounts, HeldBy(None, 0), GivenTo({}, 0))
<1> DEFINE e == HeldBy(None, 0)
           c == GivenTo({}, 0)
<1>1. (\A x \in Accounts : e[x] = 0) /\ (\A p \in Producers : c[p] = 0)
  BY DEF HeldBy, GivenTo
<1> HIDE DEF e, c
<1>2. ASSUME NEW S \in SUBSET Accounts, t \in Tallies
      PROVE  SumFunctionOnSet(t.last_vote_weight, S) \in Int
  <2>1. t.last_vote_weight \in [Accounts -> Int] /\ IsFiniteSet(S)
    BY <1>2, VotingSetsAssumption, FS_Subset DEF Tallies
  <2> QED BY <2>1, SumType
<1>3. ASSUME NEW x \in Accounts, t \in Tallies
      PROVE  SumFunctionOnSet(t.last_vote_weight, {u \in Accounts : proxy[u] = x}) + e[x] =
               SumFunctionOnSet(t.last_vote_weight, {u \in Accounts : proxy[u] = x})
  <2> DEFINE z == SumFunctionOnSet(t.last_vote_weight, {u \in Accounts : proxy[u] = x})
  <2>1. z \in Int
    BY <1>2, <1>3
  <2> HIDE DEF z
  <2>2. z + e[x] = z
    BY <1>1, <2>1
  <2> QED BY <2>2 DEF z
<1>4. ASSUME NEW p \in Producers, t \in Tallies
      PROVE  SumFunctionOnSet(t.last_vote_weight, {u \in Accounts : p \in choice[u]}) + c[p] =
               SumFunctionOnSet(t.last_vote_weight, {u \in Accounts : p \in choice[u]})
  <2> DEFINE z == SumFunctionOnSet(t.last_vote_weight, {u \in Accounts : p \in choice[u]})
  <2>1. z \in Int
    BY <1>2, <1>4
  <2> HIDE DEF z
  <2>2. z + c[p] = z
    BY <1>1, <2>1
  <2> QED BY <2>2 DEF z
<1> QED BY <1>3, <1>4 DEF AddsUp, Sound, e, c

(* regproxy: the account may begin or cease to cast what it holds for others. *)
LEMMA ProxyStepInv ==
  ASSUME VotesInv, NEW v \in Accounts, NEW isp \in BOOLEAN, regproxy(v, isp)
  PROVE  VotesInv' /\ Touches(tally, tally', staked, Accounts) /\ (FairNow(tally) => FairNow(tally)')
<1>0. /\ RowTypes /\ ProxyInv /\ ProxyTypes /\ NoProxyCycle /\ AddsUp(tally, proxy, choice)
      /\ tally \in Tallies /\ staked \in [Accounts -> Nat] /\ is_proxy \in [Accounts -> BOOLEAN]
      /\ \A a \in Accounts : Current(tally, staked, is_proxy, a)
  BY InvParts
<1>1. /\ is_proxy' = [is_proxy EXCEPT ![v] = isp] /\ voters' = voters \cup {v}
      /\ now' = now /\ staked' = staked /\ proxy' = proxy /\ choice' = choice
      /\ activated' = activated /\ thresh' = thresh /\ voted' = voted
      /\ registered' = registered /\ active' = active /\ rows2' = rows2 /\ claimed' = claimed
  BY DEF regproxy, prodVars
<1>2. is_proxy' \in [Accounts -> BOOLEAN] /\ \A a \in Accounts \ {v} : is_proxy'[a] = is_proxy[a]
  BY <1>0, <1>1
<1>3. ProxyInv'
  BY <1>0, ProxyRegistered
<1>4. ASSUME tally' \in Tallies
      PROVE  VotingTypeOK'
  BY <1>1, <1>2, <1>4 DEF VotesInv, VotingTypeOK
<1>5. \A a \in Accounts : HasVote(a)' => a \in voted'
  BY <1>1 DEF HasVote, VotesInv
<1>6. \A a \in Accounts \ {v} : Current(tally, staked, is_proxy', a)
  BY <1>0, <1>2 DEF Current
<1>7. CASE v \in voters
  <2> DEFINE e == HeldBy(None, 0)
             c == GivenTo({}, 0)
             r == propagate_weight_change(tally, staked, is_proxy', v)
  <2>1. tally' = r
    BY <1>7 DEF regproxy
  <2>2. /\ Sound(tally, Accounts, e, c) /\ e \in [Accounts -> Nat] /\ c \in [Producers -> Nat]
        /\ Accounts \in SUBSET Accounts /\ Closed(Accounts)
    BY <1>0, AllSound, ExtraTypes DEF Closed, ProxyTypes
  <2> HIDE DEF e, c
  <2>3. /\ Sound(r, Accounts, e, c) /\ Touches(tally, r, staked, Accounts)
        /\ \A a \in Accounts : Current(r, staked, is_proxy', a)
        /\ FairNow(tally) => FairNow(r)
    BY <1>0, <1>2, <1>6, <2>2, PropagateSound
  <2> HIDE DEF r
  <2>4. AddsUp(tally', proxy, choice)
    BY <2>1, <2>3, AllSound DEF e, c
  <2>5. \A a \in Accounts : Current(tally, staked, is_proxy, a)'
    BY <1>1, <2>1, <2>3 DEF Current, HasVote
  <2>6. VotingTypeOK'
    BY <1>4, <2>4 DEF AddsUp
  <2>7. FairNow(tally) => FairNow(tally)'
    BY <1>1, <2>1, <2>3, SameRows
  <2> QED BY <1>1, <1>3, <1>5, <2>1, <2>3, <2>4, <2>5, <2>6, <2>7 DEF VotesInv
<1>8. CASE v \notin voters
  <2>1. tally' = tally
    BY <1>8 DEF regproxy
  <2>2. v \notin voted /\ ~HasVote(v)
    BY <1>8 DEF VotesInv, VotingTypeOK
  <2>3. ASSUME NEW a \in Accounts
        PROVE  Current(tally, staked, is_proxy, a)'
    <3>1. CASE a = v
      BY <1>1, <2>2, <3>1 DEF Current, HasVote
    <3>2. CASE a # v
      BY <1>1, <1>6, <2>1, <3>2 DEF Current, HasVote
    <3> QED BY <3>1, <3>2
  <2>4. VotingTypeOK'
    BY <1>0, <1>4, <2>1
  <2>5. Touches(tally, tally', staked, Accounts)
    BY <2>1 DEF Touches
  <2>6. FairNow(tally) => FairNow(tally)'
    BY <1>1, <2>1, SameRows
  <2> QED BY <1>0, <1>1, <1>3, <1>5, <2>1, <2>3, <2>4, <2>5, <2>6 DEF VotesInv
<1> QED BY <1>7, <1>8

(* Only rows, the clock and vote-pay shares change. *)
LEMMA RowsInv ==
  ASSUME VotesInv, VotingTypeOK', UNCHANGED <<staked, voteVars>>, now <= now',
         voters \subseteq voters', registered \subseteq registered',
         tally'.last_vote_weight = tally.last_vote_weight, tally'.proxied = tally.proxied,
         tally'.votes = tally.votes, tally'.total_weight = tally.total_weight
  PROVE  VotesInv'
<1>0. /\ RowTypes /\ ProxyInv /\ AddsUp(tally, proxy, choice)
      /\ \A a \in Accounts : Current(tally, staked, is_proxy, a)
  BY InvParts
<1>1. is_proxy' = is_proxy /\ proxy' = proxy /\ choice' = choice /\ voted' = voted /\ staked' = staked
  BY DEF voteVars
<1>2. ProxyInv'
  BY <1>0, ProxyKept DEF VotingTypeOK
<1>3. AddsUp(tally', proxy, choice)
  BY <1>0 DEF AddsUp, VotingTypeOK
<1>4. 0 .. now \subseteq 0 .. now'
  BY DEF VotesInv, VotingTypeOK, Times
<1>5. \A a \in Accounts : Current(tally, staked, is_proxy, a)'
  BY <1>0, <1>1, <1>4 DEF Current, HasVote
<1>6. \A a \in Accounts : HasVote(a)' => a \in voted'
  BY <1>1 DEF HasVote, VotesInv
<1> QED BY <1>1, <1>2, <1>3, <1>5, <1>6 DEF VotesInv

(* regproducer *)
LEMMA RegisterInv ==
  ASSUME VotesInv, NEW p \in Producers, regproducer(p)
  PROVE  VotesInv' /\ tally'.last_vote_weight = tally.last_vote_weight
<1>0. VotingTypeOK /\ tally \in Tallies /\ now \in Times
  BY DEF VotesInv, VotingTypeOK
<1> DEFINE t1 == IF p \in rows2 THEN tally ELSE [tally EXCEPT !.updated[p] = now]
<1>1. /\ t1 \in Tallies /\ t1.last_vote_weight = tally.last_vote_weight /\ t1.proxied = tally.proxied
      /\ t1.votes = tally.votes /\ t1.total_weight = tally.total_weight
  BY <1>0 DEF Tallies
<1>2. tally' = IF p \in registered \ rows2 THEN update_total_votepay_share(t1, 0, tally.votes[p]) ELSE t1
  BY DEF regproducer
<1> HIDE DEF t1
<1>3. tally.votes[p] \in Int /\ 0 \in Int
  BY <1>0 DEF Tallies
<1>4. /\ tally' \in Tallies /\ tally'.last_vote_weight = tally.last_vote_weight
      /\ tally'.proxied = tally.proxied
      /\ tally'.votes = tally.votes /\ tally'.total_weight = tally.total_weight
  <2> DEFINE q == update_total_votepay_share(t1, 0, tally.votes[p])
  <2>1. /\ q \in Tallies /\ q.last_vote_weight = t1.last_vote_weight /\ q.proxied = t1.proxied
        /\ q.votes = t1.votes /\ q.total_weight = t1.total_weight
    BY <1>0, <1>1, <1>3, ShareUpdate
  <2> HIDE DEF q
  <2> QED BY <1>1, <1>2, <2>1 DEF q
<1>5. /\ registered' = registered \cup {p} /\ active' = active \cup {p} /\ rows2' = rows2 \cup {p}
      /\ claimed' = [claimed EXCEPT ![p] = IF @ = Epoch THEN now ELSE @]
      /\ UNCHANGED <<now, voters, staked, voteVars, activated, thresh>>
  BY DEF regproducer
<1>6. VotingTypeOK'
  <2>1. claimed' \in [Producers -> Times \cup {Epoch}]
    BY <1>0, <1>5 DEF VotingTypeOK
  <2> QED BY <1>0, <1>4, <1>5, <2>1 DEF VotingTypeOK, voteVars
<1>7. now <= now'
  BY <1>0, <1>5 DEF Times
<1> QED BY <1>4, <1>5, <1>6, <1>7, RowsInv

(* unregprod, the clock and a step that adds a row or nothing *)
LEMMA OtherVotingInv ==
  ASSUME VotesInv,
         \/ \E p \in Producers : unregprod(p)
         \/ VotingTick
         \/ /\ UNCHANGED <<now, staked, voteVars, tally, activated, thresh, prodVars>>
            /\ \E a \in Accounts : voters' \in {voters, voters \cup {a}}
         \/ UNCHANGED votingVars
  PROVE  VotesInv' /\ tally' = tally /\ staked' = staked /\ voted' = voted
         /\ activated' = activated /\ thresh' = thresh
<1>0. VotingTypeOK /\ now \in Times /\ MaxTime \in Nat
  BY TimeAssumption DEF VotesInv, VotingTypeOK
<1>1. /\ UNCHANGED <<staked, voteVars, tally, activated, thresh, registered, rows2, claimed>>
      /\ active' \subseteq active /\ voters \subseteq voters' /\ voters' \subseteq Accounts
      /\ now <= now' /\ now' \in Times
  <2>1. CASE \E p \in Producers : unregprod(p)
    BY <1>0, <2>1 DEF unregprod, VotingTypeOK, Times
  <2>2. CASE VotingTick
    BY <1>0, <2>2 DEF VotingTick, VotingTypeOK, Times, prodVars
  <2>3. CASE /\ UNCHANGED <<now, staked, voteVars, tally, activated, thresh, prodVars>>
             /\ \E a \in Accounts : voters' \in {voters, voters \cup {a}}
    BY <1>0, <2>3 DEF VotingTypeOK, Times, prodVars
  <2>4. CASE UNCHANGED votingVars
    BY <1>0, <2>4 DEF VotingTypeOK, Times, prodVars, votingVars
  <2> QED BY <2>1, <2>2, <2>3, <2>4
<1>2. VotingTypeOK'
  BY <1>0, <1>1 DEF VotingTypeOK, voteVars
<1>3. VotesInv'
  BY <1>1, <1>2, RowsInv
<1> QED BY <1>1, <1>3 DEF voteVars

-----------------------------------------------------------------------------
(* Activation *)

(* Larger entries have a larger sum. *)
LEMMA SumAtMost ==
  ASSUME NEW S, IsFiniteSet(S), NEW f \in [S -> Int], NEW g \in [S -> Int], \A x \in S : f[x] <= g[x]
  PROVE  SumFunctionOnSet(f, S) <= SumFunctionOnSet(g, S)
<1> DEFINE d == [x \in S |-> g[x] - f[x]]
<1>1. d \in [S -> Int] /\ \A x \in S : d[x] >= 0
  OBVIOUS
<1>2. g = [x \in S |-> f[x] + d[x]]
  OBVIOUS
<1> HIDE DEF d
<1>3. SumFunctionOnSet([x \in S |-> f[x] + d[x]], S) = SumFunctionOnSet(f, S) + SumFunctionOnSet(d, S)
  BY <1>1, SumPlus
<1>4. SumFunctionOnSet(d, S) \in Nat /\ SumFunctionOnSet(f, S) \in Int
  BY <1>1, SumNat, SumType
<1>5. SumFunctionOnSet(g, S) = SumFunctionOnSet(f, S) + SumFunctionOnSet(d, S)
  BY ONLY <1>2, <1>3
<1> QED BY <1>4, <1>5

(* The stakes that count as activated: those of the voters with a weight *)
Counting(L, stk, who) == [a \in Accounts |-> IF a \in who /\ L[a] > 0 THEN stk[a] ELSE 0]

Counted == SumFunctionOnSet(Counting(tally.last_vote_weight, staked, voted), Accounts)

ActivationInv ==
  /\ activated < MinActivated => activated <= Counted
  /\ activated >= MinActivated <=> thresh # None

(* What counts does not shrink, and grows by the stake of a first vote. *)
LEMMA CountGrows ==
  ASSUME NEW L \in [Accounts -> Int], NEW M \in [Accounts -> Int],
         NEW stk \in [Accounts -> Nat], NEW new \in [Accounts -> Nat],
         NEW who \in SUBSET Accounts, NEW all \in SUBSET Accounts, who \subseteq all,
         \A a \in Accounts : stk[a] <= new[a],
         \A a \in Accounts : L[a] > 0 /\ new[a] > 0 => M[a] > 0,
         NEW v \in Accounts, NEW x \in Nat,
         x # 0 => x = new[v] /\ L[v] <= 0 /\ M[v] > 0 /\ v \in all
  PROVE  SumFunctionOnSet(Counting(L, stk, who), Accounts) + x <=
           SumFunctionOnSet(Counting(M, new, all), Accounts)
<1> DEFINE f == Counting(L, stk, who)
           g == Counting(M, new, all)
           d == [a \in Accounts |-> IF a = v THEN x ELSE 0]
           h == [a \in Accounts |-> f[a] + d[a]]
<1>0. IsFiniteSet(Accounts)
  BY VotingSetsAssumption
<1>1. /\ f \in [Accounts -> Nat] /\ g \in [Accounts -> Nat]
      /\ \A a \in Accounts : /\ f[a] = (IF a \in who /\ L[a] > 0 THEN stk[a] ELSE 0)
                             /\ g[a] = (IF a \in all /\ M[a] > 0 THEN new[a] ELSE 0)
  BY DEF Counting
<1>2. d \in [Accounts -> Int] /\ d[v] = x /\ \A a \in Accounts \ {v} : d[a] = 0
  OBVIOUS
<1> HIDE DEF f, g, d
<1>3. f \in [Accounts -> Int] /\ g \in [Accounts -> Int] /\ h \in [Accounts -> Int]
  BY <1>1, <1>2
<1>4. SumFunctionOnSet(h, Accounts) = SumFunctionOnSet(f, Accounts) + SumFunctionOnSet(d, Accounts)
  BY <1>0, <1>2, <1>3, SumPlus
<1>5. SumFunctionOnSet(d, Accounts) = x
  <2>1. SumFunctionOnSet(d, {}) = 0
    BY <1>2, SumEmpty
  <2>2. SumFunctionOnSet(d, Accounts) = SumFunctionOnSet(d, {v})
    BY <1>0, <1>2, SumZeros
  <2>3. IsFiniteSet({v}) /\ {v} \in SUBSET Accounts /\ {v} \ {v} = {}
    BY FS_Singleton
  <2>4. SumFunctionOnSet(d, {v}) = d[v] + SumFunctionOnSet(d, {v} \ {v})
    BY <1>2, <2>3, SumRemove
  <2>5. SumFunctionOnSet(d, {v}) = d[v] + 0
    BY ONLY <2>1, <2>3, <2>4
  <2> QED BY <1>2, <2>2, <2>5
<1>6. ASSUME NEW a \in Accounts
      PROVE  h[a] <= g[a]
  <2>1. h[a] = f[a] + d[a] /\ stk[a] \in Nat /\ new[a] \in Nat /\ L[a] \in Int /\ M[a] \in Int
        /\ stk[a] <= new[a] /\ (L[a] > 0 /\ new[a] > 0 => M[a] > 0)
    OBVIOUS
  <2>2. f[a] <= g[a]
    BY <1>1, <2>1
  <2>3. CASE a # v \/ x = 0
    BY <1>1, <1>2, <2>1, <2>2, <2>3
  <2>4. CASE a = v /\ x # 0
    BY <1>1, <1>2, <2>1, <2>4
  <2> QED BY <2>3, <2>4
<1> HIDE DEF h
<1>7. SumFunctionOnSet(h, Accounts) <= SumFunctionOnSet(g, Accounts)
  BY <1>0, <1>3, <1>6, SumAtMost
<1> QED BY <1>4, <1>5, <1>7 DEF f, g

(* What the steps of the votes do to the sums that count *)
LEMMA ActivationKept ==
  ASSUME MinActivated \in Nat \ {0}, VotesInv, VotesInv', ActivationInv, voted \subseteq voted',
         activated >= MinActivated \/ \A a \in Accounts : staked[a] <= staked'[a],
         \/ /\ activated' = activated /\ thresh' = thresh
            /\ \A a \in Accounts : tally.last_vote_weight[a] > 0 /\ staked'[a] > 0 =>
                                     tally'.last_vote_weight[a] > 0
         \/ \E v \in Accounts : /\ Activate(staked', v) /\ v \in voted'
                                /\ KeepsWeight(tally, tally', staked', v)
  PROVE  ActivationInv'
<1>0. /\ activated \in Nat /\ activated' \in Nat /\ now \in Times /\ None \notin Int
      /\ tally.last_vote_weight \in [Accounts -> Int] /\ tally'.last_vote_weight \in [Accounts -> Int]
      /\ staked \in [Accounts -> Nat] /\ staked' \in [Accounts -> Nat]
      /\ voted \in SUBSET Accounts /\ voted' \in SUBSET Accounts
  BY VotingSetsAssumption DEF VotesInv, VotingTypeOK, Tallies
<1> DEFINE L == tally.last_vote_weight
           M == tally'.last_vote_weight
           C == Counted'
<1>1. /\ Counted = SumFunctionOnSet(Counting(L, staked, voted), Accounts)
      /\ C = SumFunctionOnSet(Counting(M, staked', voted'), Accounts)
  BY DEF Counted
<1>2. Counted \in Int /\ C \in Int
  <2>1. Counting(L, staked, voted) \in [Accounts -> Int] /\ Counting(M, staked', voted') \in [Accounts -> Int]
    BY <1>0 DEF Counting
  <2>2. IsFiniteSet(Accounts) /\ Accounts \in SUBSET Accounts
    BY VotingSetsAssumption
  <2> QED BY <1>1, <2>1, <2>2, SumType
<1> HIDE DEF L, M, C
<1>3. CASE /\ activated' = activated /\ thresh' = thresh
           /\ \A a \in Accounts : tally.last_vote_weight[a] > 0 /\ staked'[a] > 0 => tally'.last_vote_weight[a] > 0
  <2> SUFFICES ASSUME activated < MinActivated PROVE activated <= C
    BY <1>3 DEF ActivationInv, C
  <2>1. \A a \in Accounts : staked[a] <= staked'[a]
    BY <1>0
  <2>2. CASE Accounts = {}
    <3>1. Counting(L, staked, voted) = Counting(M, staked', voted')
      BY <2>2 DEF Counting
    <3> QED BY <1>1, <3>1 DEF ActivationInv
  <2>3. ASSUME NEW v \in Accounts
        PROVE  activated <= C
    <3>1. Counted + 0 <= C
      <4>1. \A a \in Accounts : L[a] > 0 /\ staked'[a] > 0 => M[a] > 0
        BY <1>3 DEF L, M
      <4>2. L \in [Accounts -> Int] /\ M \in [Accounts -> Int]
        BY <1>0 DEF L, M
      <4> DEFINE x == 0
      <4>3. x \in Nat /\ (x # 0 => x = staked'[v] /\ L[v] <= 0 /\ M[v] > 0 /\ v \in voted')
        OBVIOUS
      <4> HIDE DEF x
      <4>4. SumFunctionOnSet(Counting(L, staked, voted), Accounts) + x <=
              SumFunctionOnSet(Counting(M, staked', voted'), Accounts)
        BY <1>0, <2>1, <4>1, <4>2, <4>3, CountGrows
      <4> QED BY <1>1, <4>4 DEF x
    <3> QED BY <1>0, <1>2, <3>1 DEF ActivationInv
  <2> QED BY <2>2, <2>3
<1>4. ASSUME NEW v \in Accounts, Activate(staked', v), v \in voted', KeepsWeight(tally, tally', staked', v)
      PROVE  ActivationInv'
  <2> DEFINE x == ActivatedBy(staked', v)
  <2>1. /\ activated' = activated + x /\ x \in Nat
        /\ thresh' = IF L[v] <= 0 /\ activated' >= MinActivated /\ thresh = None THEN now ELSE thresh
        /\ x = (IF L[v] <= 0 THEN staked'[v] ELSE 0)
    BY <1>0, <1>4 DEF Activate, ActivatedBy, L
  <2> HIDE DEF x
  <2>2. activated' >= MinActivated <=> thresh' # None
    <3>1. now # None
      BY <1>0 DEF Times
    <3>2. activated' >= activated
      BY <1>0, <2>1
    <3> QED BY <1>0, <2>1, <3>1, <3>2 DEF ActivationInv
  <2>3. ASSUME activated' < MinActivated
        PROVE  activated' <= C
    <3>1. activated < MinActivated /\ activated <= Counted
      BY <1>0, <2>1, <2>3 DEF ActivationInv
    <3>2. \A a \in Accounts : staked[a] <= staked'[a]
      BY <1>0, <3>1
    <3>3. \A a \in Accounts : L[a] > 0 /\ staked'[a] > 0 => M[a] > 0
      BY <1>4 DEF KeepsWeight, L, M
    <3>4. L \in [Accounts -> Int] /\ M \in [Accounts -> Int]
      BY <1>0 DEF L, M
    <3>5. x # 0 => x = staked'[v] /\ L[v] <= 0 /\ M[v] > 0 /\ v \in voted'
      BY <1>0, <1>4, <2>1 DEF KeepsWeight, M
    <3>6. SumFunctionOnSet(Counting(L, staked, voted), Accounts) + x <=
            SumFunctionOnSet(Counting(M, staked', voted'), Accounts)
      BY <1>0, <2>1, <3>2, <3>3, <3>4, <3>5, CountGrows
    <3>7. Counted + x <= C
      BY <1>1, <3>6
    <3> QED BY <1>0, <1>2, <2>1, <3>1, <3>7
  <2> QED BY <2>2, <2>3 DEF ActivationInv, C
<1> QED BY <1>3, <1>4

(* What counts is staked by accounts that voted. *)
LEMMA ActivationBacked ==
  ASSUME VotesInv, ActivationInv
  PROVE  ActivationIsBacked
<1> DEFINE f == Counting(tally.last_vote_weight, staked, voted)
           g == [a \in Accounts |-> IF a \in voted THEN staked[a] ELSE 0]
<1>0. /\ tally.last_vote_weight \in [Accounts -> Int] /\ staked \in [Accounts -> Nat]
      /\ voted \in SUBSET Accounts /\ IsFiniteSet(Accounts) /\ IsFiniteSet(voted) /\ activated \in Nat
  BY VotingSetsAssumption, FS_Subset DEF VotesInv, VotingTypeOK, Tallies
<1>1. f \in [Accounts -> Int] /\ g \in [Accounts -> Int] /\ \A a \in Accounts : f[a] <= g[a]
  BY <1>0 DEF Counting
<1>2. (\A a \in Accounts \ voted : g[a] = 0) /\ \A a \in voted : g[a] = staked[a]
  BY <1>0
<1>3. staked \in [Accounts -> Int] /\ voted \subseteq Accounts
  BY <1>0
<1> HIDE DEF f, g
<1>4. SumFunctionOnSet(f, Accounts) <= SumFunctionOnSet(g, Accounts)
  BY <1>0, <1>1, SumAtMost
<1>5. SumFunctionOnSet(g, Accounts) = SumFunctionOnSet(g, voted)
  BY <1>0, <1>1, <1>2, SumZeros
<1>6. SumFunctionOnSet(g, voted) = SumFunctionOnSet(staked, voted)
  BY ONLY <1>0, <1>1, <1>2, <1>3, SumSame
<1>7. SumFunctionOnSet(f, Accounts) \in Int /\ SumFunctionOnSet(staked, voted) \in Int
  BY <1>0, <1>1, <1>3, SumType
<1>8. Counted = SumFunctionOnSet(f, Accounts)
  BY DEF Counted, f
<1> QED BY <1>0, <1>4, <1>5, <1>6, <1>7, <1>8 DEF ActivationInv, ActivationIsBacked
=============================================================================
