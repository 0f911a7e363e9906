----------------------------- MODULE RexProofs -----------------------------
(***************************************************************************)
(* Proofs about Staking and Rex for any accounts, balances, amounts,       *)
(* delays, terms and prices.                                               *)
(*                                                                         *)
(* Staking: what stakes, refunds and the tokens of eosio.stake have to do  *)
(* with each other does not depend on votes, so StakeTypes says of         *)
(* Voting's state only that the clock is a time.  The theorems about       *)
(* votes, activation and proxies follow; they rest on the lemmas of        *)
(* VotingProofs.                                                           *)
(*                                                                         *)
(* Rex: the actions of rex.cpp change the tables in several steps, of      *)
(* which runrex, the work done for others, is the largest.  Every step is  *)
(* shown to keep the books (Books) and what accounts have (Moves); the     *)
(* actions are composed of those steps.                                    *)
(***************************************************************************)
EXTENDS Rex, VotingProofs

-----------------------------------------------------------------------------
(* Staking *)


StakeTypes ==
  /\ now \in Times
  /\ liquid \in [Accounts -> Nat]
  /\ delband \in [Kinds -> [Pairs -> Nat]]
  /\ userres \in [Kinds -> [Accounts -> Nat]]
  /\ refunds \in [Kinds -> [Accounts -> Nat]]
  /\ request \in [Accounts -> Times \cup {None}]
  /\ deferred \in [Accounts -> Nat \cup {None}]
  /\ unbacked \in Int
  /\ unstaked \in [Accounts -> Times \cup {Epoch}]
  /\ given \in [Accounts -> Int]

(* A refund was requested when its owner last unstaked or later, never in the
   future, and eosio.stake, whose refund could not be paid, requests none. *)
RequestsInPast ==
  /\ \A a \in Accounts : request[a] # None => unstaked[a] <= request[a] /\ request[a] <= now
  /\ request[StakeAccount] = None

Inv == StakeTypes /\ RefundsInStep /\ RequestsInPast /\ StakeIsBacked

-----------------------------------------------------------------------------
(* A refund that is used up and a payment for the rest make up the change. *)
LEMMA PositiveSplit ==
  ASSUME NEW r \in Nat, NEW x \in Int
  PROVE  /\ Positive(r - x) \in Nat /\ Positive(x - r) \in Nat
         /\ Positive(r - x) = r - x + Positive(x - r)
         /\ (x >= 0 => Positive(r - x) <= r)
         /\ (x <= 0 => Positive(x - r) = 0 /\ Positive(r - x) = r - x)
BY DEF Positive

(* There are two kinds of bandwidth. *)
LEMMA KindsAre == "net" \in Kinds /\ "cpu" \in Kinds /\ \A k \in Kinds : k = "net" \/ k = "cpu"
BY DEF Kinds

(* The sums over delegations are over finite sets. *)
LEMMA PairsFinite == IsFiniteSet(Pairs) /\ \A v \in Accounts : IsFiniteSet({v} \X Accounts)
<1>1. IsFiniteSet(Accounts)
  BY VotingSetsAssumption
<1>2. \A v \in Accounts : IsFiniteSet({v})
  BY FS_Singleton
<1> QED BY <1>1, <1>2, FS_Product DEF Pairs

(* Adding d to one entry of a table of both kinds. *)
LEMMA AddedEntry ==
  ASSUME NEW D, IsFiniteSet(D), NEW table \in [Kinds -> [D -> Nat]], NEW i \in D,
         NEW d \in [Kinds -> Int], NEW new, new = Added(table, i, d), Sufficient(new, i)
  PROVE  /\ new \in [Kinds -> [D -> Nat]]
         /\ \A k \in Kinds : /\ new[k][i] = table[k][i] + d[k]
                             /\ \A j \in D \ {i} : new[k][j] = table[k][j]
                             /\ Total(new[k]) = Total(table[k]) + d[k]
<1>1. ASSUME NEW k \in Kinds
      PROVE  /\ new[k] \in [D -> Nat] /\ new[k][i] = table[k][i] + d[k]
             /\ \A j \in D \ {i} : new[k][j] = table[k][j]
  <2>1. new[k] = [table[k] EXCEPT ![i] = table[k][i] + d[k]]
    BY DEF Added
  <2>2. new[k][i] = table[k][i] + d[k] /\ table[k][i] \in Nat /\ d[k] \in Int
    BY <2>1
  <2>3. new[k][i] >= 0
    BY DEF Sufficient
  <2>4. new[k][i] \in Nat
    BY <2>2, <2>3
  <2> QED BY <2>1, <2>2, <2>4
<1>2. new \in [Kinds -> [D -> Nat]]
  <2>1. new = [k \in Kinds |-> new[k]]
    BY DEF Added
  <2> QED BY <1>1, <2>1
<1>3. ASSUME NEW k \in Kinds
      PROVE  Total(new[k]) = Total(table[k]) + d[k]
  <2>1. /\ table[k] \in [D -> Nat] /\ Total(table[k]) \in Nat
        /\ new[k] \in [D -> Nat] /\ \A j \in D \ {i} : new[k][j] = table[k][j]
    BY <1>1, TotalType
  <2>2. Total(new[k]) = Total(table[k]) - table[k][i] + new[k][i]
    BY <2>1, TotalDiffer
  <2>3. table[k][i] \in Nat /\ d[k] \in Int /\ new[k][i] = table[k][i] + d[k]
    BY <1>1
  <2> QED BY <2>1, <2>2, <2>3
<1> QED BY <1>1, <1>2, <1>3

(* The sums that make up what eosio.stake owes. *)
LEMMA OwedType ==
  ASSUME StakeTypes
  PROVE  /\ \A k \in Kinds : Total(delband[k]) \in Nat /\ Total(refunds[k]) \in Nat
         /\ Owed \in Nat
         /\ \A k \in Kinds, a \in Accounts : refunds[k][a] \in Nat
<1>1. \A k \in Kinds : delband[k] \in [Pairs -> Nat] /\ refunds[k] \in [Accounts -> Nat]
  BY DEF StakeTypes
<1>2. \A k \in Kinds : Total(delband[k]) \in Nat /\ Total(refunds[k]) \in Nat
  BY <1>1, PairsFinite, StakeAssumption, VotingSetsAssumption, TotalType
<1> QED BY <1>1, <1>2, KindsAre DEF Owed

(* The same after a step. *)
LEMMA OwedTypeNext ==
  ASSUME StakeTypes'
  PROVE  Owed' \in Nat
<1>1. \A k \in Kinds : delband'[k] \in [Pairs -> Nat] /\ refunds'[k] \in [Accounts -> Nat]
  BY DEF StakeTypes
<1>2. \A k \in Kinds : Total(delband'[k]) \in Nat /\ Total(refunds'[k]) \in Nat
  BY <1>1, PairsFinite, StakeAssumption, VotingSetsAssumption, TotalType
<1> QED BY <1>2, KindsAre DEF Owed

(* Refunds of one account change the sums by as much. *)
LEMMA RefundsChange ==
  ASSUME StakeTypes, NEW a \in Accounts, NEW left \in [Kinds -> Nat],
         refunds' = [k \in Kinds |-> [refunds[k] EXCEPT ![a] = left[k]]]
  PROVE  /\ refunds' \in [Kinds -> [Accounts -> Nat]]
         /\ \A k \in Kinds : /\ refunds'[k][a] = left[k]
                             /\ \A b \in Accounts \ {a} : refunds'[k][b] = refunds[k][b]
                             /\ Total(refunds'[k]) = Total(refunds[k]) - refunds[k][a] + left[k]
<1>1. refunds' \in [Kinds -> [Accounts -> Nat]]
  BY DEF StakeTypes
<1>2. ASSUME NEW k \in Kinds
      PROVE  /\ refunds[k] \in [Accounts -> Nat] /\ refunds'[k] \in [Accounts -> Nat]
             /\ refunds'[k][a] = left[k] /\ \A b \in Accounts \ {a} : refunds'[k][b] = refunds[k][b]
  BY DEF StakeTypes
<1>3. ASSUME NEW k \in Kinds
      PROVE  Total(refunds'[k]) = Total(refunds[k]) - refunds[k][a] + left[k]
  BY <1>2, StakeAssumption, VotingSetsAssumption, TotalDiffer, SMTT(30)
<1> QED BY <1>1, <1>2, <1>3

(* Staking adds to both kinds; unstaking takes from both, without transfer. *)
Change(source, from, receiver, d, transfer) ==
  /\ d \in [Kinds -> Int] /\ transfer \in BOOLEAN
  /\ from = IF transfer THEN receiver ELSE source
  /\ \/ (\A k \in Kinds : d[k] >= 0) /\ Sum(d) > 0
     \/ (\A k \in Kinds : d[k] <= 0) /\ Sum(d) < 0 /\ ~transfer

(* What is left to refund and what is paid: together with the change of the
   stake they keep the owner's tokens constant. *)
LEMMA RefundOrPay ==
  ASSUME StakeTypes, NEW from \in Accounts, NEW d \in [Kinds -> Int]
  PROVE  /\ RefundAfter(from, d) \in [Kinds -> Nat] /\ Sum(StillToPay(from, d)) \in Nat
         /\ Sum(RefundAfter(from, d)) + Sum(d) =
              (refunds["net"][from] + refunds["cpu"][from]) + Sum(StillToPay(from, d))
         /\ ((\A k \in Kinds : d[k] <= 0) =>
               /\ Sum(StillToPay(from, d)) = 0
               /\ Sum(RefundAfter(from, d)) = (refunds["net"][from] + refunds["cpu"][from]) - Sum(d))
         /\ ((\A k \in Kinds : d[k] >= 0) =>
               Sum(RefundAfter(from, d)) <= refunds["net"][from] + refunds["cpu"][from])
<1> DEFINE l == RefundAfter(from, d)
           p == StillToPay(from, d)
<1>1. ASSUME NEW k \in Kinds
      PROVE  /\ refunds[k][from] \in Nat /\ d[k] \in Int
             /\ l[k] = Positive(refunds[k][from] - d[k]) /\ p[k] = Positive(d[k] - refunds[k][from])
  BY DEF StakeTypes, RefundAfter, StillToPay
<1>2. ASSUME NEW k \in Kinds
      PROVE  /\ l[k] \in Nat /\ p[k] \in Nat /\ l[k] = refunds[k][from] - d[k] + p[k]
             /\ (d[k] >= 0 => l[k] <= refunds[k][from])
             /\ (d[k] <= 0 => p[k] = 0 /\ l[k] = refunds[k][from] - d[k])
  <2> DEFINE r == refunds[k][from]
             x == d[k]
  <2>1. r \in Nat /\ x \in Int /\ l[k] = Positive(r - x) /\ p[k] = Positive(x - r)
    BY <1>1, <1>2
  <2> HIDE DEF r, x, l, p
  <2>2. /\ Positive(r - x) \in Nat /\ Positive(x - r) \in Nat
        /\ Positive(r - x) = r - x + Positive(x - r)
        /\ (x >= 0 => Positive(r - x) <= r)
        /\ (x <= 0 => Positive(x - r) = 0 /\ Positive(r - x) = r - x)
    BY <2>1, PositiveSplit
  <2> QED BY <2>1, <2>2 DEF r, x
<1>3. l \in [Kinds -> Nat]
  BY <1>2 DEF RefundAfter
<1> HIDE DEF l, p
<1>4. /\ Sum(p) \in Nat /\ Sum(l) + Sum(d) = (refunds["net"][from] + refunds["cpu"][from]) + Sum(p)
      /\ ((\A k \in Kinds : d[k] <= 0) =>
             Sum(p) = 0 /\ Sum(l) = (refunds["net"][from] + refunds["cpu"][from]) - Sum(d))
      /\ ((\A k \in Kinds : d[k] >= 0) => Sum(l) <= refunds["net"][from] + refunds["cpu"][from])
  BY <1>1, <1>2, KindsAre DEF Sum
<1> QED BY <1>3, <1>4 DEF l, p

(* The effect of ChangeRefunds: what is paid goes to eosio.stake, and the row
   of the refund is that of an account that restaked, unstaked or did neither. *)
LEMMA RefundsChanged ==
  ASSUME StakeTypes, NEW source \in Accounts \ {StakeAccount}, NEW from \in Accounts,
         NEW receiver \in Accounts, NEW d, NEW transfer,
         Change(source, from, receiver, d, transfer),
         ChangeRefunds(source, from, receiver, d, transfer)
  PROVE  \E left \in [Kinds -> Nat], pay \in Nat :
           /\ refunds' = [k \in Kinds |-> [refunds[k] EXCEPT ![from] = left[k]]]
           /\ Covers(liquid, source, pay) /\ liquid' = moved(liquid, source, StakeAccount, pay)
           /\ Sum(left) + Sum(d) = (refunds["net"][from] + refunds["cpu"][from]) + pay
           /\ (transfer => pay = Sum(d))
           /\ \/ /\ Sum(left) = refunds["net"][from] + refunds["cpu"][from]
                 /\ Sum(d) > 0 /\ request' = request
                 /\ deferred' = [deferred EXCEPT ![from] = None]
              \/ /\ from = source
                 /\ request' = [request EXCEPT ![from] = RequestAfter(from, d, left)]
                 /\ deferred' = [deferred EXCEPT ![from] = IF Sum(left) # 0 THEN now + RefundDelay ELSE None]
                 /\ Sum(d) > 0 => Sum(left) <= refunds["net"][from] + refunds["cpu"][from]
                 /\ Sum(d) < 0 => Sum(left) > 0
<1> DEFINE refunding == ToSelf(from, receiver, transfer) \/ Sum(d) < 0
           left == IF refunding THEN RefundAfter(from, d) ELSE [k \in Kinds |-> refunds[k][from]]
           pay == IF refunding THEN Sum(StillToPay(from, d)) ELSE Sum(d)
           due == refunds["net"][from] + refunds["cpu"][from]
<1>1. /\ refunds' = [k \in Kinds |-> [refunds[k] EXCEPT ![from] = left[k]]]
      /\ request' = [request EXCEPT ![from] = IF refunding THEN RequestAfter(from, d, left) ELSE @]
      /\ deferred' = [deferred EXCEPT ![from] = DeferredAfter(refunding /\ Sum(left) # 0)]
      /\ Covers(liquid, source, pay)
      /\ liquid' = IF pay > 0 THEN moved(liquid, source, StakeAccount, pay) ELSE liquid
  BY DEF ChangeRefunds
<1>2. /\ d \in [Kinds -> Int] /\ Sum(d) \in Int /\ transfer \in BOOLEAN /\ due \in Nat
      /\ \A k \in Kinds : refunds[k][from] \in Nat
  BY KindsAre DEF Change, Sum, StakeTypes
<1>3. /\ left \in [Kinds -> Nat] /\ pay \in Nat /\ Sum(left) + Sum(d) = due + pay
      /\ (transfer => pay = Sum(d) /\ ~refunding) /\ (refunding => from = source)
      /\ (~refunding => Sum(left) = due /\ Sum(d) > 0)
      /\ (refunding /\ Sum(d) > 0 => Sum(left) <= due)
      /\ (refunding /\ Sum(d) < 0 => Sum(left) > 0)
  <2>1. CASE refunding
    <3>1. left = RefundAfter(from, d) /\ pay = Sum(StillToPay(from, d)) /\ ~transfer /\ from = source
      BY <1>2, <2>1 DEF Change, ToSelf
    <3>2. /\ RefundAfter(from, d) \in [Kinds -> Nat] /\ Sum(StillToPay(from, d)) \in Nat
          /\ Sum(RefundAfter(from, d)) + Sum(d) = due + Sum(StillToPay(from, d))
          /\ (\A k \in Kinds : d[k] <= 0) =>
                Sum(RefundAfter(from, d)) = due - Sum(d)
          /\ (\A k \in Kinds : d[k] >= 0) => Sum(RefundAfter(from, d)) <= due
      BY <1>2, RefundOrPay
    <3>3. (Sum(d) > 0 => \A k \in Kinds : d[k] >= 0) /\ (Sum(d) < 0 => \A k \in Kinds : d[k] <= 0)
      BY <1>2 DEF Change
    <3> HIDE DEF left, pay, due
    <3> QED BY <1>2, <2>1, <3>1, <3>2, <3>3
  <2>2. CASE ~refunding
    <3>1. left = [k \in Kinds |-> refunds[k][from]] /\ pay = Sum(d) /\ Sum(d) > 0
      BY <1>2, <2>2 DEF Change
    <3>2. left \in [Kinds -> Nat] /\ Sum(left) = due
      BY <1>2, <3>1, KindsAre DEF Sum
    <3> HIDE DEF left, pay, due
    <3> QED BY <1>2, <2>2, <3>1, <3>2
  <2> QED BY <2>1, <2>2
<1>4. liquid' = moved(liquid, source, StakeAccount, pay)
  <2>1. ASSUME pay = 0
        PROVE  moved(liquid, source, StakeAccount, pay) = liquid
    <3>1. liquid \in [Accounts -> Nat] /\ StakeAccount \in Accounts
      BY StakeAssumption DEF StakeTypes
    <3>2. moved(liquid, source, StakeAccount, 0) = liquid
      BY <3>1 DEF moved, sub_balance, add_balance
    <3> QED BY <2>1, <3>2
  <2> HIDE DEF pay
  <2> QED BY <1>1, <1>3, <2>1
<1>5. DeferredAfter(refunding /\ Sum(left) # 0) =
        IF refunding /\ Sum(left) # 0 THEN now + RefundDelay ELSE None
  BY DEF DeferredAfter
<1>6. request \in [Accounts -> Times \cup {None}]
  BY DEF StakeTypes
<1> HIDE DEF left, pay, refunding, due
<1>7. \/ /\ Sum(left) = due
         /\ Sum(d) > 0 /\ request' = request
         /\ deferred' = [deferred EXCEPT ![from] = None]
      \/ /\ from = source
         /\ request' = [request EXCEPT ![from] = RequestAfter(from, d, left)]
         /\ deferred' = [deferred EXCEPT ![from] = IF Sum(left) # 0 THEN now + RefundDelay ELSE None]
         /\ Sum(d) > 0 => Sum(left) <= due
         /\ Sum(d) < 0 => Sum(left) > 0
  <2>1. CASE refunding
    BY <1>1, <1>3, <1>5, <2>1
  <2>2. CASE ~refunding
    BY <1>1, <1>3, <1>5, <1>6, <2>2
  <2> QED BY <2>1, <2>2
<1>8. left \in [Kinds -> Nat] /\ pay \in Nat
  BY <1>3
<1> USE <1>8
<1> WITNESS left \in [Kinds -> Nat], pay \in Nat
<1> QED BY <1>1, <1>3, <1>4, <1>7 DEF due

(* The invariant holds initially. *)
LEMMA InitInv == Init => Inv
<1> SUFFICES ASSUME Init PROVE Inv
  OBVIOUS
<1> USE DEF Init, VotingInit
<1>1. 0 \in Times
  BY TimeAssumption DEF Times
<1>2. StakeTypes
  BY <1>1, StakeAssumption DEF StakeTypes, Epoch
<1>3. RefundsInStep /\ RequestsInPast
  BY KindsAre, StakeAssumption DEF RefundsInStep, RequestsInPast
<1>4. \A k \in Kinds : Total(delband[k]) = 0 /\ Total(refunds[k]) = 0
  BY TotalZero
<1>5. StakeIsBacked
  BY <1>4, KindsAre, StakeAssumption, SMTT(30) DEF StakeIsBacked, Owed
<1> QED BY <1>2, <1>3, <1>5 DEF Inv

(* What stakes and refunds add up to after a change of one stake. *)
LEMMA OwedChange ==
  ASSUME StakeTypes, NEW d \in [Kinds -> Int], NEW from \in Accounts, NEW left \in [Kinds -> Nat],
         \A k \in Kinds : Total(delband'[k]) = Total(delband[k]) + d[k],
         refunds' = [k \in Kinds |-> [refunds[k] EXCEPT ![from] = left[k]]]
  PROVE  Owed' + (refunds["net"][from] + refunds["cpu"][from]) = Owed + (Sum(d) + Sum(left))
<1>1. \A k \in Kinds : Total(refunds'[k]) = Total(refunds[k]) - refunds[k][from] + left[k]
  BY RefundsChange, ZenonT(30)
<1>2. \A k \in Kinds : /\ Total(delband[k]) \in Nat /\ Total(refunds[k]) \in Nat
                       /\ refunds[k][from] \in Nat /\ left[k] \in Nat /\ d[k] \in Int
  BY OwedType
<1>3. \A k \in Kinds : /\ Total(refunds'[k]) + refunds[k][from] = Total(refunds[k]) + left[k]
                       /\ Total(refunds'[k]) \in Int
  BY <1>1, <1>2
<1> DEFINE Moved(k) ==
      /\ Total(refunds'[k]) + refunds[k][from] = Total(refunds[k]) + left[k]
      /\ Total(refunds'[k]) \in Int /\ Total(delband'[k]) = Total(delband[k]) + d[k]
      /\ Total(delband[k]) \in Nat /\ Total(refunds[k]) \in Nat
      /\ refunds[k][from] \in Nat /\ left[k] \in Nat /\ d[k] \in Int
<1>4. Moved("net") /\ Moved("cpu")
  BY <1>2, <1>3, KindsAre
<1>5. Owed = Total(delband["net"]) + Total(delband["cpu"]) + Total(refunds["net"]) + Total(refunds["cpu"])
  BY DEF Owed
<1>6. Owed' = Total(delband'["net"]) + Total(delband'["cpu"]) + Total(refunds'["net"]) + Total(refunds'["cpu"])
  BY DEF Owed
<1> QED BY ONLY <1>4, <1>5, <1>6 DEF Sum

(* changebw keeps the types of the tables of stakes. *)
LEMMA StakesChanged ==
  ASSUME StakeTypes, NEW from \in Accounts, NEW receiver \in Accounts, NEW d \in [Kinds -> Int],
         delband' = Added(delband, <<from, receiver>>, d), userres' = Added(userres, receiver, d),
         Sufficient(delband', <<from, receiver>>), Sufficient(userres', receiver)
  PROVE  /\ delband' \in [Kinds -> [Pairs -> Nat]] /\ userres' \in [Kinds -> [Accounts -> Nat]]
         /\ \A k \in Kinds : /\ Total(delband'[k]) = Total(delband[k]) + d[k]
                             /\ delband'[k][<<from, receiver>>] = delband[k][<<from, receiver>>] + d[k]
                             /\ \A j \in Pairs \ {<<from, receiver>>} : delband'[k][j] = delband[k][j]
<1>1. delband \in [Kinds -> [Pairs -> Nat]] /\ userres \in [Kinds -> [Accounts -> Nat]]
  BY DEF StakeTypes
<1>2. IsFiniteSet(Accounts) /\ IsFiniteSet(Pairs) /\ <<from, receiver>> \in Pairs
  BY PairsFinite, StakeAssumption, VotingSetsAssumption DEF Pairs
<1>3. userres' \in [Kinds -> [Accounts -> Nat]]
  BY <1>1, <1>2, AddedEntry
<1> DEFINE i == <<from, receiver>>
<1>4. i \in Pairs /\ delband' = Added(delband, i, d) /\ Sufficient(delband', i)
  BY <1>2
<1> HIDE DEF i
<1>5. /\ delband' \in [Kinds -> [Pairs -> Nat]]
      /\ \A k \in Kinds : /\ delband'[k][i] = delband[k][i] + d[k]
                          /\ \A j \in Pairs \ {i} : delband'[k][j] = delband[k][j]
                          /\ Total(delband'[k]) = Total(delband[k]) + d[k]
  <2>1. delband \in [Kinds -> [Pairs -> Nat]] /\ IsFiniteSet(Pairs)
    BY <1>1, <1>2
  <2> DEFINE new == delband'
  <2>2. new = Added(delband, i, d) /\ Sufficient(new, i) /\ i \in Pairs
    BY <1>4
  <2> HIDE DEF new
  <2>3. /\ new \in [Kinds -> [Pairs -> Nat]]
        /\ \A k \in Kinds : /\ new[k][i] = delband[k][i] + d[k]
                            /\ \A j \in Pairs \ {i} : new[k][j] = delband[k][j]
                            /\ Total(new[k]) = Total(delband[k]) + d[k]
    BY ONLY d \in [Kinds -> Int], <2>1, <2>2, AddedEntry
  <2> QED BY <2>3 DEF new
<1> QED BY <1>3, <1>5 DEF i

(* A stake change keeps the invariant: a paid change moves what eosio.stake
   owes and what it holds alike, its own change moves unbacked instead. *)
LEMMA ChangeInv ==
  ASSUME Inv, NEW source \in Accounts, NEW from \in Accounts, NEW receiver \in Accounts,
         NEW d, NEW transfer, Change(source, from, receiver, d, transfer),
         changebw(source, receiver, d, transfer, 0), given' \in [Accounts -> Int],
         unstaked' = IF Sum(d) < 0 THEN [unstaked EXCEPT ![source] = now] ELSE unstaked
  PROVE  Inv'
<1>0. /\ StakeTypes /\ RefundsInStep /\ RequestsInPast /\ StakeIsBacked
      /\ StakeAccount \in Accounts /\ RefundDelay \in Nat /\ None \notin Int
  BY StakeAssumption, VotingSetsAssumption DEF Inv
<1>1. /\ d \in [Kinds -> Int] /\ Sum(d) \in Int /\ transfer \in BOOLEAN
      /\ from = (IF transfer THEN receiver ELSE source) /\ (Sum(d) < 0 => from = source)
      /\ Sum(d) # 0
  BY KindsAre DEF Change, Sum
<1>2. /\ delband' = Added(delband, <<from, receiver>>, d) /\ userres' = Added(userres, receiver, d)
      /\ Sufficient(delband', <<from, receiver>>) /\ Sufficient(userres', receiver)
      /\ now' = now
      /\ \/ /\ source # StakeAccount
            /\ ChangeRefunds(source, from, receiver, d, transfer)
            /\ UNCHANGED unbacked
         \/ /\ source = StakeAccount
            /\ unbacked' = unbacked + Sum(d)
            /\ UNCHANGED <<refunds, request, deferred, liquid>>
  BY <1>1 DEF changebw
<1>3. /\ delband' \in [Kinds -> [Pairs -> Nat]] /\ userres' \in [Kinds -> [Accounts -> Nat]]
      /\ \A k \in Kinds : Total(delband'[k]) = Total(delband[k]) + d[k]
  BY <1>0, <1>1, <1>2, StakesChanged, SMTT(30)
<1>4. now \in Times /\ now \in Nat /\ Times \subseteq Nat
  BY <1>0, TimeAssumption DEF StakeTypes, Times
<1>5. unstaked' \in [Accounts -> Times \cup {Epoch}]
  BY <1>0, <1>4 DEF StakeTypes
<1>6. CASE source = StakeAccount
  <2>1. /\ unbacked' = unbacked + Sum(d) /\ refunds' = refunds /\ request' = request
        /\ deferred' = deferred /\ liquid' = liquid
    BY <1>2, <1>6
  <2>2. StakeTypes'
    <3>1. unbacked' \in Int
      BY <1>0, <1>1, <2>1 DEF StakeTypes
    <3> QED BY <1>0, <1>2, <1>3, <1>5, <2>1, <3>1 DEF StakeTypes
  <2>3. RefundsInStep'
    BY <1>0, <2>1 DEF RefundsInStep
  <2>4. \A a \in Accounts \ {StakeAccount} : unstaked'[a] = unstaked[a]
    BY <1>0, <1>6 DEF StakeTypes
  <2>5. RequestsInPast'
    BY <1>0, <1>2, <2>1, <2>4 DEF RequestsInPast
  <2>6. Owed' = Owed + Sum(d)
    <3>1. \A k \in Kinds : Total(delband[k]) \in Nat /\ Total(refunds[k]) \in Nat /\ d[k] \in Int
      BY <1>0, <1>1, OwedType
    <3> QED BY <1>3, <2>1, <3>1, KindsAre DEF Owed, Sum
  <2>7. Owed \in Nat /\ unbacked \in Int /\ liquid[StakeAccount] \in Nat
    BY <1>0, OwedType DEF StakeTypes
  <2>8. StakeIsBacked'
    BY <1>0, <1>1, <2>1, <2>6, <2>7 DEF StakeIsBacked
  <2> QED BY <2>2, <2>3, <2>5, <2>8 DEF Inv
<1>7. CASE source # StakeAccount
  <2> DEFINE due == refunds["net"][from] + refunds["cpu"][from]
  <2>0. due \in Nat /\ \A k \in Kinds, a \in Accounts : refunds[k][a] \in Nat
    BY <1>0, KindsAre, OwedType
  <2>1. PICK left \in [Kinds -> Nat], pay \in Nat :
           /\ refunds' = [k \in Kinds |-> [refunds[k] EXCEPT ![from] = left[k]]]
           /\ Covers(liquid, source, pay) /\ liquid' = moved(liquid, source, StakeAccount, pay)
           /\ Sum(left) + Sum(d) = due + pay
           /\ (transfer => pay = Sum(d))
           /\ \/ /\ Sum(left) = due
                 /\ Sum(d) > 0 /\ request' = request
                 /\ deferred' = [deferred EXCEPT ![from] = None]
              \/ /\ from = source
                 /\ request' = [request EXCEPT ![from] = RequestAfter(from, d, left)]
                 /\ deferred' = [deferred EXCEPT ![from] = IF Sum(left) # 0 THEN now + RefundDelay ELSE None]
                 /\ Sum(d) > 0 => Sum(left) <= due
                 /\ Sum(d) < 0 => Sum(left) > 0
    BY <1>0, <1>2, <1>7, RefundsChanged
  <2>2. /\ refunds' \in [Kinds -> [Accounts -> Nat]]
        /\ \A k \in Kinds : /\ refunds'[k][from] = left[k]
                            /\ \A b \in Accounts \ {from} : refunds'[k][b] = refunds[k][b]
    BY <1>0, <2>1, RefundsChange, ZenonT(30)
  <2>3. /\ liquid' \in [Accounts -> Nat] /\ liquid'[StakeAccount] = liquid[StakeAccount] + pay
        /\ liquid \in [Accounts -> Nat] /\ liquid[StakeAccount] \in Nat
    <3>1. liquid \in [Accounts -> Nat] /\ liquid[StakeAccount] \in Nat
      BY <1>0 DEF StakeTypes
    <3>2. pay \in Nat /\ Covers(liquid, source, pay) /\ liquid' = moved(liquid, source, StakeAccount, pay)
      BY <2>1
    <3> QED BY ONLY <1>0, <1>7, <3>1, <3>2, source \in Accounts, MovedAmounts
  <2>4. Sum(left) \in Nat /\ unbacked' = unbacked /\ unbacked \in Int
    BY <1>0, <1>2, <1>7, KindsAre DEF Sum, StakeTypes
  <2>6. /\ request \in [Accounts -> Times \cup {None}] /\ deferred \in [Accounts -> Nat \cup {None}]
        /\ unstaked \in [Accounts -> Times \cup {Epoch}]
    BY <1>0 DEF StakeTypes
  <2>7. /\ request' \in [Accounts -> Times \cup {None}] /\ deferred' \in [Accounts -> Nat \cup {None}]
        /\ \A a \in Accounts \ {from} : request'[a] = request[a] /\ deferred'[a] = deferred[a]
    <3>1. RequestAfter(from, d, left) \in Times \cup {None}
      BY <1>4, <2>6 DEF RequestAfter
    <3>2. now + RefundDelay \in Nat
      BY <1>0, <1>4
    <3> QED BY <2>1, <2>6, <3>1, <3>2
  <2>8. StakeTypes'
    BY <1>0, <1>2, <1>3, <1>5, <2>2, <2>3, <2>4, <2>7 DEF StakeTypes
  <2>5. StakeIsBacked'
    <3>1. Owed' + due = Owed + (Sum(d) + Sum(left))
      <4>1. refunds' = [k \in Kinds |-> [refunds[k] EXCEPT ![from] = left[k]]]
        BY <2>1
      <4> QED BY <1>0, <1>1, <1>3, <4>1, OwedChange
    <3>2. Owed \in Nat /\ Owed' \in Nat
      BY <1>0, <2>8, OwedType, OwedTypeNext
    <3> HIDE DEF due
    <3>3. Owed' = Owed + pay
      <4>1. Sum(left) + Sum(d) = due + pay /\ pay \in Nat
        BY <2>1
      <4> QED BY ONLY <1>1, <2>0, <2>4, <3>1, <3>2, <4>1
    <3> QED BY <1>0, <2>3, <2>4, <3>2, <3>3 DEF StakeIsBacked
  <2>9. /\ (request'[from] # None <=> Sum(left) > 0)
        /\ (request'[from] # None /\ deferred'[from] # None => deferred'[from] >= request'[from] + RefundDelay)
        /\ (request'[from] # None => /\ unstaked'[from] <= request'[from]
                                    /\ request'[from] <= now)
    <3>0. /\ (request[from] # None <=> due > 0)
          /\ (request[from] # None => unstaked[from] <= request[from] /\ request[from] <= now)
          /\ request[from] \in Nat \cup {None} /\ now # None /\ (request[from] # None => request[from] \in Nat)
      <4>1. request[from] # None <=> due > 0
        BY <1>0 DEF RefundsInStep
      <4>2. request[from] # None => unstaked[from] <= request[from] /\ request[from] <= now
        BY <1>0 DEF RequestsInPast
      <4> HIDE DEF due
      <4>3. request[from] \in Nat \cup {None} /\ now # None
        <5>1. request[from] \in Times \cup {None}
          BY <2>6
        <5>2. now # None
          BY <1>0, <1>4
        <5> QED BY <1>4, <5>1, <5>2
      <4> QED BY <4>1, <4>2, <4>3
    <3> HIDE DEF due
    <3>1. CASE Sum(left) = due /\ Sum(d) > 0 /\ request' = request /\ deferred' = [deferred EXCEPT ![from] = None]
      <4>1. unstaked' = unstaked /\ deferred'[from] = None
        BY <1>1, <2>6, <3>1
      <4> QED BY <3>0, <3>1, <4>1
    <3>2. CASE /\ from = source
               /\ request' = [request EXCEPT ![from] = RequestAfter(from, d, left)]
               /\ deferred' = [deferred EXCEPT ![from] = IF Sum(left) # 0 THEN now + RefundDelay ELSE None]
               /\ Sum(d) > 0 => Sum(left) <= due
               /\ Sum(d) < 0 => Sum(left) > 0
      <4>1. /\ request'[from] = RequestAfter(from, d, left)
            /\ deferred'[from] = IF Sum(left) # 0 THEN now + RefundDelay ELSE None
        BY <2>6, <3>2
      <4>2. CASE Sum(left) = 0
        <5>1. RequestAfter(from, d, left) = None
          BY <4>2 DEF RequestAfter
        <5> QED BY <4>1, <4>2, <5>1
      <4>3. CASE Sum(left) # 0 /\ Sum(d) < 0
        <5>1. RequestAfter(from, d, left) = now
          BY <4>3 DEF RequestAfter
        <5>2. unstaked'[from] = now
          BY <2>6, <3>2, <4>3
        <5> QED BY <1>0, <1>4, <2>4, <3>0, <4>1, <4>3, <5>1, <5>2
      <4>4. CASE Sum(left) # 0 /\ ~(Sum(d) < 0)
        <5>1. RequestAfter(from, d, left) = request[from]
          BY <4>4 DEF RequestAfter
        <5>2. unstaked' = unstaked /\ due > 0
          BY <1>1, <2>0, <2>4, <3>2, <4>4
        <5> QED BY <1>0, <1>4, <2>4, <3>0, <4>1, <4>4, <5>1, <5>2
      <4> QED BY <4>2, <4>3, <4>4
    <3> QED BY <2>1, <3>1, <3>2
  <2>10. RefundsInStep'
    <3> SUFFICES ASSUME NEW a \in Accounts
                 PROVE  /\ (request'[a] # None <=> refunds'["net"][a] + refunds'["cpu"][a] > 0)
                        /\ (request'[a] # None /\ deferred'[a] # None => deferred'[a] >= request'[a] + RefundDelay)
      BY DEF RefundsInStep
    <3>1. CASE a = from
      BY <2>2, <2>9, <3>1, KindsAre DEF Sum
    <3>2. CASE a # from
      <4>1. refunds'["net"][a] = refunds["net"][a] /\ refunds'["cpu"][a] = refunds["cpu"][a]
        BY <2>2, <3>2, KindsAre
      <4> QED BY <1>0, <2>7, <3>2, <4>1 DEF RefundsInStep
    <3> QED BY <3>1, <3>2
  <2>11. RequestsInPast'
    <3>1. \A a \in Accounts \ {from} : unstaked'[a] = unstaked[a]
      BY <1>1, <2>6
    <3>2. from = StakeAccount => request'[from] = None
      BY <1>0, <1>7, <2>1 DEF RequestsInPast
    <3>3. request'[StakeAccount] = None
      BY <1>0, <2>7, <3>2 DEF RequestsInPast
    <3> QED BY <1>0, <1>2, <2>7, <2>9, <3>1, <3>3 DEF RequestsInPast
  <2> QED BY <2>5, <2>8, <2>10, <2>11 DEF Inv
<1> QED BY <1>6, <1>7

(* A refund, however it is run, keeps the invariant: what eosio.stake pays is
   what it no longer owes. *)
LEMMA RefundInv ==
  ASSUME Inv, NEW owner \in Accounts, CanRefund(owner), PayRefund(owner),
         deferred' = deferred \/ deferred' = [deferred EXCEPT ![owner] = None],
         UNCHANGED <<now, delband, userres, unbacked, unstaked, given>>
  PROVE  Inv'
<1> DEFINE due == refunds["net"][owner] + refunds["cpu"][owner]
           left == [k \in Kinds |-> 0]
<1>0. /\ StakeTypes /\ RefundsInStep /\ RequestsInPast /\ StakeIsBacked
      /\ StakeAccount \in Accounts /\ owner # StakeAccount /\ Covers(liquid, StakeAccount, due)
  BY StakeAssumption DEF Inv, CanRefund
<1>1. /\ liquid' = moved(liquid, StakeAccount, owner, due)
      /\ refunds' = [k \in Kinds |-> [refunds[k] EXCEPT ![owner] = left[k]]]
      /\ request' = [request EXCEPT ![owner] = None]
  BY DEF PayRefund
<1>2. left \in [Kinds -> Nat] /\ Sum(left) = 0 /\ left["net"] = 0 /\ left["cpu"] = 0
  BY KindsAre DEF Sum
<1>3. due \in Nat
  BY <1>0, KindsAre, OwedType
<1> HIDE DEF due, left
<1>4. /\ refunds' \in [Kinds -> [Accounts -> Nat]]
      /\ \A k \in Kinds : /\ refunds'[k][owner] = left[k]
                          /\ \A b \in Accounts \ {owner} : refunds'[k][b] = refunds[k][b]
  BY <1>0, <1>1, <1>2, RefundsChange
<1>5. /\ liquid' \in [Accounts -> Nat] /\ liquid'[StakeAccount] = liquid[StakeAccount] - due
      /\ liquid[StakeAccount] \in Nat
  <2>1. liquid \in [Accounts -> Nat] /\ liquid[StakeAccount] \in Nat
    BY <1>0 DEF StakeTypes
  <2> QED BY ONLY <1>0, <1>1, <1>3, <2>1, owner \in Accounts, MovedAmounts
<1>6. /\ deferred' \in [Accounts -> Nat \cup {None}] /\ request' \in [Accounts -> Times \cup {None}]
      /\ request'[owner] = None
      /\ \A b \in Accounts \ {owner} : request'[b] = request[b] /\ deferred'[b] = deferred[b]
  BY <1>0, <1>1 DEF StakeTypes
<1>7. StakeTypes'
  BY <1>0, <1>4, <1>5, <1>6 DEF StakeTypes
<1>8. RefundsInStep'
  <2> SUFFICES ASSUME NEW a \in Accounts
               PROVE  /\ (request'[a] # None <=> refunds'["net"][a] + refunds'["cpu"][a] > 0)
                      /\ (request'[a] # None /\ deferred'[a] # None => deferred'[a] >= request'[a] + RefundDelay)
    BY DEF RefundsInStep
  <2>1. CASE a = owner
    BY <1>2, <1>4, <1>6, <2>1, KindsAre
  <2>2. CASE a # owner
    <3>1. refunds'["net"][a] = refunds["net"][a] /\ refunds'["cpu"][a] = refunds["cpu"][a]
      BY <1>4, <2>2, KindsAre
    <3> QED BY <1>0, <1>6, <2>2, <3>1 DEF RefundsInStep
  <2> QED BY <2>1, <2>2
<1>9. RequestsInPast'
  BY <1>0, <1>6 DEF RequestsInPast
<1>10. StakeIsBacked'
  <2> DEFINE d == [k \in Kinds |-> 0]
  <2>1. d \in [Kinds -> Int] /\ Sum(d) = 0 /\ \A k \in Kinds : d[k] = 0
    BY KindsAre DEF Sum
  <2>2. \A k \in Kinds : Total(delband'[k]) = Total(delband[k]) + d[k]
    BY <1>0, <2>1, OwedType
  <2> HIDE DEF d
  <2>3. Owed' + due = Owed + (Sum(d) + Sum(left))
    BY <1>0, <1>1, <1>2, <2>1, <2>2, OwedChange DEF due
  <2>4. Owed \in Nat /\ Owed' \in Nat /\ unbacked \in Int
    BY <1>0, <1>7, OwedType, OwedTypeNext DEF StakeTypes
  <2>5. Owed' = Owed - due
    <3>1. Owed' + due = Owed + (0 + 0)
      BY <1>2, <2>1, <2>3
    <3>2. Owed \in Int /\ Owed' \in Int /\ due \in Int
      BY <1>3, <2>4
    <3> DEFINE x == Owed'
               y == Owed
    <3>3. x \in Int /\ y \in Int /\ due \in Int /\ x + due = y + (0 + 0)
      BY <3>1, <3>2
    <3> HIDE DEF x, y
    <3>4. x = y - due
      BY <3>3
    <3> QED BY <3>4 DEF x, y
  <2>6. liquid[StakeAccount] + unbacked = Owed /\ unbacked' = unbacked
    BY <1>0 DEF StakeIsBacked
  <2>7. liquid'[StakeAccount] + unbacked' = Owed'
    BY ONLY <1>3, <1>5, <2>4, <2>5, <2>6
  <2> QED BY <2>7 DEF StakeIsBacked
<1> QED BY <1>7, <1>8, <1>9, <1>10 DEF Inv

(* A deferred transaction that leaves without paying keeps the invariant. *)
LEMMA DropInv ==
  ASSUME Inv, NEW owner \in Accounts, deferred' = [deferred EXCEPT ![owner] = None],
         UNCHANGED <<now, liquid, delband, userres, refunds, request, unbacked, unstaked, given>>
  PROVE  Inv'
<1>1. StakeTypes /\ RefundsInStep /\ RequestsInPast /\ StakeIsBacked
  BY DEF Inv
<1>2. StakeTypes' /\ deferred'[owner] = None /\ \A b \in Accounts \ {owner} : deferred'[b] = deferred[b]
  BY <1>1 DEF StakeTypes
<1>3. RefundsInStep'
  BY <1>1, <1>2 DEF RefundsInStep
<1>4. RequestsInPast' /\ StakeIsBacked'
  BY <1>1 DEF RequestsInPast, StakeIsBacked, Owed
<1> QED BY <1>2, <1>3, <1>4 DEF Inv

(* The invariant looks at nothing else but the clock, which only grows. *)
LEMMA ElsewhereInv ==
  ASSUME Inv, now' \in Times, now' >= now,
         UNCHANGED <<liquid, delband, userres, refunds, request, deferred, unbacked, unstaked, given>>
  PROVE  Inv'
<1>1. StakeTypes /\ RefundsInStep /\ RequestsInPast /\ StakeIsBacked /\ None \notin Int
  BY StakeAssumption, VotingSetsAssumption DEF Inv
<1>2. StakeTypes' /\ now \in Nat /\ now' \in Nat /\ \A a \in Accounts : request[a] \in Nat \cup {None}
  BY <1>1, TimeAssumption DEF StakeTypes, Times
<1>3. RefundsInStep' /\ StakeIsBacked'
  BY <1>1 DEF RefundsInStep, StakeIsBacked, Owed
<1>4. RequestsInPast'
  BY <1>1, <1>2 DEF RequestsInPast
<1> QED BY <1>2, <1>3, <1>4 DEF Inv

(* Voting actions leave stakes alone, and all but the tick leave the clock. *)
LEMMA VotingClock ==
  ASSUME now \in Times, VotingNext
  PROVE  now' \in Times /\ now' >= now
<1>1. ASSUME VotingTick PROVE now' \in Times /\ now' >= now
  BY <1>1, TimeAssumption DEF VotingTick, Times
<1>2. ASSUME now' = now PROVE now' \in Times /\ now' >= now
  BY <1>2, TimeAssumption DEF Times
<1>3. ASSUME NEW v, NEW px, NEW ps, voteproducer(v, px, ps, 0) PROVE now' = now
  BY <1>3 DEF voteproducer
<1>4. ASSUME NEW v, NEW isp, regproxy(v, isp) PROVE now' = now
  BY <1>4 DEF regproxy
<1>5. ASSUME NEW p, regproducer(p) \/ unregprod(p) PROVE now' = now
  BY <1>5 DEF regproducer, unregprod
<1> QED BY <1>1, <1>2, <1>3, <1>4, <1>5 DEF VotingNext

(* delegatebw and undelegatebw are changes in the sense of Change. *)
LEMMA DelegateIsChange ==
  ASSUME NEW source, NEW receiver, NEW d \in [Kinds -> Amounts], NEW transfer \in BOOLEAN, ValidStake(d)
  PROVE  /\ Change(source, IF transfer THEN receiver ELSE source, receiver, d, transfer)
         /\ Change(source, source, receiver, [k \in Kinds |-> -d[k]], FALSE)
         /\ Sum(d) \in Int /\ Sum(d) > 0 /\ Sum([k \in Kinds |-> -d[k]]) < 0
<1>0. d \in [Kinds -> Int]
  BY StakeAssumption
<1>1. d \in [Kinds -> Int] /\ [k \in Kinds |-> -d[k]] \in [Kinds -> Int]
  BY <1>0
<1>2. /\ Sum(d) \in Int /\ Sum(d) > 0 /\ \A k \in Kinds : d[k] >= 0
      /\ Sum([k \in Kinds |-> -d[k]]) < 0 /\ \A k \in Kinds : -d[k] <= 0
  BY <1>1, KindsAre DEF ValidStake, Sum
<1> QED BY <1>1, <1>2 DEF Change

(* Gifts are moved between accounts. *)
LEMMA MovedGifts ==
  ASSUME NEW g \in [Accounts -> Int], NEW from \in Accounts, NEW to \in Accounts, NEW q \in Int, from # to
  PROVE  /\ moved(g, from, to, q) \in [Accounts -> Int]
         /\ moved(g, from, to, q)[from] = g[from] - q /\ moved(g, from, to, q)[to] = g[to] + q
         /\ \A a \in Accounts \ {from, to} : moved(g, from, to, q)[a] = g[a]
BY DEF moved, sub_balance, add_balance

(* Every step keeps the invariant. *)
LEMMA NextInv == Inv /\ [Next]_vars => Inv'
<1> SUFFICES ASSUME Inv, [Next]_vars PROVE Inv'
  OBVIOUS
<1>0. StakeTypes /\ now \in Times /\ now \in Nat /\ given \in [Accounts -> Int] /\ now >= now
  BY TimeAssumption DEF Inv, StakeTypes, Times
<1>1. ASSUME NEW from \in Accounts, NEW to \in Accounts, NEW d \in [Kinds -> Amounts],
             NEW transfer \in BOOLEAN, delegatebw(from, to, d, transfer, 0)
      PROVE  Inv'
  <2> DEFINE owner == IF transfer THEN to ELSE from
  <2>1. ValidStake(d) /\ changebw(from, to, d, transfer, 0) /\ unstaked' = unstaked
    BY <1>1 DEF delegatebw
  <2>2. owner \in Accounts /\ Change(from, owner, to, d, transfer) /\ Sum(d) \in Int /\ Sum(d) > 0
    BY <2>1, DelegateIsChange
  <2>3. given' \in [Accounts -> Int]
    BY <1>0, <1>1, <2>2, MovedGifts DEF delegatebw
  <2> HIDE DEF owner
  <2>4. unstaked' = IF Sum(d) < 0 THEN [unstaked EXCEPT ![from] = now] ELSE unstaked
    BY <2>1, <2>2
  <2> QED BY <2>1, <2>2, <2>3, <2>4, ChangeInv
<1>2. ASSUME NEW from \in Accounts, NEW to \in Accounts, NEW d \in [Kinds -> Amounts],
             undelegatebw(from, to, d, 0)
      PROVE  Inv'
  <2> DEFINE e == [k \in Kinds |-> -d[k]]
  <2>1. /\ ValidStake(d) /\ changebw(from, to, e, FALSE, 0) /\ given' = given
        /\ unstaked' = [unstaked EXCEPT ![from] = now]
    BY <1>2 DEF undelegatebw
  <2>2. Change(from, from, to, e, FALSE) /\ Sum(e) < 0
    BY <2>1, DelegateIsChange
  <2> HIDE DEF e
  <2>3. unstaked' = (IF Sum(e) < 0 THEN [unstaked EXCEPT ![from] = now] ELSE unstaked) /\ given' \in [Accounts -> Int]
    BY <1>0, <2>1, <2>2
  <2> QED BY <2>1, <2>2, <2>3, ChangeInv
<1>3. ASSUME NEW a \in Accounts, refund(a)
      PROVE  Inv'
  BY <1>3, RefundInv DEF refund, votingVars
<1>4. ASSUME NEW a \in Accounts, RunDeferred(a)
      PROVE  Inv'
  <2>1. CASE CanRefund(a) /\ PayRefund(a)
    BY <1>4, <2>1, RefundInv DEF RunDeferred, votingVars
  <2>2. CASE UNCHANGED <<liquid, refunds, request>>
    BY <1>4, <2>2, DropInv DEF RunDeferred, votingVars
  <2> QED BY <1>4, <2>1, <2>2 DEF RunDeferred
<1>5. ASSUME NEW a \in Accounts, DropDeferred(a)
      PROVE  Inv'
  BY <1>5, DropInv DEF DropDeferred, votingVars
<1>6. ASSUME NEW k \in Kinds, NEW a \in Accounts, NEW w, setacct(k, a, w)
      PROVE  Inv'
  BY <1>0, <1>6, ElsewhereInv DEF setacct
<1>7. ASSUME VotingNext, UNCHANGED stakeVars
      PROVE  Inv'
  <2>1. now' \in Times /\ now' >= now
    BY <1>0, <1>7, VotingClock
  <2> QED BY <1>7, <2>1, ElsewhereInv DEF stakeVars
<1>8. ASSUME UNCHANGED vars
      PROVE  Inv'
  BY <1>0, <1>8, ElsewhereInv DEF vars, stakeVars, votingVars
<1> QED BY <1>1, <1>2, <1>3, <1>4, <1>5, <1>6, <1>7, <1>8 DEF Next, StakeNext

(* The inductive invariant of staking holds in every reachable state. *)
THEOREM StakingInvariant == Spec => []Inv
BY InitInv, NextInv, PTL DEF Spec

(* eosio.stake holds exactly what is delegated and what is to be refunded,
   apart from what it delegated without paying, whatever mixture of staking,
   restaking, unstaking and refunding happens (changebw and refund). *)
THEOREM StakesAreBacked == Spec => []StakeIsBacked
<1>1. Inv => StakeIsBacked
  BY DEF Inv
<1> QED BY <1>1, StakingInvariant, PTL

(* The refunds table and the deferred transactions stay in step: a request has
   something to refund, and no transaction that is too early is pending. *)
THEOREM RequestsStayInStep == Spec => []RefundsInStep
<1>1. Inv => RefundsInStep
  BY DEF Inv
<1> QED BY <1>1, StakingInvariant, PTL

-----------------------------------------------------------------------------
(* A step changes one stake, with or without a gift; *)
StakeStep(source, from, receiver, d, transfer) ==
  /\ Change(source, from, receiver, d, transfer)
  /\ changebw(source, receiver, d, transfer, 0)
  /\ transfer => source # receiver
  /\ given' = IF transfer THEN moved(given, source, receiver, Sum(d)) ELSE given

(* or it pays a refund; *)
RefundStep(owner) ==
  /\ CanRefund(owner)
  /\ PayRefund(owner)
  /\ UNCHANGED <<delband, given>>

(* or it moves no tokens. *)
LEMMA StepsAre ==
  ASSUME [Next]_vars
  PROVE  \/ \E source, from, receiver \in Accounts, d \in [Kinds -> Int], transfer \in BOOLEAN :
              StakeStep(source, from, receiver, d, transfer)
         \/ \E owner \in Accounts : RefundStep(owner)
         \/ UNCHANGED <<liquid, delband, refunds, given>>
<1>1. ASSUME NEW source \in Accounts, NEW to \in Accounts, NEW d \in [Kinds -> Amounts],
             NEW transfer \in BOOLEAN, delegatebw(source, to, d, transfer, 0)
      PROVE  \E from \in Accounts, e \in [Kinds -> Int] : StakeStep(source, from, to, e, transfer)
  <2> DEFINE from == IF transfer THEN to ELSE source
  <2>1. ValidStake(d)
    BY <1>1 DEF delegatebw
  <2>2. from \in Accounts /\ Change(source, from, to, d, transfer) /\ d \in [Kinds -> Int]
    BY <2>1, DelegateIsChange, StakeAssumption
  <2>3. StakeStep(source, from, to, d, transfer)
    <3> HIDE DEF from
    <3> QED BY <1>1, <2>2 DEF StakeStep, delegatebw
  <2> QED BY <2>2, <2>3
<1>2. ASSUME NEW source \in Accounts, NEW to \in Accounts, NEW d \in [Kinds -> Amounts],
             undelegatebw(source, to, d, 0)
      PROVE  \E e \in [Kinds -> Int] : StakeStep(source, source, to, e, FALSE)
  <2> DEFINE e == [k \in Kinds |-> -d[k]]
  <2>1. ValidStake(d) /\ changebw(source, to, e, FALSE, 0) /\ given' = given
    BY <1>2 DEF undelegatebw
  <2>2. Change(source, source, to, e, FALSE)
    BY <2>1, DelegateIsChange
  <2>3. e \in [Kinds -> Int]
    BY <2>2 DEF Change
  <2>4. StakeStep(source, source, to, e, FALSE)
    <3> HIDE DEF e
    <3> QED BY <2>1, <2>2 DEF StakeStep
  <2> QED BY <2>3, <2>4
<1>3. ASSUME NEW a \in Accounts, refund(a) \/ RunDeferred(a) \/ DropDeferred(a)
      PROVE  RefundStep(a) \/ UNCHANGED <<liquid, delband, refunds, given>>
  BY <1>3 DEF refund, RunDeferred, DropDeferred, RefundStep
<1>4. ASSUME NEW k \in Kinds, NEW a \in Accounts, NEW w, setacct(k, a, w)
      PROVE  UNCHANGED <<liquid, delband, refunds, given>>
  BY <1>4 DEF setacct
<1>5. (UNCHANGED stakeVars \/ UNCHANGED vars) => UNCHANGED <<liquid, delband, refunds, given>>
  BY DEF stakeVars, vars
<1> DEFINE Staking == \E source, from, receiver \in Accounts, d \in [Kinds -> Int], transfer \in BOOLEAN :
                        StakeStep(source, from, receiver, d, transfer)
<1>6. ASSUME NEW source \in Accounts, NEW to \in Accounts, NEW d \in [Kinds -> Amounts],
             \/ \E transfer \in BOOLEAN : delegatebw(source, to, d, transfer, 0)
             \/ undelegatebw(source, to, d, 0)
      PROVE  Staking
  <2>1. ASSUME NEW transfer \in BOOLEAN, delegatebw(source, to, d, transfer, 0)
        PROVE  Staking
    <3>1. PICK from \in Accounts, e \in [Kinds -> Int] : StakeStep(source, from, to, e, transfer)
      BY <1>1, <2>1
    <3> QED BY <3>1
  <2>2. ASSUME undelegatebw(source, to, d, 0)
        PROVE  Staking
    <3>1. PICK e \in [Kinds -> Int] : StakeStep(source, source, to, e, FALSE)
      BY <1>2, <2>2
    <3> QED BY <3>1
  <2> HIDE DEF Staking
  <2> QED BY <1>6, <2>1, <2>2
<1> HIDE DEF Staking
<1>7. Staking \/ (\E owner \in Accounts : RefundStep(owner)) \/ UNCHANGED <<liquid, delband, refunds, given>>
  BY <1>3, <1>4, <1>5, <1>6 DEF Next, StakeNext
<1> QED BY <1>7 DEF Staking

(* Staking takes liquid tokens from the account that pays, if from any. *)
LEMMA StakingPays ==
  ASSUME StakeTypes, NEW source \in Accounts, NEW from \in Accounts, NEW receiver \in Accounts,
         NEW d, NEW transfer, Change(source, from, receiver, d, transfer),
         changebw(source, receiver, d, transfer, 0)
  PROVE  \A a \in Accounts \ {StakeAccount} : ~(liquid'[a] > liquid[a])
<1>1. liquid \in [Accounts -> Nat] /\ StakeAccount \in Accounts /\ \A a \in Accounts : liquid[a] \in Nat
  BY StakeAssumption DEF StakeTypes
<1>2. CASE source = StakeAccount
  <2>1. liquid' = liquid
    BY <1>2 DEF changebw
  <2> QED BY <1>1, <2>1
<1>3. CASE source # StakeAccount
  <2>1. ChangeRefunds(source, from, receiver, d, transfer)
    BY <1>3 DEF changebw, Change
  <2>2. \E pay \in Nat : Covers(liquid, source, pay) /\ liquid' = moved(liquid, source, StakeAccount, pay)
    BY <1>3, <2>1, RefundsChanged
  <2>3. PICK pay \in Nat : Covers(liquid, source, pay) /\ liquid' = moved(liquid, source, StakeAccount, pay)
    BY <2>2
  <2>4. /\ liquid'[source] = liquid[source] - pay
        /\ \A a \in Accounts \ {source, StakeAccount} : liquid'[a] = liquid[a]
    BY <1>1, <1>3, <2>3, MovedAmounts
  <2> QED BY <1>1, <2>4
<1> QED BY <1>2, <1>3

(* Unstaked tokens become liquid only RefundDelay after the last unstaking of
   their owner: both ways to refund check it, and every way to unstake
   restarts it (refund and changebw). *)
THEOREM RefundsWait == Spec => NoEarlyRefund
<1> DEFINE Waits == \A a \in Accounts : liquid'[a] > liquid[a] /\ a # StakeAccount =>
                      unstaked[a] + RefundDelay <= now
<1>1. Inv /\ [Next]_vars => Waits
  <2> SUFFICES ASSUME Inv, [Next]_vars, NEW a \in Accounts, liquid'[a] > liquid[a], a # StakeAccount
               PROVE  unstaked[a] + RefundDelay <= now
    OBVIOUS
  <2>0. /\ StakeTypes /\ RequestsInPast /\ liquid \in [Accounts -> Nat] /\ StakeAccount \in Accounts
        /\ RefundDelay \in Nat /\ now \in Nat
        /\ (request[a] # None => request[a] \in Nat) /\ unstaked[a] \in Int
    BY StakeAssumption, TimeAssumption DEF Inv, StakeTypes, Times, Epoch
  <2>1. ASSUME NEW source \in Accounts, NEW from \in Accounts, NEW receiver \in Accounts,
               NEW d \in [Kinds -> Int], NEW transfer \in BOOLEAN,
               StakeStep(source, from, receiver, d, transfer)
        PROVE  FALSE
    <3>1. ~(liquid'[a] > liquid[a])
      BY <2>0, <2>1, StakingPays DEF StakeStep
    <3> QED BY <3>1
  <2>2. ASSUME NEW owner \in Accounts, RefundStep(owner)
        PROVE  unstaked[a] + RefundDelay <= now
    <3> DEFINE due == refunds["net"][owner] + refunds["cpu"][owner]
    <3>1. /\ liquid' = moved(liquid, StakeAccount, owner, due) /\ owner # StakeAccount
          /\ Covers(liquid, StakeAccount, due)
          /\ request[owner] # None /\ request[owner] + RefundDelay <= now
      BY <2>2 DEF RefundStep, CanRefund, PayRefund, Matured
    <3>2. due \in Nat
      BY <2>0, KindsAre, OwedType
    <3> HIDE DEF due
    <3>3. \A h \in Accounts \ {StakeAccount, owner} : liquid'[h] = liquid[h]
      BY <2>0, <3>1, <3>2, MovedAmounts
    <3>4. a = owner
      BY <2>0, <3>3
    <3>5. unstaked[a] <= request[a]
      BY <2>0, <3>1, <3>4 DEF RequestsInPast
    <3> QED BY <2>0, <3>1, <3>4, <3>5
  <2>3. CASE UNCHANGED <<liquid, delband, refunds, given>>
    BY <2>0, <2>3
  <2> QED BY <2>1, <2>2, <2>3, StepsAre
<1>2. Inv /\ [Next]_vars => [Waits]_vars
  BY <1>1
<1>3. Spec => [][Waits]_vars
  <2> HIDE DEF Waits
  <2> QED BY <1>2, StakingInvariant, PTL DEF Spec
<1> QED BY <1>3 DEF NoEarlyRefund

-----------------------------------------------------------------------------
(* Refinement of Ownership *)

Due(a) == refunds["net"][a] + refunds["cpu"][a]

(* The wealth of an account in three parts, all natural numbers. *)
LEMMA WealthParts ==
  ASSUME StakeTypes, NEW a \in Accounts
  PROVE  /\ liquid[a] \in Nat /\ Total(DelegatedBy(a)) \in Nat /\ Due(a) \in Nat /\ Owed \in Nat
         /\ Held(a) = (liquid[a] + Total(DelegatedBy(a))) + Due(a)
         /\ Wealth[a] = IF a = StakeAccount THEN Held(a) - Owed ELSE Held(a)
<1>1. liquid[a] \in Nat /\ Due(a) \in Nat /\ Owed \in Nat
      /\ refunds["net"][a] \in Nat /\ refunds["cpu"][a] \in Nat
  BY OwedType, KindsAre DEF StakeTypes, Due
<1>2. DelegatedBy(a) \in [{a} \X Accounts -> Nat]
  BY KindsAre DEF StakeTypes, DelegatedBy, Pairs
<1>3. Total(DelegatedBy(a)) \in Nat
  BY <1>2, PairsFinite, TotalType
<1> QED BY <1>1, <1>3 DEF Held, Wealth, Due

(* The same after a step. *)
LEMMA WealthPartsNext ==
  ASSUME StakeTypes', NEW a \in Accounts
  PROVE  /\ liquid'[a] \in Nat /\ Total(DelegatedBy(a))' \in Nat /\ Due(a)' \in Nat /\ Owed' \in Nat
         /\ Held(a)' = (liquid'[a] + Total(DelegatedBy(a))') + Due(a)'
         /\ Wealth'[a] = IF a = StakeAccount THEN Held(a)' - Owed' ELSE Held(a)'
<1>0. delband' \in [Kinds -> [Pairs -> Nat]] /\ refunds' \in [Kinds -> [Accounts -> Nat]]
      /\ liquid' \in [Accounts -> Nat]
  BY DEF StakeTypes
<1>1. liquid'[a] \in Nat /\ Due(a)' \in Nat /\ Owed' \in Nat
      /\ refunds'["net"][a] \in Nat /\ refunds'["cpu"][a] \in Nat
  BY <1>0, OwedTypeNext, KindsAre DEF Due
<1>2. DelegatedBy(a)' \in [{a} \X Accounts -> Nat]
  BY <1>0, KindsAre DEF DelegatedBy, Pairs
<1>3. Total(DelegatedBy(a)') \in Nat
  BY <1>2, PairsFinite, TotalType
<1>4. Total(DelegatedBy(a))' \in Nat
  BY <1>3 DEF Total, Units, UnitsOf
<1> QED BY <1>1, <1>4 DEF Held, Wealth, Due

(* A stake change moves what its owner delegates, and nobody else. *)
LEMMA DelegatedChange ==
  ASSUME StakeTypes, NEW from \in Accounts, NEW receiver \in Accounts, NEW d \in [Kinds -> Int],
         delband' \in [Kinds -> [Pairs -> Nat]],
         \A k \in Kinds : /\ delband'[k][<<from, receiver>>] = delband[k][<<from, receiver>>] + d[k]
                          /\ \A j \in Pairs \ {<<from, receiver>>} : delband'[k][j] = delband[k][j]
  PROVE  \A a \in Accounts : Total(DelegatedBy(a))' = Total(DelegatedBy(a)) + IF a = from THEN Sum(d) ELSE 0
<1> SUFFICES ASSUME NEW a \in Accounts
             PROVE  Total(DelegatedBy(a))' = Total(DelegatedBy(a)) + IF a = from THEN Sum(d) ELSE 0
  OBVIOUS
<1> DEFINE D == {a} \X Accounts
           f == DelegatedBy(a)
           g == DelegatedBy(a)'
           i == <<from, receiver>>
<1>0. IsFiniteSet(D) /\ Sum(d) \in Int
  BY PairsFinite, KindsAre DEF Sum
<1>1. f \in [D -> Nat] /\ Total(f) \in Nat
  <2>1. f \in [D -> Nat]
    BY KindsAre DEF StakeTypes, DelegatedBy, Pairs
  <2> HIDE DEF f, D
  <2> QED BY <1>0, <2>1, TotalType
<1>2. g \in [D -> Nat]
  BY KindsAre DEF DelegatedBy, Pairs
<1>3. Total(DelegatedBy(a))' = Total(g)
  BY DEF Total, Units, UnitsOf
<1>4. CASE a # from
  <2>1. \A j \in D : g[j] = f[j]
    BY <1>4, KindsAre DEF DelegatedBy, Pairs
  <2>2. g = f
    <3> HIDE DEF f, g, D
    <3> QED BY <1>1, <1>2, <2>1
  <2> HIDE DEF f, g
  <2>3. Total(DelegatedBy(a))' = Total(f)
    BY <1>3, <2>2
  <2>4. Total(DelegatedBy(a))' = Total(f) + 0
    BY <1>1, <2>3
  <2> QED BY <1>4, <2>4 DEF f
<1>5. CASE a = from
  <2>1. i \in D /\ i \in Pairs
    BY <1>5 DEF Pairs
  <2>2. \A j \in D \ {i} : g[j] = f[j]
    BY <1>5, KindsAre DEF DelegatedBy, Pairs
  <2>3. g[i] = f[i] + Sum(d)
    <3>1. f[i] = delband["net"][i] + delband["cpu"][i] /\ g[i] = delband'["net"][i] + delband'["cpu"][i]
      BY <2>1 DEF DelegatedBy
    <3>2. /\ delband["net"][i] \in Nat /\ delband["cpu"][i] \in Nat
          /\ delband'["net"][i] = delband["net"][i] + d["net"]
          /\ delband'["cpu"][i] = delband["cpu"][i] + d["cpu"]
          /\ d["net"] \in Int /\ d["cpu"] \in Int
      BY <2>1, KindsAre DEF StakeTypes
    <3> HIDE DEF f, g, i
    <3> QED BY <3>1, <3>2 DEF Sum
  <2> HIDE DEF f, g, D, i
  <2>4. Total(g) = Total(f) - f[i] + g[i]
    BY <1>0, <1>1, <1>2, <2>1, <2>2, TotalDiffer
  <2>5. f[i] \in Nat /\ g[i] \in Nat
    BY <1>1, <1>2, <2>1
  <2>6. Total(g) = Total(f) + Sum(d)
    BY <1>0, <1>1, <2>3, <2>4, <2>5
  <2> QED BY <1>3, <1>5, <2>6 DEF f
<1> QED BY <1>4, <1>5

(* Staking moves p from the wealth of the account that stakes to that of the
   owner of the stake: the delegated amount when that is another account. *)
LEMMA StakeWealth ==
  ASSUME StakeTypes, StakeTypes', NEW source \in Accounts, NEW from \in Accounts,
         NEW receiver \in Accounts, NEW d \in [Kinds -> Int], NEW transfer \in BOOLEAN,
         StakeStep(source, from, receiver, d, transfer)
  PROVE  \E p \in Int :
           /\ transfer => p = Sum(d)
           /\ source # StakeAccount => liquid[source] >= p
           /\ \A a \in Accounts : Wealth'[a] = (Wealth[a] - (IF a = source THEN p ELSE 0))
                                                + (IF a = from THEN p ELSE 0)
<1>0. /\ StakeAccount \in Accounts /\ Sum(d) \in Int /\ liquid \in [Accounts -> Nat]
      /\ Change(source, from, receiver, d, transfer) /\ changebw(source, receiver, d, transfer, 0)
      /\ from = IF transfer THEN receiver ELSE source
  BY StakeAssumption, KindsAre DEF StakeStep, StakeTypes, Sum, Change
<1>1. /\ delband' = Added(delband, <<from, receiver>>, d) /\ userres' = Added(userres, receiver, d)
      /\ Sufficient(delband', <<from, receiver>>) /\ Sufficient(userres', receiver)
      /\ \/ /\ source # StakeAccount
            /\ ChangeRefunds(source, from, receiver, d, transfer)
            /\ UNCHANGED unbacked
         \/ /\ source = StakeAccount
            /\ unbacked' = unbacked + Sum(d)
            /\ UNCHANGED <<refunds, request, deferred, liquid>>
  BY <1>0 DEF changebw
<1>2. /\ delband' \in [Kinds -> [Pairs -> Nat]]
      /\ \A k \in Kinds : /\ Total(delband'[k]) = Total(delband[k]) + d[k]
                          /\ delband'[k][<<from, receiver>>] = delband[k][<<from, receiver>>] + d[k]
                          /\ \A j \in Pairs \ {<<from, receiver>>} : delband'[k][j] = delband[k][j]
  BY <1>1, StakesChanged
<1>3. \A a \in Accounts : Total(DelegatedBy(a))' = Total(DelegatedBy(a)) + IF a = from THEN Sum(d) ELSE 0
  BY <1>2, DelegatedChange
<1>4. Owed \in Nat /\ Owed' \in Nat
  BY OwedType, OwedTypeNext
<1>5. CASE source = StakeAccount
  <2>1. liquid' = liquid /\ refunds' = refunds
    BY <1>1, <1>5
  <2>2. Owed' = Owed + Sum(d)
    <3>1. \A k \in Kinds : Total(delband[k]) \in Nat /\ Total(refunds[k]) \in Nat /\ d[k] \in Int
      BY OwedType
    <3> QED BY <1>2, <2>1, <3>1, KindsAre DEF Owed, Sum
  <2>3. ASSUME NEW a \in Accounts
        PROVE  Wealth'[a] = (Wealth[a] - (IF a = source THEN Sum(d) ELSE 0)) + (IF a = from THEN Sum(d) ELSE 0)
    <3> DEFINE b == Total(DelegatedBy(a))
               c == Total(DelegatedBy(a))'
    <3>1. /\ liquid[a] \in Nat /\ b \in Nat /\ Due(a) \in Nat
          /\ Wealth[a] = IF a = StakeAccount THEN ((liquid[a] + b) + Due(a)) - Owed ELSE (liquid[a] + b) + Due(a)
      BY WealthParts
    <3>2. Wealth'[a] = IF a = StakeAccount THEN ((liquid'[a] + c) + Due(a)') - Owed' ELSE (liquid'[a] + c) + Due(a)'
      BY WealthPartsNext
    <3>3. c = b + (IF a = from THEN Sum(d) ELSE 0) /\ liquid'[a] = liquid[a] /\ Due(a)' = Due(a)
      BY <1>3, <2>1 DEF Due
    <3> HIDE DEF b, c
    <3>4. Wealth'[a] = IF a = StakeAccount
                       THEN ((liquid[a] + (b + (IF a = from THEN Sum(d) ELSE 0))) + Due(a)) - (Owed + Sum(d))
                       ELSE (liquid[a] + (b + (IF a = from THEN Sum(d) ELSE 0))) + Due(a)
      BY <2>2, <3>2, <3>3
    <3> QED BY <1>0, <1>4, <1>5, <3>1, <3>4
  <2> QED BY <1>0, <1>5, <2>3
<1>6. CASE source # StakeAccount
  <2> DEFINE due == Due(from)
  <2>1. PICK left \in [Kinds -> Nat], pay \in Nat :
           /\ refunds' = [k \in Kinds |-> [refunds[k] EXCEPT ![from] = left[k]]]
           /\ Covers(liquid, source, pay) /\ liquid' = moved(liquid, source, StakeAccount, pay)
           /\ Sum(left) + Sum(d) = due + pay
           /\ transfer => pay = Sum(d)
    <3>1. ChangeRefunds(source, from, receiver, d, transfer)
      BY <1>1, <1>6
    <3> QED BY <1>0, <1>6, <3>1, RefundsChanged DEF Due
  <2>2. /\ due \in Nat /\ Sum(left) \in Nat /\ pay \in Nat
    BY WealthParts, KindsAre DEF Sum
  <2>3. Owed' = Owed + pay
    <3>1. refunds' = [k \in Kinds |-> [refunds[k] EXCEPT ![from] = left[k]]]
      BY <2>1
    <3>2. \A k \in Kinds : Total(delband'[k]) = Total(delband[k]) + d[k]
      BY <1>2
    <3>3. Owed' + (refunds["net"][from] + refunds["cpu"][from]) = Owed + (Sum(d) + Sum(left))
      BY <3>1, <3>2, OwedChange
    <3> DEFINE x == Owed'
    <3>4. x \in Nat /\ Owed \in Nat /\ x + due = Owed + (Sum(d) + Sum(left))
      BY <1>4, <3>3 DEF Due
    <3>5. Sum(left) + Sum(d) = due + pay
      BY <2>1
    <3> HIDE DEF x, due
    <3>6. x = Owed + pay
      BY <1>0, <2>2, <3>4, <3>5
    <3> QED BY <3>6 DEF x
  <2>4. \A a \in Accounts : Due(a)' = IF a = from THEN Sum(left) ELSE Due(a)
    <3>1. \A k \in Kinds : /\ refunds'[k][from] = left[k]
                           /\ \A b \in Accounts \ {from} : refunds'[k][b] = refunds[k][b]
      BY <2>1, RefundsChange, ZenonT(30)
    <3> QED BY <3>1, KindsAre DEF Due, Sum
  <2>5. /\ liquid'[source] = liquid[source] - pay
        /\ liquid'[StakeAccount] = liquid[StakeAccount] + pay
        /\ \A a \in Accounts \ {source, StakeAccount} : liquid'[a] = liquid[a]
    <3>1. Covers(liquid, source, pay) /\ liquid' = moved(liquid, source, StakeAccount, pay)
      BY <2>1
    <3> QED BY <1>0, <1>6, <2>2, <3>1, MovedAmounts
  <2>6. ASSUME NEW a \in Accounts
        PROVE  Wealth'[a] = (Wealth[a] - (IF a = source THEN pay ELSE 0)) + (IF a = from THEN pay ELSE 0)
    <3> DEFINE b == Total(DelegatedBy(a))
               c == Total(DelegatedBy(a))'
               l == liquid[a]
               m == liquid'[a]
               r == Due(a)
               t == Due(a)'
    <3>1. /\ l \in Nat /\ b \in Nat /\ r \in Nat
          /\ Wealth[a] = IF a = StakeAccount THEN ((l + b) + r) - Owed ELSE (l + b) + r
      BY WealthParts
    <3>2. /\ m \in Nat /\ c \in Nat /\ t \in Nat
          /\ Wealth'[a] = IF a = StakeAccount THEN ((m + c) + t) - Owed' ELSE (m + c) + t
      BY WealthPartsNext
    <3>3. c = b + IF a = from THEN Sum(d) ELSE 0
      BY <1>3
    <3>4. t = (IF a = from THEN Sum(left) ELSE r) /\ (a = from => r = due)
      BY <2>4
    <3>5. /\ (a = source => m = l - pay) /\ (a = StakeAccount => m = l + pay)
          /\ (a # source /\ a # StakeAccount => m = l)
      BY <2>5
    <3>6. Sum(left) + Sum(d) = due + pay
      BY <2>1
    <3> HIDE DEF b, c, l, m, r, t, due
    <3>7. c + t = (b + r) + IF a = from THEN pay ELSE 0
      BY <1>0, <2>2, <3>1, <3>3, <3>4, <3>6
    <3>8. a = StakeAccount => Wealth'[a] = ((m + c) + t) - (Owed + pay)
      BY <2>3, <3>2
    <3>9. CASE a = StakeAccount
      <4>1. m = l + pay /\ a # source
        BY <1>6, <3>5, <3>9
      <4>2. Wealth'[a] = ((m + c) + t) - (Owed + pay) /\ Wealth[a] = ((l + b) + r) - Owed
        BY <3>1, <3>8, <3>9
      <4>3. Owed \in Int
        BY <1>4
      <4> DEFINE y == IF a = from THEN pay ELSE 0
                 o == Owed
                 w == Wealth[a]
                 v == Wealth'[a]
      <4>4. /\ y \in Nat /\ c + t = (b + r) + y /\ o \in Int
            /\ v = ((m + c) + t) - (o + pay) /\ w = ((l + b) + r) - o
        BY <2>2, <3>7, <4>2, <4>3
      <4> HIDE DEF y, o, w, v
      <4>5. v = (w - 0) + y
        BY <2>2, <3>1, <3>2, <4>1, <4>4
      <4> QED BY <4>1, <4>5 DEF y, w, v
    <3>10. CASE a # StakeAccount
      BY <2>2, <3>1, <3>2, <3>5, <3>7, <3>10
    <3> QED BY <3>9, <3>10
  <2>7. transfer => pay = Sum(d)
    BY <2>1
  <2>8. liquid[source] >= pay /\ pay \in Int
    BY <2>1 DEF Covers
  <2> QED BY <2>6, <2>7, <2>8
<1> QED BY <1>5, <1>6

(* A refund leaves everybody's wealth as it is. *)
LEMMA RefundWealth ==
  ASSUME StakeTypes, StakeTypes', NEW owner \in Accounts, RefundStep(owner)
  PROVE  \A a \in Accounts : Wealth'[a] = Wealth[a]
<1> DEFINE due == Due(owner)
           zero == [k \in Kinds |-> 0]
<1>0. /\ StakeAccount \in Accounts /\ liquid \in [Accounts -> Nat] /\ Owed \in Nat /\ Owed' \in Nat
  BY StakeAssumption, OwedType, OwedTypeNext DEF StakeTypes
<1>1. /\ liquid' = moved(liquid, StakeAccount, owner, due) /\ owner # StakeAccount
      /\ Covers(liquid, StakeAccount, due) /\ delband' = delband
      /\ refunds' = [k \in Kinds |-> [refunds[k] EXCEPT ![owner] = zero[k]]]
  BY DEF RefundStep, CanRefund, PayRefund, Due
<1>2. zero \in [Kinds -> Nat] /\ zero \in [Kinds -> Int] /\ Sum(zero) = 0 /\ \A k \in Kinds : zero[k] = 0
  BY KindsAre DEF Sum
<1>3. due \in Nat
  BY WealthParts
<1> HIDE DEF due, zero
<1>4. /\ liquid'[owner] = liquid[owner] + due /\ liquid'[StakeAccount] = liquid[StakeAccount] - due
      /\ \A a \in Accounts \ {StakeAccount, owner} : liquid'[a] = liquid[a]
  BY <1>0, <1>1, <1>3, MovedAmounts
<1>5. \A a \in Accounts : Due(a)' = IF a = owner THEN 0 ELSE Due(a)
  <2>1. \A k \in Kinds : /\ refunds'[k][owner] = zero[k]
                         /\ \A b \in Accounts \ {owner} : refunds'[k][b] = refunds[k][b]
    BY <1>1, <1>2, RefundsChange
  <2> QED BY <1>2, <2>1, KindsAre DEF Due
<1>6. Owed' = Owed - due
  <2>1. \A k \in Kinds : Total(delband'[k]) = Total(delband[k]) + zero[k]
    BY <1>1, <1>2, OwedType
  <2>2. Owed' + (refunds["net"][owner] + refunds["cpu"][owner]) = Owed + (Sum(zero) + Sum(zero))
    BY <1>1, <1>2, <2>1, OwedChange
  <2> DEFINE x == Owed'
  <2>3. x \in Nat /\ Owed \in Nat /\ x + due = Owed + (0 + 0)
    BY <1>0, <1>2, <2>2 DEF due, Due
  <2> HIDE DEF x
  <2>4. x = Owed - due
    BY <1>3, <2>3
  <2> QED BY <2>4 DEF x
<1>7. ASSUME NEW a \in Accounts
      PROVE  Wealth'[a] = Wealth[a]
  <2> DEFINE b == Total(DelegatedBy(a))
             l == liquid[a]
             m == liquid'[a]
             r == Due(a)
             t == Due(a)'
  <2>1. /\ l \in Nat /\ b \in Nat /\ r \in Nat
        /\ Wealth[a] = IF a = StakeAccount THEN ((l + b) + r) - Owed ELSE (l + b) + r
    BY WealthParts
  <2>2. Total(DelegatedBy(a))' = b
    BY <1>1 DEF Total, Units, UnitsOf, DelegatedBy
  <2>3. Wealth'[a] = IF a = StakeAccount THEN ((m + b) + t) - Owed' ELSE (m + b) + t
    BY <2>2, WealthPartsNext
  <2>4. t = (IF a = owner THEN 0 ELSE r) /\ (a = owner => r = due)
    BY <1>5 DEF due
  <2>5. /\ (a = owner => m = l + due) /\ (a = StakeAccount => m = l - due)
        /\ (a # owner /\ a # StakeAccount => m = l)
    BY <1>4
  <2> HIDE DEF b, l, m, r, t
  <2>6. CASE a = StakeAccount
    <3>1. Wealth'[a] = ((m + b) + t) - (Owed - due) /\ t = r /\ m = l - due
      BY <1>1, <1>6, <2>3, <2>4, <2>5, <2>6
    <3> QED BY <1>0, <1>3, <2>1, <2>6, <3>1
  <2>7. CASE a # StakeAccount
    BY <1>3, <2>1, <2>3, <2>4, <2>5, <2>7
  <2> QED BY <2>6, <2>7
<1> QED BY <1>7

(* Wealth is a function of the accounts, equal after a step when its values are. *)
LEMMA WealthSame ==
  ASSUME \A a \in Accounts : Wealth'[a] = Wealth[a]
  PROVE  Wealth' = Wealth
<1> DEFINE f == Wealth
           g == Wealth'
<1>1. f = [a \in Accounts |-> f[a]] /\ g = [a \in Accounts |-> g[a]]
  BY DEF Wealth
<1>2. \A a \in Accounts : g[a] = f[a]
  OBVIOUS
<1> HIDE DEF f, g
<1>3. g = f
  BY <1>1, <1>2
<1> QED BY <1>3 DEF f, g

(* Initially everybody owns its liquid tokens. *)
LEMMA WealthInit == Init => Wealth = Liquid
<1> SUFFICES ASSUME Init PROVE Wealth = Liquid
  OBVIOUS
<1>0. StakeTypes /\ liquid = Liquid /\ Liquid \in [Accounts -> Nat] /\ Liquid[StakeAccount] = 0
  BY InitInv, StakeAssumption DEF Inv, Init
<1>1. \A k \in Kinds : Total(delband[k]) = 0 /\ Total(refunds[k]) = 0 /\ \A a \in Accounts : refunds[k][a] = 0
  BY TotalZero DEF Init
<1>2. Owed = 0
  BY <1>1, KindsAre DEF Owed
<1>3. ASSUME NEW a \in Accounts
      PROVE  Wealth[a] = Liquid[a]
  <2>1. DelegatedBy(a) = [pair \in {a} \X Accounts |-> 0]
    BY KindsAre DEF Init, DelegatedBy, Pairs
  <2>2. Total(DelegatedBy(a)) = 0 /\ Due(a) = 0
    BY <1>1, <2>1, TotalZero, KindsAre DEF Due
  <2>3. Liquid[a] \in Nat
    BY <1>0
  <2> QED BY <1>0, <1>2, <2>2, <2>3, WealthParts
<1>4. Wealth = [a \in Accounts |-> Wealth[a]]
  BY DEF Wealth
<1> HIDE DEF Wealth
<1> QED BY <1>0, <1>3, <1>4

(* Every step is a gift of Ownership or leaves wealth and gifts alone. *)
LEMMA StepRefines ==
  ASSUME StakeTypes, StakeTypes', [Next]_vars
  PROVE  Owners!Next \/ UNCHANGED <<Wealth, given>>
<1>0. given \in [Accounts -> Int]
  BY DEF StakeTypes
<1>1. ASSUME NEW source \in Accounts, NEW from \in Accounts, NEW receiver \in Accounts,
             NEW d \in [Kinds -> Int], NEW transfer \in BOOLEAN,
             StakeStep(source, from, receiver, d, transfer)
      PROVE  Owners!Next \/ UNCHANGED <<Wealth, given>>
  <2>0. /\ Sum(d) \in Int /\ (transfer => source # receiver /\ Sum(d) > 0 /\ from = receiver)
        /\ (~transfer => from = source)
        /\ given' = IF transfer THEN moved(given, source, receiver, Sum(d)) ELSE given
    BY <1>1, KindsAre DEF StakeStep, Change, Sum
  <2>1. PICK p \in Int :
           /\ transfer => p = Sum(d)
           /\ source # StakeAccount => liquid[source] >= p
           /\ \A a \in Accounts : Wealth'[a] = (Wealth[a] - (IF a = source THEN p ELSE 0))
                                                + (IF a = from THEN p ELSE 0)
    BY <1>1, StakeWealth
  <2>2. ASSUME NEW a \in Accounts
        PROVE  Wealth[a] \in Int /\ (a # StakeAccount => Wealth[a] >= liquid[a])
    <3>1. /\ liquid[a] \in Nat /\ Total(DelegatedBy(a)) \in Nat /\ Due(a) \in Nat /\ Owed \in Nat
          /\ Held(a) = (liquid[a] + Total(DelegatedBy(a))) + Due(a)
          /\ Wealth[a] = IF a = StakeAccount THEN Held(a) - Owed ELSE Held(a)
      BY WealthParts
    <3> QED BY <3>1
  <2>3. CASE ~transfer
    <3>1. \A a \in Accounts : Wealth'[a] = Wealth[a]
      BY <2>0, <2>1, <2>2, <2>3
    <3> QED BY <2>0, <2>3, <3>1, WealthSame
  <2>4. CASE transfer
    <3> DEFINE f == Wealth
               g == Wealth'
               q == given'[receiver] - given[receiver]
    <3>1. q = Sum(d) /\ given' = moved(given, source, receiver, q)
      <4>1. given' = moved(given, source, receiver, Sum(d))
        BY <2>0, <2>4
      <4>2. given'[receiver] = given[receiver] + Sum(d) /\ given[receiver] \in Int
        BY <1>0, <2>0, <2>4, <4>1, MovedGifts
      <4>3. q = Sum(d)
        BY <2>0, <4>2
      <4> QED BY <4>1, <4>3
    <3>2. f \in [Accounts -> Int] /\ g = [a \in Accounts |-> g[a]]
      <4>1. f = [a \in Accounts |-> f[a]] /\ g = [a \in Accounts |-> g[a]]
        BY DEF Wealth
      <4>2. \A a \in Accounts : f[a] \in Int
        BY <2>2
      <4> HIDE DEF f, g
      <4> QED BY <4>1, <4>2
    <3>3. \A a \in Accounts : g[a] = (f[a] - (IF a = source THEN q ELSE 0)) + (IF a = receiver THEN q ELSE 0)
      BY <2>0, <2>1, <2>4, <3>1
    <3>4. q \in Int /\ q > 0 /\ source # receiver
      BY <2>0, <2>4, <3>1
    <3>5. source # StakeAccount => f[source] >= q
      <4> SUFFICES ASSUME source # StakeAccount PROVE f[source] >= q
        OBVIOUS
      <4>1. liquid[source] >= q /\ f[source] >= liquid[source] /\ f[source] \in Int
        BY <2>1, <2>2, <2>4, <3>1
      <4>2. liquid[source] \in Nat
        BY DEF StakeTypes
      <4> HIDE DEF f, q
      <4> QED BY <3>4, <4>1, <4>2
    <3> HIDE DEF f, g, q
    <3>6. g = moved(f, source, receiver, q)
      <4>1. /\ moved(f, source, receiver, q) \in [Accounts -> Int]
            /\ moved(f, source, receiver, q)[source] = f[source] - q
            /\ moved(f, source, receiver, q)[receiver] = f[receiver] + q
            /\ \A a \in Accounts \ {source, receiver} : moved(f, source, receiver, q)[a] = f[a]
        <5>1. f \in [Accounts -> Int] /\ q \in Int /\ source # receiver
          BY <3>2, <3>4
        <5> QED BY <5>1 DEF moved, sub_balance, add_balance
      <4>2. \A a \in Accounts : f[a] \in Int
        BY <3>2
      <4>3. \A a \in Accounts : g[a] = moved(f, source, receiver, q)[a]
        BY <3>3, <3>4, <4>1, <4>2
      <4> QED BY <3>2, <4>1, <4>3
    <3>7. Owners!Give(source, receiver, q)
      BY <3>1, <3>4, <3>5, <3>6
         DEF Owners!Give, Owners!moved, Owners!sub_balance, Owners!add_balance, Owners!Covers,
             moved, sub_balance, add_balance, f, g
    <3> QED BY <3>7 DEF Owners!Next, q
  <2> QED BY <2>3, <2>4
<1>2. ASSUME NEW owner \in Accounts, RefundStep(owner)
      PROVE  UNCHANGED <<Wealth, given>>
  BY <1>2, RefundWealth, WealthSame DEF RefundStep
<1>3. ASSUME UNCHANGED <<liquid, delband, refunds, given>>
      PROVE  UNCHANGED <<Wealth, given>>
  BY <1>3 DEF Wealth, Held, Owed, DelegatedBy, Total, Units, UnitsOf
<1> QED BY <1>1, <1>2, <1>3, StepsAre

(* Staking implements Ownership: only a delegation with transfer changes what
   accounts own, by the amount it says, out of what the giver has. *)
THEOREM OwnershipKept == Spec => KeepsOwnership
<1>1. Init => Owners!Init
  BY WealthInit DEF Owners!Init, Init
<1>2. Inv /\ Inv' /\ [Next]_vars => [Owners!Next]_<<Wealth, given>>
  BY StepRefines DEF Inv
<1>3. Spec => Owners!Spec
  BY <1>1, <1>2, StakingInvariant, PTL DEF Spec, Owners!Spec
<1> QED BY <1>3 DEF KeepsOwnership

-----------------------------------------------------------------------------
(* Votes *)

(* Initially nobody has voted and all weights are zero. *)
LEMMA InitVotes == Init => VotesInv
BY VotesBegin DEF Init

(* What a step of voting and staking does to votes and activation *)
VoteStep ==
  \/ \E v \in Accounts, px \in Accounts \cup {None}, ps \in SUBSET Producers : voteproducer(v, px, ps, 0)
  \/ \E v \in Accounts, isp \in BOOLEAN : regproxy(v, isp)
  \/ \E p \in Producers : regproducer(p)
  \/ \E v \in Accounts, d \in Int : /\ update_voting_power(v, d) /\ UNCHANGED <<now, prodVars>>
                                    /\ d < 0 => ChainActivated
  \/ \E p \in Producers : unregprod(p)
  \/ VotingTick
  \/ /\ UNCHANGED <<now, staked, voteVars, tally, activated, thresh, prodVars>>
     /\ \E a \in Accounts : voters' \in {voters, voters \cup {a}}
  \/ UNCHANGED votingVars

(* Every step is one of these: only undelegatebw, once activated, lowers a stake. *)
LEMMA VoteSteps == [Next]_vars => VoteStep
<1> SUFFICES ASSUME [Next]_vars PROVE VoteStep
  OBVIOUS
<1>1. ASSUME NEW source \in Accounts, NEW to \in Accounts, NEW d \in [Kinds -> Int], NEW transfer,
             changebw(source, to, d, transfer, 0), Sum(d) < 0 => ChainActivated
      PROVE  VoteStep
  <2>1. Sum(d) \in Int /\ Sum(d) + 0 = Sum(d)
    BY KindsAre DEF Sum
  <2>2. PICK v \in Accounts : update_voting_power(v, Sum(d) + 0) /\ UNCHANGED <<now, prodVars>>
    BY <1>1 DEF changebw
  <2>3. update_voting_power(v, Sum(d)) /\ UNCHANGED <<now, prodVars>>
    BY <2>1, <2>2
  <2> QED BY <1>1, <2>1, <2>3 DEF VoteStep
<1>2. ASSUME NEW from \in Accounts, NEW to \in Accounts, NEW d \in [Kinds -> Amounts],
             NEW transfer, delegatebw(from, to, d, transfer, 0)
      PROVE  VoteStep
  <2>1. d \in [Kinds -> Int] /\ ~(Sum(d) < 0)
    <3>1. \A k \in Kinds : d[k] \in Int
      BY StakeAssumption
    <3>2. d \in [Kinds -> Int] /\ d["net"] \in Int /\ d["cpu"] \in Int
      BY <3>1, KindsAre
    <3> QED BY <1>2, <3>2 DEF delegatebw, ValidStake, Sum
  <2> QED BY <1>1, <1>2, <2>1 DEF delegatebw
<1>3. ASSUME NEW from \in Accounts, NEW to \in Accounts, NEW d \in [Kinds -> Amounts],
             undelegatebw(from, to, d, 0)
      PROVE  VoteStep
  <2> DEFINE m == [k \in Kinds |-> -d[k]]
  <2>1. m \in [Kinds -> Int]
    <3>1. \A k \in Kinds : d[k] \in Int
      BY StakeAssumption
    <3> QED BY <3>1
  <2>2. changebw(from, to, m, FALSE, 0) /\ ChainActivated
    BY <1>3 DEF undelegatebw
  <2> HIDE DEF m
  <2> QED BY <1>1, <2>1, <2>2
<1>4. ASSUME NEW a \in Accounts, refund(a) \/ RunDeferred(a) \/ DropDeferred(a)
      PROVE  VoteStep
  BY <1>4 DEF refund, RunDeferred, DropDeferred, VoteStep
<1>5. ASSUME NEW k, NEW a \in Accounts, NEW w, setacct(k, a, w)
      PROVE  VoteStep
  BY <1>5 DEF setacct, VoteStep
<1>6. VotingNext => VoteStep
  BY DEF VotingNext, VoteStep
<1>7. StakeNext => VoteStep
  BY <1>2, <1>3, <1>4, <1>5 DEF StakeNext
<1>8. UNCHANGED vars => VoteStep
  BY DEF vars, VoteStep
<1> QED BY <1>6, <1>7, <1>8 DEF Next

(* Every step keeps the votes in order, *)
LEMMA NextVotes == VotesInv /\ [Next]_vars => VotesInv'
<1> SUFFICES ASSUME VotesInv, VoteStep PROVE VotesInv'
  BY VoteSteps
<1>1. ASSUME NEW v \in Accounts, NEW px \in Accounts \cup {None}, NEW ps \in SUBSET Producers,
             voteproducer(v, px, ps, 0)
      PROVE  VotesInv'
  <2>1. 0 \in Int /\ staked[v] + 0 \in Nat
    BY InvParts
  <2> QED BY <1>1, <2>1, VoteInv
<1> QED BY <1>1, ProxyStepInv, RegisterInv, PowerInv, OtherVotingInv DEF VoteStep

(* and the activated stake within what the voters have staked. *)
LEMMA NextActivation ==
  ASSUME MinActivated \in Nat \ {0}
  PROVE  VotesInv /\ ActivationInv /\ [Next]_vars => ActivationInv'
<1> SUFFICES ASSUME VotesInv, ActivationInv, [Next]_vars PROVE ActivationInv'
  OBVIOUS
<1>0. VotesInv' /\ VoteStep /\ staked \in [Accounts -> Nat] /\ \A a \in Accounts : staked[a] <= staked[a]
  BY NextVotes, VoteSteps, InvParts
<1>1. ASSUME NEW v \in Accounts, NEW px \in Accounts \cup {None}, NEW ps \in SUBSET Producers,
             voteproducer(v, px, ps, 0)
      PROVE  ActivationInv'
  <2>1. 0 \in Int /\ staked[v] + 0 \in Nat
    BY <1>0
  <2>2. KeepsWeight(tally, tally', staked', v)
    BY <1>1, <2>1, VoteInv
  <2>3. Activate(staked', v) /\ voted' = voted \cup {v} /\ staked' = [staked EXCEPT ![v] = @ + 0]
    BY <1>1 DEF voteproducer
  <2>4. \A a \in Accounts : staked[a] <= staked'[a]
    BY <1>0, <2>3
  <2>5. voted \subseteq voted' /\ v \in voted'
    BY <2>3
  <2> QED BY <1>0, <2>2, <2>3, <2>4, <2>5, ActivationKept
<1>2. ASSUME NEW v \in Accounts, NEW isp \in BOOLEAN, regproxy(v, isp)
      PROVE  ActivationInv'
  <2>1. Touches(tally, tally', staked, Accounts)
    BY <1>2, ProxyStepInv
  <2>2. voted' = voted /\ activated' = activated /\ thresh' = thresh /\ staked' = staked
    BY <1>2 DEF regproxy
  <2>3. \A a \in Accounts : tally.last_vote_weight[a] > 0 /\ staked'[a] > 0 => tally'.last_vote_weight[a] > 0
    BY <2>1, <2>2 DEF Touches
  <2> QED BY <1>0, <2>2, <2>3, ActivationKept
<1>3. ASSUME NEW p \in Producers, regproducer(p)
      PROVE  ActivationInv'
  <2>1. tally'.last_vote_weight = tally.last_vote_weight
    BY <1>3, RegisterInv
  <2>2. voted' = voted /\ activated' = activated /\ thresh' = thresh /\ staked' = staked
    BY <1>3 DEF regproducer, voteVars
  <2> QED BY <1>0, <2>1, <2>2, ActivationKept
<1>4. ASSUME NEW v \in Accounts, NEW d \in Int, update_voting_power(v, d), UNCHANGED <<now, prodVars>>,
             d < 0 => ChainActivated
      PROVE  ActivationInv'
  <2>1. staked' = [staked EXCEPT ![v] = @ + d] /\ (HasVote(v) => KeepsWeight(tally, tally', staked', v))
    BY <1>4, PowerInv
  <2>2. voted' = voted
    BY <1>4 DEF update_voting_power, voteVars
  <2>3. activated >= MinActivated \/ \A a \in Accounts : staked[a] <= staked'[a]
    <3>1. CASE d < 0
      BY <1>4, <3>1 DEF ChainActivated
    <3>2. CASE ~(d < 0)
      BY <1>0, <2>1, <3>2
    <3> QED BY <3>1, <3>2
  <2>4. CASE HasVote(v)
    <3>1. Activate(staked', v)
      BY <1>4, <2>4 DEF update_voting_power
    <3>2. v \in voted
      BY <2>4 DEF VotesInv
    <3>3. v \in voted' /\ KeepsWeight(tally, tally', staked', v)
      BY <2>1, <2>2, <2>4, <3>2
    <3> QED BY <1>0, <2>2, <2>3, <3>1, <3>3, ActivationKept
  <2>5. CASE ~HasVote(v)
    <3>1. tally' = tally /\ activated' = activated /\ thresh' = thresh
      BY <1>4, <2>5 DEF update_voting_power
    <3> QED BY <1>0, <2>2, <2>3, <3>1, ActivationKept
  <2> QED BY <2>4, <2>5
<1>5. ASSUME tally' = tally, staked' = staked, voted' = voted, activated' = activated, thresh' = thresh
      PROVE  ActivationInv'
  BY <1>0, <1>5, ActivationKept
<1> QED BY <1>0, <1>1, <1>2, <1>3, <1>4, <1>5, OtherVotingInv DEF VoteStep

(* The invariant of the votes holds. *)
THEOREM VotesInvariant == Spec => []VotesInv
BY InitVotes, NextVotes, PTL DEF Spec

(* The votes of producers are what accounts and proxies cast for them, after any
   votes, stakes and changes of proxies (update_votes, propagate_weight_change). *)
THEOREM VotesAreCast == Spec => []VotesAddUp
<1>1. VotesInv => VotesAddUp
  BY DEF VotesInv, AddsUp, VotesAddUp, Cast
<1> QED BY <1>1, VotesInvariant, PTL

(* A proxy holds the weights that the accounts that use it cast. *)
THEOREM ProxiesHoldVotes == Spec => []ProxiedAddsUp
<1>1. VotesInv => ProxiedAddsUp
  BY DEF VotesInv, AddsUp, ProxiedAddsUp, Cast
<1> QED BY <1>1, VotesInvariant, PTL

(* No vote lags behind the stake and the proxied weight it stands for: the
   recursion of propagate_weight_change follows the proxies to their end. *)
THEOREM VotesStayCurrent == Spec => []CastIsCurrent
<1>1. VotesInv => CastIsCurrent
  BY DEF VotesInv, VotingTypeOK, Current, HasVote, CastIsCurrent
<1> QED BY <1>1, VotesInvariant, PTL

(* Nobody can make proxies go in a circle, whatever order of voting, registering
   and unregistering as a proxy and staking: propagate_weight_change ends
   (update_votes and regproxy). *)
THEOREM ProxiesEnd == Spec => []NoProxyCycle
<1>1. VotesInv => NoProxyCycle
  BY DEF VotesInv, ProxyInv
<1> QED BY <1>1, VotesInvariant, PTL

(* Where activation needs any stake at all, as min_activated_stake does, it is
   reached by stake that is there, and the time it was reached is kept. *)
THEOREM ActivationHolds ==
  ASSUME MinActivated \in Nat \ {0}
  PROVE  Spec => []ActivationIsBacked
<1>1. Init => ActivationInv
  <2> SUFFICES ASSUME Init PROVE ActivationInv
    OBVIOUS
  <2>1. activated = 0 /\ thresh = None /\ voted = {} /\ staked \in [Accounts -> Nat]
    BY DEF Init, VotingInit
  <2>2. Counting(tally.last_vote_weight, staked, voted) = [a \in Accounts |-> 0]
    BY <2>1 DEF Counting
  <2> DEFINE z == [a \in Accounts |-> 0]
  <2>3. z \in [Accounts -> Int] /\ IsFiniteSet(Accounts) /\ \A a \in Accounts \ {} : z[a] = 0
    BY VotingSetsAssumption
  <2> HIDE DEF z
  <2>4. SumFunctionOnSet(z, Accounts) = SumFunctionOnSet(z, {}) /\ SumFunctionOnSet(z, {}) = 0
    BY <2>3, SumZeros, SumEmpty
  <2>5. Counted = 0
    BY <2>2, <2>4 DEF Counted, z
  <2> QED BY <2>1, <2>5 DEF ActivationInv
<1>2. VotesInv /\ ActivationInv /\ [Next]_vars => ActivationInv'
  BY NextActivation
<1>3. VotesInv /\ ActivationInv => ActivationIsBacked
  BY ActivationBacked
<1> QED BY <1>1, <1>2, <1>3, VotesInvariant, PTL DEF Spec

-----------------------------------------------------------------------------
(* Limits and the accounts that manage them are of their types as well. *)
LimitTypes ==
  /\ limit \in [Kinds -> [Accounts -> Nat \cup {-1}]]
  /\ managed \in [Kinds -> SUBSET Accounts]

(* Every step keeps the types of the limits. *)
LEMMA NextLimits == Inv /\ Inv' /\ LimitTypes /\ [Next]_vars => LimitTypes'
<1> SUFFICES ASSUME Inv, Inv', LimitTypes, [Next]_vars PROVE LimitTypes'
  OBVIOUS
<1>0. userres \in [Kinds -> [Accounts -> Nat]] /\ userres' \in [Kinds -> [Accounts -> Nat]]
  BY DEF Inv, StakeTypes
<1>1. ASSUME NEW source, NEW to \in Accounts, NEW d, NEW transfer, changebw(source, to, d, transfer, 0)
      PROVE  LimitTypes'
  BY <1>0, <1>1 DEF changebw, LimitsAfter, LimitTypes
<1>2. ASSUME NEW from \in Accounts, NEW to \in Accounts, NEW d,
             (\E transfer \in BOOLEAN : delegatebw(from, to, d, transfer, 0)) \/ undelegatebw(from, to, d, 0)
      PROVE  LimitTypes'
  BY <1>1, <1>2 DEF delegatebw, undelegatebw
<1>3. ASSUME NEW k \in Kinds, NEW a \in Accounts, NEW w \in Managed \cup {None}, setacct(k, a, w)
      PROVE  LimitTypes'
  <2>1. w # None => w \in Nat \cup {-1}
    BY StakeAssumption
  <2>2. PICK x \in Nat \cup {-1}, S \in SUBSET Accounts :
           limit' = [limit EXCEPT ![k][a] = x] /\ managed' = [managed EXCEPT ![k] = S]
    <3>1. CASE w = None
      <4>1. /\ managed' = [managed EXCEPT ![k] = managed[k] \ {a}]
            /\ limit' = [limit EXCEPT ![k][a] = userres[k][a]]
        BY <1>3, <3>1 DEF setacct, LimitRestored
      <4>2. managed[k] \ {a} \in SUBSET Accounts /\ userres[k][a] \in Nat \cup {-1}
        BY <1>0 DEF LimitTypes
      <4> QED BY <4>1, <4>2
    <3>2. CASE w # None
      <4>1. managed' = [managed EXCEPT ![k] = managed[k] \cup {a}] /\ limit' = [limit EXCEPT ![k][a] = w]
        BY <1>3, <3>2 DEF setacct
      <4>2. managed[k] \cup {a} \in SUBSET Accounts
        BY DEF LimitTypes
      <4> QED BY <2>1, <3>2, <4>1, <4>2
    <3> QED BY <3>1, <3>2
  <2> QED BY <2>2 DEF LimitTypes
<1>4. ASSUME limit' = limit, managed' = managed
      PROVE  LimitTypes'
  BY <1>4 DEF LimitTypes
<1>5. ASSUME NEW a, refund(a) \/ RunDeferred(a) \/ DropDeferred(a)
      PROVE  LimitTypes'
  BY <1>4, <1>5 DEF refund, RunDeferred, DropDeferred
<1>6. StakeNext => LimitTypes'
  BY <1>2, <1>3, <1>5 DEF StakeNext
<1> QED BY <1>4, <1>6 DEF Next, vars, stakeVars

(* All of the state of voting and staking is of its type. *)
THEOREM TypesKept == Spec => []TypeOK
<1>1. Init => LimitTypes
  BY DEF Init, LimitTypes
<1>2. Inv /\ VotesInv /\ LimitTypes => TypeOK
  BY DEF Inv, StakeTypes, VotesInv, LimitTypes, TypeOK
<1> QED BY <1>1, <1>2, NextLimits, StakingInvariant, VotesInvariant, PTL DEF Spec

-----------------------------------------------------------------------------
(* REX *)

(* Sums over all loans of the tables s *)
StakedOf == [l \in Loans |-> l.staked]
BalanceOf == [l \in Loans |-> l.balance]
StakedFor(a) == [l \in Loans |-> IF l.receiver = a THEN l.staked ELSE 0]

Over(f, s) == SumFunctionOnSet(f, s.loans["net"]) + SumFunctionOnSet(f, s.loans["cpu"])

(* Sums over all users *)
RexIn(b) == IF b = None THEN 0 ELSE b.rex
Owing(o) == IF IsFilled(o) THEN o.proceeds ELSE 0

RexHeld(s) == SumFunctionOnSet([a \in Users |-> RexIn(s.bal[a])], Users)
Uncollected(s) == SumFunctionOnSet([a \in Users |-> Owing(s.orders[a])], Users)
Funds(s) == SumFunctionOnSet(s.fund, Users)

Lendable(s) == IF s.pool = None THEN 0 ELSE s.pool.lendable

-----------------------------------------------------------------------------
(* The books: what the tables s say at time n *)

PoolOK(s) ==
  s.pool # None =>
    /\ s.pool.lendable = s.pool.unlent + s.pool.lent
    /\ s.pool.lent = Over(StakedOf, s)
    /\ s.pool.total_rex = RexHeld(s)
    /\ s.pool.total_rex = 0 <=> s.pool.lendable = 0
    /\ s.pool.proceeds > 0 => s.pool.total_rex > 0

BackedOK(s) == s.held.rex = ((Funds(s) + Lendable(s)) + Over(BalanceOf, s)) + Uncollected(s)

RowOK(b) == b # None => b.rex = b.matured + SumFunctionOnSet(b.buckets, Maturities) + b.savings

LoansOK(s, n) ==
  /\ \A k \in Kinds : IsFiniteSet(s.loans[k])
  /\ s.pool = None => \A k \in Kinds : s.loans[k] = {}
  /\ \A k \in Kinds : \A l \in s.loans[k] :
       /\ l.num <= s.pool.loan_num
       /\ l.expiration <= n + LoanTerm
       /\ \A m \in s.loans[k] : l.num = m.num => l = m

OrdersOK(s, n) ==
  \A a \in Users : IsOpen(s.orders[a]) =>
    /\ s.bal[a] # None
    /\ s.orders[a].requested <= s.bal[a].matured
    /\ s.orders[a].time <= n
    /\ \A k \in Kinds : \A l \in s.loans[k] : l.expiration <= s.orders[a].time + LoanTerm

(* Before the first purchase nobody has REX or orders. *)
UnusedOK(s) == s.pool = None => \A a \in Users : s.bal[a] = None /\ s.orders[a] = None

Books(s, n) ==
  /\ s \in TableSet
  /\ PoolOK(s) /\ BackedOK(s) /\ UnusedOK(s)
  /\ \A a \in Users : RowOK(s.bal[a])
  /\ LoansOK(s, n) /\ OrdersOK(s, n)

(* What has not matured yet is there. *)
SavingsIn(b) == IF b = None THEN 0 ELSE b.savings
BucketsIn(b) == IF b = None THEN [m \in Maturities |-> 0] ELSE b.buckets

After(t) == {m \in Maturities : m > t}

RipensIn(b, u, n) ==
  /\ \A m \in Maturities : m > get_rex_maturity(n) => u[m] = 0
  /\ \A t \in Maturities : t >= n =>
       SumFunctionOnSet(u, After(t)) <= SavingsIn(b) + SumFunctionOnSet(BucketsIn(b), After(t))

VoteStake(b) == IF b = None THEN 0 ELSE b.vote_stake
StakeIn(s, a) == VoteStake(s.bal[a]) - PendingStake(s.orders[a])

RexInv ==
  /\ now \in Times /\ RexTypeOK
  /\ Books(Tables, now)
  /\ \A a \in Users : RipensIn(rexbal[a], unripe[a], now)
  /\ ProceedsReachPool

-----------------------------------------------------------------------------
(* Sums *)

(* The accounts are finitely many. *)
LEMMA UsersFinite == IsFiniteSet(Users) /\ Users \subseteq Accounts /\ StakeAccount \notin Users
BY VotingSetsAssumption, FS_Subset DEF Users

(* The functions that loans are summed by *)
LEMMA LoanAmounts ==
  /\ StakedOf \in [Loans -> Int] /\ BalanceOf \in [Loans -> Int]
  /\ \A a : StakedFor(a) \in [Loans -> Int]
  /\ \A l \in Loans : /\ StakedOf[l] = l.staked /\ l.staked > 0 /\ l.staked \in Nat
                      /\ BalanceOf[l] = l.balance /\ l.balance \in Nat
                      /\ \A a : StakedFor(a)[l] = IF l.receiver = a THEN l.staked ELSE 0
BY DEF StakedOf, BalanceOf, StakedFor, Loans

(* A change of the loans of one kind changes the sum over both alike. *)
LEMMA OverChange ==
  ASSUME NEW f \in [Loans -> Int], NEW s, NEW t, NEW k \in Kinds, NEW d \in Int,
         \A j \in Kinds : s.loans[j] \in SUBSET Loans /\ IsFiniteSet(s.loans[j]),
         \A j \in Kinds \ {k} : t.loans[j] = s.loans[j],
         SumFunctionOnSet(f, t.loans[k]) = SumFunctionOnSet(f, s.loans[k]) + d
  PROVE  Over(f, t) = Over(f, s) + d
<1>1. SumFunctionOnSet(f, s.loans["net"]) \in Int /\ SumFunctionOnSet(f, s.loans["cpu"]) \in Int
  BY SumType, KindsAre
<1>2. k = "net" \/ k = "cpu"
  BY KindsAre
<1>3. CASE k = "net"
  <2>1. "cpu" \in Kinds \ {k}
    BY <1>3, KindsAre
  <2> QED BY <1>1, <1>3, <2>1 DEF Over
<1>4. CASE k = "cpu"
  <2>1. "net" \in Kinds \ {k}
    BY <1>4, KindsAre
  <2> QED BY <1>1, <1>4, <2>1 DEF Over
<1> QED BY <1>2, <1>3, <1>4

(* The sums over the loans are natural numbers and cover each loan. *)
LEMMA OverType ==
  ASSUME NEW f \in [Loans -> Int], NEW s,
         \A j \in Kinds : s.loans[j] \in SUBSET Loans /\ IsFiniteSet(s.loans[j]),
         \A l \in Loans : f[l] >= 0
  PROVE  /\ Over(f, s) \in Nat
         /\ \A k \in Kinds : \A l \in s.loans[k] : f[l] <= Over(f, s)
<1>1. \A j \in Kinds : SumFunctionOnSet(f, s.loans[j]) \in Nat
  BY SumNat
<1>2. \A j \in Kinds : \A l \in s.loans[j] : f[l] <= SumFunctionOnSet(f, s.loans[j]) /\ f[l] \in Int
  BY SumCovers
<1>3. Over(f, s) \in Nat /\ \A j \in Kinds : SumFunctionOnSet(f, s.loans[j]) <= Over(f, s)
  BY <1>1, KindsAre DEF Over
<1> QED BY <1>1, <1>2, <1>3

-----------------------------------------------------------------------------
(* What accounts have *)

NoIdleStake(b) == RexIn(b) = 0 => VoteStake(b) = 0

(* The loans to a are bandwidth of a beyond what is delegated to it. *)
Delegations(s, k, a) == s.res[k][a] - SumFunctionOnSet(StakedFor(a), s.loans[k])

(* What the steps of runrex leave to the account a: its REX that has not matured
   stays, an order is left alone or filled, and what the sale takes from its
   stake waits to be collected. *)
AccountMoves(s, t, a) ==
  /\ s.bal[a] = None <=> t.bal[a] = None
  /\ SavingsIn(t.bal[a]) = SavingsIn(s.bal[a]) /\ BucketsIn(t.bal[a]) = BucketsIn(s.bal[a])
  /\ StakeIn(t, a) = StakeIn(s, a)
  /\ NoIdleStake(s.bal[a]) => NoIdleStake(t.bal[a])
  /\ t.orders[a] = s.orders[a] \/ (IsOpen(s.orders[a]) /\ IsFilled(t.orders[a]))
  /\ t.fund[a] >= s.fund[a]

(* What happens to the pool: REX gets no cheaper, and its proceeds of auctions
   are those that left eosio.names or wait there. *)
PoolMoves(p, q) ==
  /\ q.total_rex > 0 => p.total_rex > 0 /\ Cheaper(p.lendable, p.total_rex, q.lendable, q.total_rex)
  /\ q.loan_num = p.loan_num
  /\ p.proceeds = 0 => q.proceeds = 0

Moves(s, t) ==
  /\ s.pool # None /\ t.pool # None /\ PoolMoves(s.pool, t.pool)
  /\ t.held.names - t.pool.proceeds = s.held.names - s.pool.proceeds
  /\ \A k \in Kinds, a \in Accounts : Delegations(t, k, a) = Delegations(s, k, a)
  /\ \A a \in Users : AccountMoves(s, t, a)

(* The fields of a pool are natural numbers. *)
LEMMA PoolFields ==
  ASSUME NEW p \in Pools
  PROVE  /\ p.lent \in Nat /\ p.unlent \in Nat /\ p.rent \in Nat /\ p.lendable \in Nat
         /\ p.total_rex \in Nat /\ p.proceeds \in Nat /\ p.loan_num \in Nat /\ p # None
BY NoRowAssumption DEF Pools

(* The tables have their types. *)
LEMMA TableFields ==
  ASSUME NEW s \in TableSet
  PROVE  /\ s.pool \in Pools \cup {None} /\ s.fund \in [Users -> Nat]
         /\ s.bal \in [Users -> Balances \cup {None}] /\ s.loans \in [Kinds -> SUBSET Loans]
         /\ s.orders \in [Users -> Orders \cup {None}]
         /\ s.held \in [rex : Int, names : Int, ramfee : Int]
         /\ s.res \in [Kinds -> [Accounts -> Int]]
BY DEF TableSet

(* Doing nothing moves nothing. *)
LEMMA MovesRefl ==
  ASSUME NEW s \in TableSet, s.pool # None
  PROVE  Moves(s, s)
<1>1. s.pool \in Pools /\ s.fund \in [Users -> Nat]
  BY TableFields
<1>2. PoolMoves(s.pool, s.pool)
  <2>1. s.pool.lendable * s.pool.total_rex \in Int
    BY <1>1, PoolFields
  <2> QED BY <2>1 DEF PoolMoves, Cheaper
<1>3. \A a \in Users : AccountMoves(s, s, a)
  BY <1>1 DEF AccountMoves
<1> QED BY <1>2, <1>3 DEF Moves

(* What several steps do together *)
LEMMA MovesTrans ==
  ASSUME NEW s \in TableSet, NEW t \in TableSet, NEW u \in TableSet, Moves(s, t), Moves(t, u)
  PROVE  Moves(s, u)
<1>1. s.pool \in Pools /\ t.pool \in Pools /\ u.pool \in Pools
  BY TableFields DEF Moves
<1>2. PoolMoves(s.pool, u.pool)
  <2>1. PoolMoves(s.pool, t.pool) /\ PoolMoves(t.pool, u.pool)
    BY DEF Moves
  <2>2. ASSUME u.pool.total_rex > 0
        PROVE  s.pool.total_rex > 0 /\ Cheaper(s.pool.lendable, s.pool.total_rex, u.pool.lendable, u.pool.total_rex)
    <3>1. /\ t.pool.total_rex > 0 /\ s.pool.total_rex > 0
          /\ Cheaper(t.pool.lendable, t.pool.total_rex, u.pool.lendable, u.pool.total_rex)
          /\ Cheaper(s.pool.lendable, s.pool.total_rex, t.pool.lendable, t.pool.total_rex)
      BY <2>1, <2>2 DEF PoolMoves
    <3>2. t.pool.total_rex \in Nat \ {0}
      BY <1>1, <3>1, PoolFields
    <3> QED BY <1>1, <3>1, <3>2, PoolFields, CheaperTrans, SMTT(30)
  <2> QED BY <2>1, <2>2 DEF PoolMoves
<1>3. \A a \in Users : AccountMoves(s, u, a)
  <2> TAKE a \in Users
  <2>1. AccountMoves(s, t, a) /\ AccountMoves(t, u, a)
    BY DEF Moves
  <2>2. s.fund[a] \in Nat /\ t.fund[a] \in Nat /\ u.fund[a] \in Nat
    BY TableFields
  <2>3. ~(IsOpen(t.orders[a]) /\ IsFilled(t.orders[a]))
    BY DEF IsOpen, IsFilled
  <2> QED BY <2>1, <2>2, <2>3 DEF AccountMoves
<1> QED BY <1>2, <1>3 DEF Moves

-----------------------------------------------------------------------------
(* Loans *)

(* remove_loan_from_rex_pool: what was lent is unlent again. *)
LEMMA LoanRemoved ==
  ASSUME NEW p \in Pools, NEW loan \in Loans, loan.staked <= p.lent
  PROVE  LET q == remove_loan_from_rex_pool(p, loan)
         IN  /\ q \in Pools
             /\ q.unlent = p.unlent + loan.staked /\ q.lent = p.lent - loan.staked
             /\ q.lendable = p.unlent + p.lent /\ q.total_rex = p.total_rex
             /\ q.proceeds = p.proceeds /\ q.loan_num = p.loan_num
<1> DEFINE out == get_bancor_output(p.unlent, p.rent, loan.staked)
<1>1. loan.staked \in Nat \ {0} /\ p.unlent \in Nat /\ p.rent \in Nat
  BY PoolFields DEF Loans
<1>2. out \in Nat /\ out <= p.rent
  <2>1. p.unlent + loan.staked \in Nat \ {0} /\ loan.staked <= p.unlent + loan.staked
    BY <1>1
  <2> QED BY <1>1, <2>1, PartOf DEF get_bancor_output
<1> HIDE DEF out
<1>3. remove_loan_from_rex_pool(p, loan) =
        [p EXCEPT !.rent = @ - out, !.unlent = @ + loan.staked, !.lent = @ - loan.staked,
                  !.lendable = p.unlent + p.lent]
  BY DEF remove_loan_from_rex_pool, out
<1>4. remove_loan_from_rex_pool(p, loan) =
        [lent |-> p.lent - loan.staked, unlent |-> p.unlent + loan.staked, rent |-> p.rent - out,
         lendable |-> p.unlent + p.lent, total_rex |-> p.total_rex, proceeds |-> p.proceeds,
         loan_num |-> p.loan_num]
  BY <1>3 DEF Pools
<1>5. /\ p.lent - loan.staked \in Nat /\ p.unlent + loan.staked \in Nat /\ p.rent - out \in Nat
      /\ p.unlent + p.lent \in Nat
  BY <1>1, <1>2, PoolFields
<1> QED BY <1>4, <1>5, PoolFields DEF Pools

(* add_loan_to_rex_pool: what is rented is lent, the payment is added. *)
LEMMA LoanAdded ==
  ASSUME NEW p \in Pools, NEW payment \in Nat, NEW rented \in Nat, rented <= p.unlent, NEW new \in Nat
  PROVE  LET q == add_loan_to_rex_pool(p, payment, rented, new)
         IN  /\ q \in Pools
             /\ q.unlent = (p.unlent - rented) + payment /\ q.lent = p.lent + rented
             /\ q.lendable = (p.unlent + payment) + p.lent /\ q.total_rex = p.total_rex
             /\ q.proceeds = p.proceeds /\ q.loan_num = p.loan_num + new
<1> DEFINE le == p.lent + rented
           un == (p.unlent - rented) + payment
           re == p.rent + payment
           la == (p.unlent + payment) + p.lent
           nu == p.loan_num + new
<1>1. le \in Nat /\ un \in Nat /\ re \in Nat /\ la \in Nat /\ nu \in Nat
  BY PoolFields
<1>2. add_loan_to_rex_pool(p, payment, rented, new) =
        [p EXCEPT !.rent = re, !.unlent = un, !.lent = le, !.lendable = la, !.loan_num = nu]
  BY DEF add_loan_to_rex_pool
<1> HIDE DEF le, un, re, la, nu
<1>3. add_loan_to_rex_pool(p, payment, rented, new) =
        [lent |-> le, unlent |-> un, rent |-> re, lendable |-> la, total_rex |-> p.total_rex,
         proceeds |-> p.proceeds, loan_num |-> nu]
  BY <1>2 DEF Pools
<1>4. add_loan_to_rex_pool(p, payment, rented, new) \in Pools
  BY <1>1, <1>3, PoolFields DEF Pools
<1> QED BY <1>3, <1>4 DEF le, un, la, nu

(* No more is rented than there is to lend. *)
LEMMA RentedType ==
  ASSUME NEW p \in Pools, NEW payment \in Nat \ {0}
  PROVE  LET rented == get_bancor_output(p.rent, p.unlent, payment)
         IN  rented \in Nat /\ rented <= p.unlent
<1>1. p.rent \in Nat /\ p.unlent \in Nat /\ p.rent + payment \in Nat \ {0} /\ payment <= p.rent + payment
  BY PoolFields
<1> QED BY <1>1, PartOf DEF get_bancor_output

(* Changes of the loans of one kind by x staked and y in balances, and of funds by z *)
LoanChange(n, s, t, k, x, y, z) ==
  /\ t \in TableSet /\ Books(s, n) /\ s.pool # None /\ t.pool # None
  /\ \A j \in Kinds \ {k} : t.loans[j] = s.loans[j]
  /\ IsFiniteSet(t.loans[k])
  /\ SumFunctionOnSet(StakedOf, t.loans[k]) = SumFunctionOnSet(StakedOf, s.loans[k]) + x
  /\ SumFunctionOnSet(BalanceOf, t.loans[k]) = SumFunctionOnSet(BalanceOf, s.loans[k]) + y
  /\ Funds(t) = Funds(s) + z
  /\ t.pool.lent = s.pool.lent + x /\ t.pool.lendable = t.pool.unlent + t.pool.lent
  /\ s.pool.lendable = t.pool.lendable + (y + z)
  /\ t.pool.total_rex = s.pool.total_rex
  /\ t.pool.lendable = 0 <=> s.pool.lendable = 0
  /\ t.pool.proceeds = s.pool.proceeds /\ t.pool.loan_num >= s.pool.loan_num
  /\ t.bal = s.bal /\ t.orders = s.orders /\ t.held = s.held
  /\ \A l \in t.loans[k] :
       /\ l.num <= t.pool.loan_num /\ l.expiration <= n + LoanTerm
       /\ \A m \in t.loans[k] : l.num = m.num => l = m
       /\ \A a \in Users : IsOpen(s.orders[a]) => l.expiration <= s.orders[a].time + LoanTerm

(* Such a change keeps the books. *)
LEMMA LoanBooks ==
  ASSUME NEW n \in Int, NEW s, NEW t, NEW k \in Kinds, NEW x \in Int, NEW y \in Int, NEW z \in Int,
         LoanChange(n, s, t, k, x, y, z)
  PROVE  Books(t, n)
<1> USE DEF LoanChange
<1>0. s \in TableSet
  BY DEF Books
<1>1. s.pool \in Pools /\ t.pool \in Pools /\ s.fund \in [Users -> Nat] /\ s.loans \in [Kinds -> SUBSET Loans]
  BY <1>0, TableFields
<1>2. \A j \in Kinds : s.loans[j] \in SUBSET Loans /\ IsFiniteSet(s.loans[j])
  BY <1>1 DEF Books, LoansOK
<1>3. Over(StakedOf, t) = Over(StakedOf, s) + x /\ Over(BalanceOf, t) = Over(BalanceOf, s) + y
  <2>1. Over(StakedOf, t) = Over(StakedOf, s) + x
    <3>1. StakedOf \in [Loans -> Int]
      BY LoanAmounts
    <3> QED BY <1>2, <3>1, OverChange, SMTT(30)
  <2>2. Over(BalanceOf, t) = Over(BalanceOf, s) + y
    <3>1. BalanceOf \in [Loans -> Int]
      BY LoanAmounts
    <3> QED BY <1>2, <3>1, OverChange
  <2> QED BY <2>1, <2>2
<1>4. Over(StakedOf, s) \in Nat /\ Over(BalanceOf, s) \in Nat
  <2>1. \A l \in Loans : StakedOf[l] >= 0 /\ BalanceOf[l] >= 0
    BY LoanAmounts
  <2> QED BY <1>2, <2>1, OverType, LoanAmounts
<1>5. RexHeld(t) = RexHeld(s) /\ Uncollected(t) = Uncollected(s)
  BY DEF RexHeld, Uncollected
<1>6. PoolOK(t)
  BY <1>1, <1>3, <1>4, <1>5, PoolFields DEF PoolOK, Books
<1>7. BackedOK(t)
  <2>1. Funds(s) \in Int /\ Uncollected(s) \in Int
    <3>1. \A a \in Users : Owing(s.orders[a]) \in Int
      BY <1>0, TableFields DEF Owing, IsFilled, Orders
    <3>2. [a \in Users |-> Owing(s.orders[a])] \in [Users -> Int]
      BY <3>1
    <3>3. s.fund \in [Users -> Int]
      BY <1>1
    <3> QED BY <3>2, <3>3, UsersFinite, SumType DEF Funds, Uncollected
  <2>2. Lendable(s) = s.pool.lendable /\ Lendable(t) = t.pool.lendable /\ s.pool.lendable \in Nat /\ t.pool.lendable \in Nat
    BY <1>1, PoolFields DEF Lendable
  <2>3. s.held.rex = ((Funds(s) + Lendable(s)) + Over(BalanceOf, s)) + Uncollected(s)
    BY DEF Books, BackedOK
  <2> QED BY <1>3, <1>4, <1>5, <2>1, <2>2, <2>3 DEF BackedOK
<1>8. UnusedOK(t) /\ \A a \in Users : RowOK(t.bal[a])
  BY DEF UnusedOK, Books
<1>9. LoansOK(t, n)
  <2>1. \A j \in Kinds \ {k} : IsFiniteSet(t.loans[j])
    BY <1>2
  <2>2. ASSUME NEW j \in Kinds \ {k}, NEW l \in t.loans[j]
        PROVE  /\ l.num <= t.pool.loan_num /\ l.expiration <= n + LoanTerm
               /\ \A m \in t.loans[j] : l.num = m.num => l = m
    <3>1. l \in s.loans[j] /\ t.loans[j] = s.loans[j] /\ l \in Loans
      BY <1>2, <2>2
    <3>2. l.num <= s.pool.loan_num /\ l.num \in Nat
      BY <3>1 DEF Books, LoansOK, Loans
    <3>3. l.num <= t.pool.loan_num
      BY <1>1, <3>2, PoolFields
    <3> QED BY <3>1, <3>3 DEF Books, LoansOK
  <2> QED BY <2>1, <2>2 DEF LoansOK
<1>10. OrdersOK(t, n)
  <2> SUFFICES ASSUME NEW a \in Users, IsOpen(t.orders[a])
               PROVE  /\ t.bal[a] # None /\ t.orders[a].requested <= t.bal[a].matured /\ t.orders[a].time <= n
                      /\ \A j \in Kinds : \A l \in t.loans[j] : l.expiration <= t.orders[a].time + LoanTerm
    BY DEF OrdersOK
  <2>1. /\ s.bal[a] # None /\ s.orders[a].requested <= s.bal[a].matured /\ s.orders[a].time <= n
        /\ \A j \in Kinds : \A l \in s.loans[j] : l.expiration <= s.orders[a].time + LoanTerm
    BY DEF Books, OrdersOK
  <2> QED BY <2>1
<1> QED BY <1>6, <1>7, <1>8, <1>9, <1>10 DEF Books

(* Changes of the loans of one kind and of the bandwidth they are *)
LEMMA LoanMoves ==
  ASSUME NEW s \in TableSet, NEW t \in TableSet, s.pool # None, t.pool # None, NEW k \in Kinds,
         s.pool.lendable <= t.pool.lendable, t.pool.total_rex = s.pool.total_rex,
         t.pool.proceeds = s.pool.proceeds, t.pool.loan_num = s.pool.loan_num,
         t.bal = s.bal, t.orders = s.orders, t.held = s.held, \A a \in Users : t.fund[a] >= s.fund[a],
         \A j \in Kinds \ {k} : t.loans[j] = s.loans[j] /\ t.res[j] = s.res[j],
         \A a \in Accounts : Delegations(t, k, a) = Delegations(s, k, a)
  PROVE  Moves(s, t)
<1>1. s.pool \in Pools /\ t.pool \in Pools
  BY TableFields
<1>2. PoolMoves(s.pool, t.pool)
  <2>1. Cheaper(s.pool.lendable, s.pool.total_rex, t.pool.lendable, t.pool.total_rex)
    BY <1>1, PoolFields, Times_ DEF Cheaper
  <2> QED BY <2>1 DEF PoolMoves
<1>3. \A a \in Users : AccountMoves(s, t, a)
  BY DEF AccountMoves, StakeIn
<1>4. \A j \in Kinds, a \in Accounts : Delegations(t, j, a) = Delegations(s, j, a)
  <2>1. ASSUME NEW j \in Kinds \ {k}, NEW a \in Accounts PROVE Delegations(t, j, a) = Delegations(s, j, a)
    BY <2>1 DEF Delegations
  <2> QED BY <2>1
<1> QED BY <1>1, <1>2, <1>3, <1>4 DEF Moves

(* A record of the tables *)
LEMMA TableRecord ==
  ASSUME NEW s \in TableSet
  PROVE  s = [pool |-> s.pool, fund |-> s.fund, bal |-> s.bal, loans |-> s.loans, orders |-> s.orders,
              held |-> s.held, res |-> s.res]
BY DEF TableSet

(* The sum of all funds after a change of one *)
LEMMA FundsChange ==
  ASSUME NEW s \in TableSet, NEW t \in TableSet, NEW a \in Users, \A b \in Users \ {a} : t.fund[b] = s.fund[b]
  PROVE  /\ Funds(s) \in Int /\ Funds(t) = Funds(s) + (t.fund[a] - s.fund[a])
<1>1. s.fund \in [Users -> Int] /\ t.fund \in [Users -> Int]
  BY TableFields
<1>2. Funds(t) = Funds(s) - s.fund[a] + t.fund[a] /\ Funds(s) \in Int
  BY <1>1, UsersFinite, SumDiffer, SumType DEF Funds
<1> QED BY <1>1, <1>2

(* LoanClosed: the loan is gone, its balance is in the fund. *)
LEMMA ClosedLoan ==
  ASSUME NEW n \in Int, NEW s, Books(s, n), s.pool # None, NEW k \in Kinds, NEW loan \in s.loans[k],
         NEW p, p = remove_loan_from_rex_pool(s.pool, loan)
  PROVE  LET t == LoanClosed([s EXCEPT !.pool = p], k, loan)
         IN  Books(t, n) /\ Moves(s, t)
<1> DEFINE t == LoanClosed([s EXCEPT !.pool = p], k, loan)
           fu == [s.fund EXCEPT ![loan.from] = @ + loan.balance]
           lo == [s.loans EXCEPT ![k] = @ \ {loan}]
           rk == [s.res[k] EXCEPT ![loan.receiver] = @ - loan.staked]
           re == [s.res EXCEPT ![k] = rk]
<1>0. s \in TableSet
  BY DEF Books
<1>1. /\ s.pool \in Pools /\ s.fund \in [Users -> Nat] /\ s.loans \in [Kinds -> SUBSET Loans]
      /\ s.res \in [Kinds -> [Accounts -> Int]]
  BY <1>0, TableFields
<1>2. /\ loan \in Loans /\ loan.from \in Users /\ loan.receiver \in Accounts /\ loan.staked \in Nat \ {0}
      /\ loan.balance \in Nat
  <2>1. loan \in Loans
    BY <1>1
  <2> QED BY <2>1 DEF Loans
<1>3. \A j \in Kinds : s.loans[j] \in SUBSET Loans /\ IsFiniteSet(s.loans[j])
  BY <1>1 DEF Books, LoansOK
<1>4. loan.staked <= s.pool.lent
  <2>1. StakedOf[loan] <= Over(StakedOf, s)
    <3>1. StakedOf \in [Loans -> Int] /\ \A l \in Loans : StakedOf[l] >= 0
      BY LoanAmounts
    <3> QED BY <1>3, <3>1, OverType
  <2> QED BY <1>2, <2>1, LoanAmounts DEF Books, PoolOK
<1>5. /\ p \in Pools /\ p.unlent = s.pool.unlent + loan.staked /\ p.lent = s.pool.lent - loan.staked
      /\ p.lendable = s.pool.unlent + s.pool.lent /\ p.total_rex = s.pool.total_rex
      /\ p.proceeds = s.pool.proceeds /\ p.loan_num = s.pool.loan_num
  BY <1>1, <1>2, <1>4, LoanRemoved
<1>6. /\ fu \in [Users -> Nat] /\ fu[loan.from] = s.fund[loan.from] + loan.balance
      /\ \A b \in Users \ {loan.from} : fu[b] = s.fund[b]
  BY <1>1, <1>2
<1>7. /\ lo \in [Kinds -> SUBSET Loans] /\ lo[k] = s.loans[k] \ {loan}
      /\ \A j \in Kinds \ {k} : lo[j] = s.loans[j]
  BY <1>1
<1>8. /\ re \in [Kinds -> [Accounts -> Int]]
      /\ \A a \in Accounts : re[k][a] = s.res[k][a] - (IF loan.receiver = a THEN loan.staked ELSE 0)
      /\ \A j \in Kinds \ {k} : re[j] = s.res[j]
  BY <1>1, <1>2
<1>9. t = [pool |-> p, fund |-> fu, bal |-> s.bal, loans |-> lo, orders |-> s.orders, held |-> s.held, res |-> re]
  <2> DEFINE s1 == [s EXCEPT !.pool = p]
  <2>1. s1 = [pool |-> p, fund |-> s.fund, bal |-> s.bal, loans |-> s.loans, orders |-> s.orders,
              held |-> s.held, res |-> s.res]
    BY <1>0 DEF TableSet
  <2> HIDE DEF s1
  <2>2. t = [s1 EXCEPT !.fund = fu, !.loans = lo, !.res = re]
    BY <2>1 DEF LoanClosed, s1
  <2> HIDE DEF t, fu, lo, re
  <2> QED BY <2>1, <2>2
<1> HIDE DEF t, fu, lo, re
<1>10. t \in TableSet
  BY <1>0, <1>5, <1>6, <1>7, <1>8, <1>9, TableFields DEF TableSet
<1>11. IsFiniteSet(t.loans[k]) /\ \A f \in [Loans -> Int] :
         SumFunctionOnSet(f, t.loans[k]) = SumFunctionOnSet(f, s.loans[k]) - f[loan]
  <2>1. t.loans[k] = s.loans[k] \ {loan}
    BY <1>7, <1>9
  <2>2. IsFiniteSet(s.loans[k] \ {loan})
    BY <1>3, FS_RemoveElement
  <2>3. ASSUME NEW f \in [Loans -> Int]
        PROVE  SumFunctionOnSet(f, s.loans[k] \ {loan}) = SumFunctionOnSet(f, s.loans[k]) - f[loan]
    BY <1>3, SumWithout
  <2> QED BY <2>1, <2>2, <2>3, Zenon
<1>12. Books(t, n)
  <2> DEFINE x == -loan.staked
             y == -loan.balance
             z == loan.balance
  <2>0. x \in Int /\ y \in Int /\ z \in Int /\ y + z = 0
    BY <1>2
  <2>1. Funds(t) = Funds(s) + z
    BY <1>0, <1>1, <1>2, <1>6, <1>9, <1>10, FundsChange
  <2>2. /\ SumFunctionOnSet(StakedOf, t.loans[k]) = SumFunctionOnSet(StakedOf, s.loans[k]) + x
        /\ SumFunctionOnSet(BalanceOf, t.loans[k]) = SumFunctionOnSet(BalanceOf, s.loans[k]) + y
    <3>1. StakedOf \in [Loans -> Int] /\ BalanceOf \in [Loans -> Int]
      BY LoanAmounts
    <3>2. SumFunctionOnSet(StakedOf, s.loans[k]) \in Int /\ SumFunctionOnSet(BalanceOf, s.loans[k]) \in Int
      BY <1>3, <3>1, SumType
    <3>3. StakedOf[loan] = loan.staked /\ BalanceOf[loan] = loan.balance
      BY <1>2, LoanAmounts
    <3> QED BY <1>2, <1>11, <3>1, <3>2, <3>3
  <2>3. \A l \in t.loans[k] :
           /\ l.num <= t.pool.loan_num /\ l.expiration <= n + LoanTerm
           /\ \A m \in t.loans[k] : l.num = m.num => l = m
           /\ \A a \in Users : IsOpen(s.orders[a]) => l.expiration <= s.orders[a].time + LoanTerm
    BY <1>5, <1>7, <1>9 DEF Books, LoansOK, OrdersOK
  <2>4. /\ t.pool.lent = s.pool.lent + x /\ t.pool.lendable = t.pool.unlent + t.pool.lent
        /\ t.pool.lendable = s.pool.lendable /\ t.pool.total_rex = s.pool.total_rex
        /\ t.pool.proceeds = s.pool.proceeds /\ t.pool.loan_num >= s.pool.loan_num /\ t.pool # None
        /\ s.pool.lendable \in Nat
    <3>1. t.pool = p /\ s.pool.lendable = s.pool.unlent + s.pool.lent
      BY <1>9 DEF Books, PoolOK
    <3>2. s.pool.lendable \in Nat /\ s.pool.unlent \in Nat /\ s.pool.lent \in Nat /\ s.pool.loan_num \in Nat /\ p # None
      BY <1>1, <1>5, PoolFields
    <3> QED BY <1>2, <1>5, <3>1, <3>2
  <2>5. /\ \A j \in Kinds \ {k} : t.loans[j] = s.loans[j]
        /\ t.bal = s.bal /\ t.orders = s.orders /\ t.held = s.held
    BY <1>7, <1>9
  <2>6. s.pool.lendable = t.pool.lendable + (y + z) /\ (t.pool.lendable = 0 <=> s.pool.lendable = 0)
    BY <2>0, <2>4
  <2> HIDE DEF x, y, z
  <2> QED BY <1>10, <1>11, <2>0, <2>1, <2>2, <2>3, <2>4, <2>5, <2>6, LoanBooks DEF LoanChange
<1>13. Moves(s, t)
  <2>1. \A a \in Accounts : Delegations(t, k, a) = Delegations(s, k, a)
    <3> TAKE a \in Accounts
    <3>1. /\ StakedFor(a) \in [Loans -> Int] /\ SumFunctionOnSet(StakedFor(a), s.loans[k]) \in Int
          /\ StakedFor(a)[loan] = (IF loan.receiver = a THEN loan.staked ELSE 0)
      BY <1>2, <1>3, LoanAmounts, SumType
    <3>2. t.res[k][a] = s.res[k][a] - StakedFor(a)[loan] /\ s.res[k][a] \in Int /\ StakedFor(a)[loan] \in Int
      BY <1>1, <1>2, <1>8, <1>9, <3>1
    <3>3. SumFunctionOnSet(StakedFor(a), t.loans[k]) = SumFunctionOnSet(StakedFor(a), s.loans[k]) - StakedFor(a)[loan]
      BY <1>11, <3>1
    <3> QED BY <3>1, <3>2, <3>3 DEF Delegations
  <2>2. \A a \in Users : t.fund[a] >= s.fund[a]
    BY <1>1, <1>2, <1>6, <1>9
  <2>3. t.pool # None /\ s.pool.lendable <= t.pool.lendable
    BY <1>1, <1>5, <1>9, PoolFields DEF Books, PoolOK
  <2>4. /\ \A j \in Kinds \ {k} : t.loans[j] = s.loans[j] /\ t.res[j] = s.res[j]
        /\ t.bal = s.bal /\ t.orders = s.orders /\ t.held = s.held
        /\ t.pool.total_rex = s.pool.total_rex /\ t.pool.proceeds = s.pool.proceeds
        /\ t.pool.loan_num = s.pool.loan_num
    BY <1>5, <1>7, <1>8, <1>9
  <2> QED BY <1>0, <1>10, <2>1, <2>2, <2>3, <2>4, LoanMoves
<1> QED BY <1>12, <1>13 DEF t

(* update_renewed_loan: the loan is made anew at the price of now. *)
LEMMA RenewedLoan ==
  ASSUME NEW n \in Int, NEW s, Books(s, n), s.pool # None, NEW k \in Kinds, NEW loan \in s.loans[k],
         loan.expiration <= n, NEW p, p = remove_loan_from_rex_pool(s.pool, loan),
         NEW rented, rented = get_bancor_output(p.rent, p.unlent, loan.payment),
         renew_loan([s EXCEPT !.pool = p], loan, rented)
  PROVE  LET t == update_renewed_loan([s EXCEPT !.pool = p], k, loan, rented)
         IN  Books(t, n) /\ Moves(s, t)
<1> DEFINE t == update_renewed_loan([s EXCEPT !.pool = p], k, loan, rented)
           q == add_loan_to_rex_pool(p, loan.payment, rented, 0)
           new == [loan EXCEPT !.staked = rented, !.expiration = @ + LoanTerm, !.balance = @ - loan.payment]
           lo == [s.loans EXCEPT ![k] = (@ \ {loan}) \cup {new}]
           rk == [s.res[k] EXCEPT ![loan.receiver] = @ + (rented - loan.staked)]
           re == [s.res EXCEPT ![k] = rk]
<1>0. s \in TableSet
  BY DEF Books
<1>1. /\ s.pool \in Pools /\ s.fund \in [Users -> Nat] /\ s.loans \in [Kinds -> SUBSET Loans]
      /\ s.res \in [Kinds -> [Accounts -> Int]]
  BY <1>0, TableFields
<1>2. /\ loan \in Loans /\ loan.from \in Users /\ loan.receiver \in Accounts /\ loan.staked \in Nat \ {0}
      /\ loan.balance \in Nat /\ loan.payment \in Nat \ {0} /\ loan.expiration \in Int /\ loan.num \in Nat
  <2>1. loan \in Loans
    BY <1>1
  <2> QED BY <2>1 DEF Loans
<1>3. \A j \in Kinds : s.loans[j] \in SUBSET Loans /\ IsFiniteSet(s.loans[j])
  BY <1>1 DEF Books, LoansOK
<1>4. loan.staked <= s.pool.lent
  <2>1. StakedOf[loan] <= Over(StakedOf, s)
    <3>1. StakedOf \in [Loans -> Int] /\ \A l \in Loans : StakedOf[l] >= 0
      BY LoanAmounts
    <3> QED BY <1>3, <3>1, OverType
  <2> QED BY <1>2, <2>1, LoanAmounts DEF Books, PoolOK
<1>5. /\ p \in Pools /\ p.unlent = s.pool.unlent + loan.staked /\ p.lent = s.pool.lent - loan.staked
      /\ p.lendable = s.pool.unlent + s.pool.lent /\ p.total_rex = s.pool.total_rex
      /\ p.proceeds = s.pool.proceeds /\ p.loan_num = s.pool.loan_num
  BY <1>1, <1>2, <1>4, LoanRemoved
<1>6. rented \in Nat /\ rented <= p.unlent
  BY <1>2, <1>5, RentedType
<1>7. /\ loan.payment <= loan.balance /\ loan.payment < rented /\ p.total_rex > 0
      /\ \A a \in Users : ~IsOpen(s.orders[a])
  BY <1>0 DEF renew_loan, rex_loans_available, rex_available, TableSet
<1>8. /\ q \in Pools /\ q.unlent = (p.unlent - rented) + loan.payment /\ q.lent = p.lent + rented
      /\ q.lendable = (p.unlent + loan.payment) + p.lent /\ q.total_rex = p.total_rex
      /\ q.proceeds = p.proceeds /\ q.loan_num = p.loan_num
  <2>1. p.loan_num + 0 = p.loan_num /\ loan.payment \in Nat
    BY <1>2, <1>5, PoolFields
  <2> QED BY <1>5, <1>6, <2>1, LoanAdded
<1>9. /\ new \in Loans /\ new.num = loan.num /\ new.receiver = loan.receiver /\ new.staked = rented
      /\ new.balance = loan.balance - loan.payment /\ new.expiration = loan.expiration + LoanTerm
  <2> DEFINE ex == loan.expiration + LoanTerm
             ba == loan.balance - loan.payment
  <2>1. ex \in Int /\ ba \in Nat /\ rented \in Nat \ {0}
    BY <1>2, <1>6, <1>7, RexAssumption
  <2>2. new = [loan EXCEPT !.staked = rented, !.expiration = ex, !.balance = ba]
    OBVIOUS
  <2> HIDE DEF ex, ba, new
  <2>3. new = [num |-> loan.num, from |-> loan.from, receiver |-> loan.receiver, payment |-> loan.payment,
               balance |-> ba, staked |-> rented, expiration |-> ex]
    BY <1>2, <2>2 DEF Loans
  <2>4. new \in Loans
    BY <1>2, <2>1, <2>3 DEF Loans
  <2> QED BY <2>3, <2>4 DEF ex, ba
<1>10. new \notin s.loans[k] \ {loan}
  BY <1>9 DEF Books, LoansOK
<1> HIDE DEF q, new
<1>11. /\ lo \in [Kinds -> SUBSET Loans] /\ lo[k] = (s.loans[k] \ {loan}) \cup {new}
       /\ \A j \in Kinds \ {k} : lo[j] = s.loans[j]
  BY <1>1, <1>9
<1>12. /\ re \in [Kinds -> [Accounts -> Int]]
       /\ \A a \in Accounts : re[k][a] = s.res[k][a] + (IF loan.receiver = a THEN rented - loan.staked ELSE 0)
       /\ \A j \in Kinds \ {k} : re[j] = s.res[j]
  BY <1>1, <1>2, <1>6
<1>13. t = [pool |-> q, fund |-> s.fund, bal |-> s.bal, loans |-> lo, orders |-> s.orders, held |-> s.held, res |-> re]
  <2> DEFINE s1 == [s EXCEPT !.pool = p]
  <2>1. s1 = [pool |-> p, fund |-> s.fund, bal |-> s.bal, loans |-> s.loans, orders |-> s.orders,
              held |-> s.held, res |-> s.res]
    BY <1>0 DEF TableSet
  <2> HIDE DEF s1
  <2>2. t = [s1 EXCEPT !.pool = q, !.loans = lo, !.res = re]
    <3>1. s1.pool = p /\ s1.loans = s.loans /\ s1.res = s.res
      BY <2>1
    <3>2. t = update_renewed_loan(s1, k, loan, rented)
      BY DEF s1
    <3>3. update_renewed_loan(s1, k, loan, rented) =
            [s1 EXCEPT !.pool = add_loan_to_rex_pool(s1.pool, loan.payment, rented, 0),
                       !.loans[k] = (@ \ {loan}) \cup {new}, !.res[k][loan.receiver] = @ + (rented - loan.staked)]
      BY DEF update_renewed_loan, new
    <3> HIDE DEF t
    <3> QED BY <3>1, <3>2, <3>3 DEF q
  <2> HIDE DEF t, lo, re
  <2> QED BY <2>1, <2>2
<1> HIDE DEF t, lo, re
<1>14. t \in TableSet
  BY <1>0, <1>8, <1>11, <1>12, <1>13, TableFields DEF TableSet
<1>15. IsFiniteSet(t.loans[k]) /\ \A f \in [Loans -> Int] :
         SumFunctionOnSet(f, t.loans[k]) = (SumFunctionOnSet(f, s.loans[k]) - f[loan]) + f[new]
  <2>1. t.loans[k] = (s.loans[k] \ {loan}) \cup {new}
    BY <1>11, <1>13
  <2>2. ASSUME NEW f \in [Loans -> Int]
        PROVE  /\ IsFiniteSet((s.loans[k] \ {loan}) \cup {new})
               /\ SumFunctionOnSet(f, (s.loans[k] \ {loan}) \cup {new}) = (SumFunctionOnSet(f, s.loans[k]) - f[loan]) + f[new]
    BY <1>3, <1>9, <1>10, SumSwap, SMTT(30)
  <2>3. StakedOf \in [Loans -> Int]
    BY LoanAmounts
  <2> QED BY <2>1, <2>2, <2>3, Zenon
<1>16. /\ t.pool.lent = s.pool.lent + (rented - loan.staked) /\ t.pool.lendable = t.pool.unlent + t.pool.lent
       /\ t.pool.lendable = s.pool.lendable + loan.payment /\ t.pool.total_rex = s.pool.total_rex
       /\ t.pool.proceeds = s.pool.proceeds /\ t.pool.loan_num = s.pool.loan_num /\ t.pool # None
       /\ s.pool.lendable \in Nat /\ s.pool.lendable > 0 /\ s.pool.loan_num \in Nat
  BY <1>1, <1>2, <1>5, <1>6, <1>7, <1>8, <1>13, PoolFields DEF Books, PoolOK
<1>17. Books(t, n)
  <2> DEFINE x == rented - loan.staked
             y == -loan.payment
             z == 0
  <2>0. x \in Int /\ y \in Int /\ z \in Int /\ y + z = y
    BY <1>2, <1>6
  <2>1. Funds(t) = Funds(s) + z
    <3>1. Funds(s) \in Int
      <4>1. s.fund \in [Users -> Int]
        BY <1>1
      <4> QED BY <4>1, SumType, UsersFinite DEF Funds
    <3> QED BY <1>13, <3>1 DEF Funds
  <2>2. /\ SumFunctionOnSet(StakedOf, t.loans[k]) = SumFunctionOnSet(StakedOf, s.loans[k]) + x
        /\ SumFunctionOnSet(BalanceOf, t.loans[k]) = SumFunctionOnSet(BalanceOf, s.loans[k]) + y
    <3>1. StakedOf \in [Loans -> Int] /\ BalanceOf \in [Loans -> Int]
      BY LoanAmounts
    <3>2. SumFunctionOnSet(StakedOf, s.loans[k]) \in Int /\ SumFunctionOnSet(BalanceOf, s.loans[k]) \in Int
      BY <1>3, <3>1, SumType
    <3>3. /\ StakedOf[loan] = loan.staked /\ BalanceOf[loan] = loan.balance
          /\ StakedOf[new] = rented /\ BalanceOf[new] = loan.balance - loan.payment
      BY <1>2, <1>9, LoanAmounts
    <3> QED BY <1>2, <1>6, <1>15, <3>1, <3>2, <3>3
  <2>3. ASSUME NEW l \in t.loans[k]
        PROVE  /\ l.num <= t.pool.loan_num /\ l.expiration <= n + LoanTerm
               /\ \A m \in t.loans[k] : l.num = m.num => l = m
               /\ \A a \in Users : IsOpen(s.orders[a]) => l.expiration <= s.orders[a].time + LoanTerm
    <3>1. t.loans[k] = (s.loans[k] \ {loan}) \cup {new}
      BY <1>11, <1>13
    <3>2. CASE l \in s.loans[k] \ {loan}
      BY <1>7, <1>9, <1>16, <3>1, <3>2 DEF Books, LoansOK
    <3>3. CASE l = new
      <4>1. loan.num <= s.pool.loan_num
        BY DEF Books, LoansOK
      <4>2. new.expiration <= n + LoanTerm
        BY <1>2, <1>9, RexAssumption
      <4>3. \A m \in s.loans[k] \ {loan} : m.num # new.num
        BY <1>9 DEF Books, LoansOK
      <4> QED BY <1>7, <1>9, <1>16, <3>1, <3>3, <4>1, <4>2, <4>3
    <3> QED BY <3>1, <3>2, <3>3
  <2>4. /\ s.pool.lendable = t.pool.lendable + (y + z) /\ t.pool.lent = s.pool.lent + x
        /\ t.pool.lendable > 0 /\ t.pool.loan_num >= s.pool.loan_num
    BY <1>2, <1>6, <1>16, <2>0
  <2>5. /\ \A j \in Kinds \ {k} : t.loans[j] = s.loans[j]
        /\ t.bal = s.bal /\ t.orders = s.orders /\ t.held = s.held
    BY <1>11, <1>13
  <2>6. t.pool.lendable = 0 <=> s.pool.lendable = 0
    BY <1>16, <2>4
  <2> HIDE DEF x, y, z
  <2>7. /\ t.pool.lent = s.pool.lent + x /\ t.pool.lendable = t.pool.unlent + t.pool.lent
        /\ t.pool.total_rex = s.pool.total_rex /\ t.pool.proceeds = s.pool.proceeds /\ t.pool # None
        /\ IsFiniteSet(t.loans[k])
    BY <1>15, <1>16, <2>4
  <2> QED BY <1>14, <2>0, <2>1, <2>2, <2>3, <2>4, <2>5, <2>6, <2>7, LoanBooks DEF LoanChange
<1>18. Moves(s, t)
  <2>1. \A a \in Accounts : Delegations(t, k, a) = Delegations(s, k, a)
    <3> TAKE a \in Accounts
    <3>1. /\ StakedFor(a) \in [Loans -> Int] /\ SumFunctionOnSet(StakedFor(a), s.loans[k]) \in Int
          /\ StakedFor(a)[loan] = (IF loan.receiver = a THEN loan.staked ELSE 0)
          /\ StakedFor(a)[new] = (IF loan.receiver = a THEN rented ELSE 0)
      BY <1>2, <1>3, <1>9, LoanAmounts, SumType
    <3>2. /\ t.res[k][a] = (s.res[k][a] - StakedFor(a)[loan]) + StakedFor(a)[new] /\ s.res[k][a] \in Int
          /\ StakedFor(a)[loan] \in Int /\ StakedFor(a)[new] \in Int
      BY <1>1, <1>2, <1>6, <1>12, <1>13, <3>1
    <3>3. SumFunctionOnSet(StakedFor(a), t.loans[k]) =
            (SumFunctionOnSet(StakedFor(a), s.loans[k]) - StakedFor(a)[loan]) + StakedFor(a)[new]
      BY <1>15, <3>1
    <3> QED BY <3>1, <3>2, <3>3 DEF Delegations
  <2>2. \A a \in Users : t.fund[a] >= s.fund[a]
    BY <1>1, <1>13
  <2>3. s.pool.lendable <= t.pool.lendable
    BY <1>2, <1>16
  <2>4. /\ \A j \in Kinds \ {k} : t.loans[j] = s.loans[j] /\ t.res[j] = s.res[j]
        /\ t.bal = s.bal /\ t.orders = s.orders /\ t.held = s.held
    BY <1>11, <1>12, <1>13
  <2> QED BY <1>0, <1>14, <1>16, <2>1, <2>2, <2>3, <2>4, LoanMoves
<1> QED BY <1>17, <1>18 DEF t

(* process_expired_loan keeps the books. *)
LEMMA ExpiredLoan ==
  ASSUME NEW n \in Int, NEW s, Books(s, n), s.pool # None, NEW k \in Kinds, NEW loan \in s.loans[k],
         loan.expiration <= n
  PROVE  LET t == process_expired_loan(s, k, loan)
         IN  Books(t, n) /\ Moves(s, t)
<1> DEFINE p == remove_loan_from_rex_pool(s.pool, loan)
           s1 == [s EXCEPT !.pool = p]
           rented == get_bancor_output(p.rent, p.unlent, loan.payment)
<1>1. s1.pool = p
  BY DEF Books, TableSet
<1>2. process_expired_loan(s, k, loan) =
        IF renew_loan(s1, loan, rented) THEN update_renewed_loan(s1, k, loan, rented) ELSE LoanClosed(s1, k, loan)
  BY <1>1 DEF process_expired_loan
<1>3. CASE renew_loan(s1, loan, rented)
  <2>1. process_expired_loan(s, k, loan) = update_renewed_loan(s1, k, loan, rented)
    BY <1>2, <1>3
  <2> HIDE DEF p, rented
  <2> QED BY <1>3, <2>1, RenewedLoan DEF p, rented
<1>4. CASE ~renew_loan(s1, loan, rented)
  <2>1. process_expired_loan(s, k, loan) = LoanClosed(s1, k, loan)
    BY <1>2, <1>4
  <2> HIDE DEF p, rented
  <2> QED BY <2>1, ClosedLoan DEF p
<1> QED BY <1>3, <1>4

-----------------------------------------------------------------------------
(* The loops of runrex *)

(* A loop whose step F depends on its number: <<i, w>> is a member of W if w may
   be its value after i steps. *)
LoopOver(V, W, F) ==
  /\ W \in SUBSET (Nat \X V) /\ F \in [W -> V]
  /\ \A i \in Nat, w \in V : <<i, w>> \in W => <<i + 1, F[<<i, w>>]>> \in W

Stages(g, V, W, F, a, N) ==
  /\ g \in [0 .. N -> V] /\ g[0] = a
  /\ \A i \in 1 .. N : <<i - 1, g[i - 1]>> \in W /\ g[i] = F[<<i - 1, g[i - 1]>>]

(* The values of a loop exist. *)
LEMMA StagesExist ==
  ASSUME NEW V, NEW W, NEW F, LoopOver(V, W, F), NEW a, <<0, a>> \in W, NEW N \in Nat
  PROVE  \E g : Stages(g, V, W, F, a, N)
<1> DEFINE G == [w \in W |-> <<w[1] + 1, F[w]>>]
           b == <<0, a>>
<1>0. /\ W \in SUBSET (Nat \X V) /\ F \in [W -> V]
      /\ \A i \in Nat, w \in V : <<i, w>> \in W => <<i + 1, F[<<i, w>>]>> \in W
  BY DEF LoopOver
<1>1. \A w \in W : w[1] \in Nat /\ w[2] \in V /\ w = <<w[1], w[2]>>
  BY <1>0
<1>2. G \in [W -> W]
  <2>1. ASSUME NEW w \in W PROVE <<w[1] + 1, F[w]>> \in W
    <3>1. <<w[1] + 1, F[<<w[1], w[2]>>]>> \in W
      BY <1>0, <1>1
    <3> QED BY <1>1, <3>1
  <2> QED BY <2>1
<1>3. \A w \in W : G[w] = <<w[1] + 1, F[w]>>
  OBVIOUS
<1> HIDE DEF G
<1>4. PICK h : Iterates(h, W, G, b, N)
  BY <1>2, IterationExists
<1>5. h \in [0 .. N -> W] /\ h[0] = b /\ \A i \in 1 .. N : h[i] = G[h[i - 1]]
  BY <1>4 DEF Iterates
<1>6. \A i \in Nat : i <= N => h[i][1] = i
  <2> DEFINE T == {i \in Nat : i <= N => h[i][1] = i}
  <2>1. 0 \in T
    BY <1>5
  <2>2. ASSUME NEW i \in Nat, i \in T PROVE i + 1 \in T
    <3> SUFFICES ASSUME i + 1 <= N PROVE h[i + 1][1] = i + 1
      OBVIOUS
    <3>1. i + 1 \in 1 .. N /\ (i + 1) - 1 = i /\ i \in 0 .. N /\ h[i][1] = i
      BY <2>2
    <3>2. h[i + 1] = G[h[i]] /\ h[i] \in W
      BY <1>5, <3>1
    <3>3. h[i + 1] = <<h[i][1] + 1, F[h[i]]>>
      BY <1>3, <3>2
    <3> QED BY <3>1, <3>3
  <2>3. Nat \subseteq T
    <3> HIDE DEF T
    <3> QED BY <2>1, <2>2, NumberInduction
  <2> QED BY <2>3
<1> DEFINE g == [i \in 0 .. N |-> h[i][2]]
<1>7. g \in [0 .. N -> V] /\ \A i \in 0 .. N : h[i] = <<i, g[i]>> /\ h[i] \in W
  <2>1. ASSUME NEW i \in 0 .. N PROVE h[i] \in W /\ h[i][2] \in V /\ h[i] = <<i, h[i][2]>>
    BY <1>1, <1>5, <1>6
  <2> QED BY <2>1
<1>8. g[0] = a
  BY <1>5
<1> HIDE DEF g
<1>9. ASSUME NEW i \in 1 .. N
      PROVE  <<i - 1, g[i - 1]>> \in W /\ g[i] = F[<<i - 1, g[i - 1]>>]
  <2>1. i - 1 \in 0 .. N /\ i \in 0 .. N
    OBVIOUS
  <2>2. h[i] = G[h[i - 1]] /\ h[i - 1] = <<i - 1, g[i - 1]>> /\ h[i - 1] \in W /\ h[i] = <<i, g[i]>>
    BY <1>5, <1>7, <2>1
  <2>3. h[i] = <<h[i - 1][1] + 1, F[h[i - 1]]>>
    BY <1>3, <2>2
  <2> QED BY <2>2, <2>3
<1> QED BY <1>7, <1>8, <1>9 DEF Stages

(* The first loan in a table: it has expired if any has. *)
LEMMA FirstLoanIs ==
  ASSUME NEW L \in SUBSET Loans, IsFiniteSet(L), NEW n \in Int, NEW e \in L, e.expiration <= n
  PROVE  FirstLoan(L) \in L /\ FirstLoan(L).expiration <= n
<1> DEFINE First(l, m) == \/ l.expiration < m.expiration
                          \/ l.expiration = m.expiration /\ l.num <= m.num
           T == {S \in SUBSET L : S = {} \/ \E l \in S : \A m \in S : First(l, m)}
<1>1. \A l \in L : l.expiration \in Int /\ l.num \in Nat
  BY DEF Loans
<1>2. L \in T
  <2>1. {} \in T
    OBVIOUS
  <2>2. ASSUME NEW S \in SUBSET L, NEW a \in L \ S, S \in T PROVE S \cup {a} \in T
    <3>1. First(a, a)
      BY <1>1
    <3>2. CASE S = {}
      BY <3>1, <3>2
    <3>3. CASE S # {}
      <4>1. PICK l \in S : \A m \in S : First(l, m)
        BY <2>2, <3>3
      <4>2. CASE First(l, a)
        <5>1. l \in S \cup {a} /\ \A m \in S \cup {a} : First(l, m)
          BY <4>1, <4>2
        <5> QED BY <5>1
      <4>3. CASE ~First(l, a)
        <5>1. \A m \in S : First(a, m)
          BY <1>1, <4>1, <4>3
        <5>2. a \in S \cup {a} /\ \A m \in S \cup {a} : First(a, m)
          BY <3>1, <5>1
        <5> QED BY <5>2
      <4> QED BY <4>2, <4>3
    <3> QED BY <3>2, <3>3
  <2> HIDE DEF T
  <2> QED BY <2>1, <2>2, SubsetInduction
<1>3. \E l \in L : \A m \in L : First(l, m)
  BY <1>2
<1>4. FirstLoan(L) = CHOOSE l \in L : \A m \in L : First(l, m)
  BY DEF FirstLoan
<1>5. FirstLoan(L) \in L /\ First(FirstLoan(L), e)
  <2> HIDE DEF First
  <2> QED BY <1>3, <1>4
<1> QED BY <1>1, <1>5

(* The recursive function that ProcessLoans is defined by *)
LoanStages(g, s, k, max) ==
  g = [i \in 0 .. max |->
        IF i = 0 THEN s
        ELSE LET t == g[i - 1]
             IN  IF {l \in t.loans[k] : l.expiration <= now} = {} THEN t
                 ELSE process_expired_loan(t, k, FirstLoan(t.loans[k]))]

(* The tables that steps of runrex lead to from s *)
Leads(s, t) == Books(t, now) /\ Moves(s, t)

(* The loans that have expired are closed or renewed. *)
LEMMA LoansProcessed ==
  ASSUME now \in Int, NEW s, Books(s, now), s.pool # None, NEW k \in Kinds, NEW max \in Nat
  PROVE  Leads(s, ProcessLoans(s, k, max))
<1> DEFINE Expired(t) == {l \in t.loans[k] : l.expiration <= now}
           OneLoan(t) == IF Expired(t) = {} THEN t ELSE process_expired_loan(t, k, FirstLoan(t.loans[k]))
           V == {t \in TableSet : Leads(s, t)}
           W == Nat \X V
           F == [w \in W |-> OneLoan(w[2])]
<1>0. s \in TableSet /\ s \in V
  BY MovesRefl DEF Books, Leads
<1>1. ASSUME NEW t \in V PROVE OneLoan(t) \in V
  <2>1. t \in TableSet /\ Books(t, now) /\ Moves(s, t) /\ t.pool # None
    BY DEF Leads, Moves
  <2>2. CASE Expired(t) = {}
    BY <2>2
  <2>3. CASE Expired(t) # {}
    <3> DEFINE loan == FirstLoan(t.loans[k])
               u == process_expired_loan(t, k, loan)
    <3>1. PICK e \in t.loans[k] : e.expiration <= now
      BY <2>3
    <3>2. t.loans[k] \in SUBSET Loans /\ IsFiniteSet(t.loans[k])
      BY <2>1, TableFields DEF Books, LoansOK
    <3>3. loan \in t.loans[k] /\ loan.expiration <= now
      BY <3>1, <3>2, FirstLoanIs
    <3> HIDE DEF loan
    <3>4. Books(u, now) /\ Moves(t, u)
      BY <2>1, <3>3, ExpiredLoan
    <3> HIDE DEF u
    <3>5. u \in TableSet
      BY <3>4 DEF Books
    <3>6. Moves(s, u)
      BY <1>0, <2>1, <3>4, <3>5, MovesTrans
    <3>7. OneLoan(t) = u
      BY <2>3 DEF u, loan
    <3> QED BY <3>4, <3>5, <3>6, <3>7 DEF Leads
  <2> QED BY <2>2, <2>3
<1>2. F \in [W -> V] /\ \A i \in Nat, t \in V : F[<<i, t>>] = OneLoan(t)
  BY <1>1
<1> HIDE DEF F, V, OneLoan
<1>3. \E g : LoanStages(g, s, k, max)
  <2>1. W \in SUBSET (Nat \X V) /\ <<0, s>> \in W
    BY <1>0
  <2>2. \A i \in Nat, w \in V : <<i, w>> \in W => <<i + 1, F[<<i, w>>]>> \in W
    BY <1>2
  <2>3. PICK g : /\ g \in [0 .. max -> V] /\ g[0] = s
                 /\ \A i \in 1 .. max : <<i - 1, g[i - 1]>> \in W /\ g[i] = F[<<i - 1, g[i - 1]>>]
    <3> HIDE DEF W
    <3>1. LoopOver(V, W, F) /\ <<0, s>> \in W
      BY <1>2, <2>1, <2>2 DEF LoopOver
    <3>2. PICK g : Stages(g, V, W, F, s, max)
      BY <3>1, StagesExist
    <3> QED BY <3>2 DEF Stages
  <2>4. ASSUME NEW i \in 0 .. max PROVE g[i] = IF i = 0 THEN s ELSE OneLoan(g[i - 1])
    <3>1. CASE i = 0
      BY <2>3, <3>1
    <3>2. CASE i # 0
      <4>1. i \in 1 .. max /\ i - 1 \in 0 .. max /\ i - 1 \in Nat
        BY <3>2
      <4>2. g[i - 1] \in V /\ g[i] = F[<<i - 1, g[i - 1]>>]
        BY <2>3, <4>1
      <4>3. F[<<i - 1, g[i - 1]>>] = OneLoan(g[i - 1])
        BY <1>2, <4>1, <4>2
      <4> QED BY <3>2, <4>2, <4>3
    <3> QED BY <3>1, <3>2
  <2>5. g = [i \in 0 .. max |-> IF i = 0 THEN s ELSE OneLoan(g[i - 1])]
    BY <2>3, <2>4
  <2>6. LoanStages(g, s, k, max)
    BY <2>5 DEF LoanStages, OneLoan
  <2> QED BY <2>6
<1> DEFINE g == CHOOSE g : LoanStages(g, s, k, max)
<1>4. LoanStages(g, s, k, max)
  BY <1>3
<1>5. ProcessLoans(s, k, max) = g[max]
  BY DEF ProcessLoans, LoanStages
<1> HIDE DEF g
<1>6. g = [i \in 0 .. max |-> IF i = 0 THEN s ELSE OneLoan(g[i - 1])]
  BY <1>4 DEF LoanStages, OneLoan
<1>7. \A i \in 0 .. max : g[i] = IF i = 0 THEN s ELSE OneLoan(g[i - 1])
  BY <1>6
<1> DEFINE T == {i \in Nat : i <= max => g[i] \in V}
<1>8. 0 \in T
  BY <1>0, <1>7
<1>9. ASSUME NEW i \in Nat, i \in T PROVE i + 1 \in T
  <2> SUFFICES ASSUME i + 1 <= max PROVE g[i + 1] \in V
    OBVIOUS
  <2>1. i + 1 \in 0 .. max /\ i + 1 # 0 /\ (i + 1) - 1 = i /\ g[i] \in V
    BY <1>9
  <2>2. g[i + 1] = OneLoan(g[i])
    BY <1>7, <2>1
  <2> QED BY <1>1, <2>1, <2>2
<1>10. max \in T
  <2> HIDE DEF T
  <2> QED BY <1>8, <1>9, NumberInduction
<1>11. g[max] \in V
  BY <1>10
<1> QED BY <1>5, <1>11 DEF V

-----------------------------------------------------------------------------
(* Changes of the pool and of accounts *)

LentOf(s) == IF s.pool = None THEN 0 ELSE s.pool.lent
TotalRex(s) == IF s.pool = None THEN 0 ELSE s.pool.total_rex

(* What the books say of the totals, with and without a pool *)
LEMMA Totals ==
  ASSUME NEW n \in Int, NEW s, Books(s, n)
  PROVE  /\ s \in TableSet /\ LentOf(s) = Over(StakedOf, s) /\ TotalRex(s) = RexHeld(s)
         /\ LentOf(s) \in Nat /\ TotalRex(s) \in Nat /\ Lendable(s) \in Nat /\ Funds(s) \in Int
         /\ Over(BalanceOf, s) \in Nat /\ Uncollected(s) \in Int
<1>0. s \in TableSet
  BY DEF Books
<1>1. /\ s.pool \in Pools \cup {None} /\ s.fund \in [Users -> Int] /\ s.loans \in [Kinds -> SUBSET Loans]
      /\ \A a \in Users : s.orders[a] \in Orders \cup {None}
  BY <1>0, TableFields
<1>2. LentOf(s) \in Nat /\ TotalRex(s) \in Nat /\ Lendable(s) \in Nat
  BY <1>1, PoolFields DEF LentOf, TotalRex, Lendable
<1>3. Over(BalanceOf, s) \in Nat
  <2>1. \A j \in Kinds : s.loans[j] \in SUBSET Loans /\ IsFiniteSet(s.loans[j])
    BY <1>1 DEF Books, LoansOK
  <2>2. BalanceOf \in [Loans -> Int] /\ \A l \in Loans : BalanceOf[l] >= 0
    BY LoanAmounts
  <2> QED BY <2>1, <2>2, OverType
<1>4. Funds(s) \in Int /\ Uncollected(s) \in Int
  <2>1. \A a \in Users : Owing(s.orders[a]) \in Int
    BY <1>1 DEF Owing, IsFilled, Orders
  <2>2. [a \in Users |-> Owing(s.orders[a])] \in [Users -> Int]
    BY <2>1
  <2> QED BY <1>1, <2>2, UsersFinite, SumType DEF Funds, Uncollected
<1>5. CASE s.pool # None
  BY <1>0, <1>2, <1>3, <1>4, <1>5 DEF Books, PoolOK, LentOf, TotalRex
<1>6. CASE s.pool = None
  <2>1. \A k \in Kinds : s.loans[k] = {}
    BY <1>6 DEF Books, LoansOK
  <2>2. Over(StakedOf, s) = 0
    <3>1. s.loans["net"] = {} /\ s.loans["cpu"] = {}
      BY <2>1, KindsAre
    <3>2. SumFunctionOnSet(StakedOf, {}) = 0
      BY SumEmpty, LoanAmounts
    <3>3. Over(StakedOf, s) = 0 + 0
      BY <3>1, <3>2, Zenon DEF Over
    <3> QED BY <3>3
  <2>3. \A a \in Users : RexIn(s.bal[a]) = 0
    BY <1>6 DEF Books, UnusedOK, RexIn
  <2>4. RexHeld(s) = 0
    <3> DEFINE f == [a \in Users |-> RexIn(s.bal[a])]
    <3>1. f \in [Users -> Int] /\ \A a \in Users : f[a] = 0
      BY <2>3
    <3>2. RexHeld(s) = SumFunctionOnSet(f, Users)
      BY DEF RexHeld
    <3> HIDE DEF f
    <3> QED BY <3>1, <3>2, SumOfZeros, UsersFinite
  <2> QED BY <1>0, <1>2, <1>3, <1>4, <1>6, <2>2, <2>4 DEF LentOf, TotalRex
<1> QED BY <1>5, <1>6

(* One account's rows, its fund and the pool change. *)
LEMMA AccountBooks ==
  ASSUME NEW n \in Int, NEW s, NEW t \in TableSet, Books(s, n), NEW a \in Users, t.loans = s.loans,
         \A b \in Users \ {a} : t.bal[b] = s.bal[b] /\ t.orders[b] = s.orders[b] /\ t.fund[b] = s.fund[b],
         t.pool = None => s.pool = None /\ t.bal[a] = None /\ t.orders[a] = None,
         t.pool # None =>
           /\ t.pool.lendable = t.pool.unlent + t.pool.lent /\ t.pool.lent = LentOf(s)
           /\ t.pool.total_rex = TotalRex(s) + (RexIn(t.bal[a]) - RexIn(s.bal[a]))
           /\ t.pool.total_rex = 0 <=> t.pool.lendable = 0
           /\ t.pool.proceeds > 0 => t.pool.total_rex > 0
           /\ s.pool # None => t.pool.loan_num >= s.pool.loan_num,
         t.held.rex = ((s.held.rex + (t.fund[a] - s.fund[a])) + (Lendable(t) - Lendable(s)))
                        + (Owing(t.orders[a]) - Owing(s.orders[a])),
         RowOK(t.bal[a]),
         IsOpen(t.orders[a]) =>
           /\ t.bal[a] # None /\ t.orders[a].requested <= t.bal[a].matured /\ t.orders[a].time <= n
           /\ \A k \in Kinds : \A l \in s.loans[k] : l.expiration <= t.orders[a].time + LoanTerm
  PROVE  Books(t, n)
<1>0. /\ s \in TableSet /\ LentOf(s) = Over(StakedOf, s) /\ TotalRex(s) = RexHeld(s)
      /\ LentOf(s) \in Nat /\ TotalRex(s) \in Nat /\ Lendable(s) \in Nat /\ Funds(s) \in Int
      /\ Over(BalanceOf, s) \in Nat /\ Uncollected(s) \in Int
  BY Totals
<1>1. Over(StakedOf, t) = Over(StakedOf, s) /\ Over(BalanceOf, t) = Over(BalanceOf, s)
  BY DEF Over
<1>2. /\ \A b \in Users : s.orders[b] \in Orders \cup {None} /\ t.orders[b] \in Orders \cup {None}
      /\ \A b \in Users : s.bal[b] \in Balances \cup {None} /\ t.bal[b] \in Balances \cup {None}
      /\ s.pool \in Pools \cup {None} /\ t.pool \in Pools \cup {None}
      /\ \A b \in Users : s.fund[b] \in Nat /\ t.fund[b] \in Nat
  BY <1>0, TableFields
<1>3. /\ \A b \in Users : Owing(s.orders[b]) \in Int /\ Owing(t.orders[b]) \in Int
      /\ \A b \in Users : RexIn(s.bal[b]) \in Nat /\ RexIn(t.bal[b]) \in Nat
  BY <1>2 DEF Owing, IsFilled, Orders, RexIn, Balances
<1>4. RexHeld(t) = RexHeld(s) + (RexIn(t.bal[a]) - RexIn(s.bal[a]))
  <2> DEFINE f == [b \in Users |-> RexIn(s.bal[b])]
             g == [b \in Users |-> RexIn(t.bal[b])]
  <2>1. f \in [Users -> Int] /\ g \in [Users -> Int] /\ \A b \in Users \ {a} : g[b] = f[b]
    BY <1>3
  <2>2. f[a] = RexIn(s.bal[a]) /\ g[a] = RexIn(t.bal[a]) /\ RexHeld(t) = SumFunctionOnSet(g, Users)
        /\ RexHeld(s) = SumFunctionOnSet(f, Users)
    BY DEF RexHeld
  <2> HIDE DEF f, g
  <2>3. RexHeld(t) = RexHeld(s) - f[a] + g[a]
    BY <2>1, <2>2, UsersFinite, SumDiffer
  <2> QED BY <1>0, <1>3, <2>2, <2>3
<1>5. Uncollected(t) = Uncollected(s) + (Owing(t.orders[a]) - Owing(s.orders[a]))
  <2> DEFINE f == [b \in Users |-> Owing(s.orders[b])]
             g == [b \in Users |-> Owing(t.orders[b])]
  <2>1. f \in [Users -> Int] /\ g \in [Users -> Int] /\ \A b \in Users \ {a} : g[b] = f[b]
    BY <1>3
  <2>2. f[a] = Owing(s.orders[a]) /\ g[a] = Owing(t.orders[a]) /\ Uncollected(t) = SumFunctionOnSet(g, Users)
        /\ Uncollected(s) = SumFunctionOnSet(f, Users)
    BY DEF Uncollected
  <2> HIDE DEF f, g
  <2>3. Uncollected(t) = Uncollected(s) - f[a] + g[a]
    BY <2>1, <2>2, UsersFinite, SumDiffer
  <2> QED BY <1>0, <1>3, <2>2, <2>3
<1>6. Funds(t) = Funds(s) + (t.fund[a] - s.fund[a])
  BY <1>0, FundsChange
<1>7. PoolOK(t)
  BY <1>0, <1>1, <1>3, <1>4 DEF PoolOK
<1>8. BackedOK(t)
  <2>1. s.held.rex = ((Funds(s) + Lendable(s)) + Over(BalanceOf, s)) + Uncollected(s)
    BY DEF Books, BackedOK
  <2>2. Lendable(t) \in Nat /\ s.fund[a] \in Nat /\ t.fund[a] \in Nat
    BY <1>2, PoolFields DEF Lendable
  <2>3. Owing(s.orders[a]) \in Int /\ Owing(t.orders[a]) \in Int
    BY <1>3
  <2> QED BY <1>0, <1>1, <1>5, <1>6, <2>1, <2>2, <2>3 DEF BackedOK
<1>9. UnusedOK(t) /\ \A b \in Users : RowOK(t.bal[b])
  BY DEF UnusedOK, Books
<1>10. LoansOK(t, n)
  <2>1. ASSUME NEW k \in Kinds, NEW l \in t.loans[k] PROVE l.num <= t.pool.loan_num
    <3>1. l \in s.loans[k] /\ s.pool # None /\ l.num <= s.pool.loan_num
      BY <2>1 DEF Books, LoansOK
    <3>2. l \in Loans
      BY <1>0, <3>1, TableFields
    <3>3. l.num \in Nat
      BY <3>2 DEF Loans
    <3> QED BY <1>2, <3>1, <3>3, PoolFields
  <2>2. t.pool = None => \A k \in Kinds : t.loans[k] = {}
    BY DEF Books, LoansOK
  <2> QED BY <2>1, <2>2 DEF Books, LoansOK
<1>11. OrdersOK(t, n)
  BY DEF Books, OrdersOK
<1> QED BY <1>7, <1>8, <1>9, <1>10, <1>11 DEF Books

(* Only the pool and the tokens of the accounts of the system change. *)
LEMMA PoolBooks ==
  ASSUME NEW n \in Int, NEW s, NEW t \in TableSet, Books(s, n), t.loans = s.loans, t.bal = s.bal,
         t.orders = s.orders, t.fund = s.fund, t.pool = None <=> s.pool = None,
         t.pool # None =>
           /\ t.pool.lendable = t.pool.unlent + t.pool.lent /\ t.pool.lent = LentOf(s)
           /\ t.pool.total_rex = TotalRex(s)
           /\ t.pool.total_rex = 0 <=> t.pool.lendable = 0
           /\ t.pool.proceeds > 0 => t.pool.total_rex > 0
           /\ t.pool.loan_num = s.pool.loan_num,
         t.held.rex = s.held.rex + (Lendable(t) - Lendable(s))
  PROVE  Books(t, n)
<1>0. /\ s \in TableSet /\ LentOf(s) = Over(StakedOf, s) /\ TotalRex(s) = RexHeld(s)
      /\ LentOf(s) \in Nat /\ TotalRex(s) \in Nat /\ Lendable(s) \in Nat /\ Funds(s) \in Int
      /\ Over(BalanceOf, s) \in Nat /\ Uncollected(s) \in Int
  BY Totals
<1>1. /\ Over(StakedOf, t) = Over(StakedOf, s) /\ Over(BalanceOf, t) = Over(BalanceOf, s)
      /\ RexHeld(t) = RexHeld(s) /\ Uncollected(t) = Uncollected(s) /\ Funds(t) = Funds(s)
  BY DEF Over, RexHeld, Uncollected, Funds
<1>2. PoolOK(t)
  BY <1>0, <1>1 DEF PoolOK
<1>3. BackedOK(t)
  <2>1. s.held.rex = ((Funds(s) + Lendable(s)) + Over(BalanceOf, s)) + Uncollected(s)
    BY DEF Books, BackedOK
  <2>2. Lendable(t) \in Nat
    BY TableFields, PoolFields DEF Lendable
  <2> QED BY <1>0, <1>1, <2>1, <2>2 DEF BackedOK
<1>4. UnusedOK(t) /\ (\A b \in Users : RowOK(t.bal[b])) /\ LoansOK(t, n) /\ OrdersOK(t, n)
  BY DEF UnusedOK, Books, LoansOK, OrdersOK
<1> QED BY <1>2, <1>3, <1>4 DEF Books

(* The proceeds of auctions reach the pool. *)
LEMMA ProceedsChannelled ==
  ASSUME now \in Int, NEW s, Books(s, now), s.pool # None
  PROVE  Leads(s, Channelled(s)) /\ Channelled(s).pool.proceeds = 0
<1> DEFINE t == Channelled(s)
<1>0. s \in TableSet /\ s.pool \in Pools /\ s.held \in [rex : Int, names : Int, ramfee : Int]
  BY TableFields DEF Books
<1>1. CASE s.pool.proceeds > 0
  <2> DEFINE x == s.pool.proceeds
             un == s.pool.unlent + x
             la == s.pool.lendable + x
             q == [lent |-> s.pool.lent, unlent |-> un, rent |-> s.pool.rent, lendable |-> la,
                   total_rex |-> s.pool.total_rex, proceeds |-> 0, loan_num |-> s.pool.loan_num]
             hr == s.held.rex + x
             hn == s.held.names - x
             he == [rex |-> hr, names |-> hn, ramfee |-> s.held.ramfee]
  <2>1. rex_available(s.pool) /\ s.pool.total_rex > 0
    BY <1>1 DEF Books, PoolOK, rex_available
  <2>2. t = [pool |-> q, fund |-> s.fund, bal |-> s.bal, loans |-> s.loans, orders |-> s.orders, held |-> he,
             res |-> s.res]
    <3>1. t = [[s EXCEPT !.pool.unlent = @ + x, !.pool.lendable = @ + x, !.held.rex = @ + x, !.held["names"] = @ - x]
                 EXCEPT !.pool.proceeds = 0]
      BY <1>1, <2>1 DEF Channelled, channel_to_rex
    <3>2. [[[s.pool EXCEPT !.unlent = un] EXCEPT !.lendable = la] EXCEPT !.proceeds = 0] = q
      <4> DEFINE p == [[[s.pool EXCEPT !.unlent = un] EXCEPT !.lendable = la] EXCEPT !.proceeds = 0]
      <4>1. p = [[[s.pool EXCEPT !.unlent = un] EXCEPT !.lendable = la] EXCEPT !.proceeds = 0]
        OBVIOUS
      <4> HIDE DEF un, la, p
      <4>2. p = q
        BY <1>0, <4>1 DEF Pools
      <4> QED BY <4>1, <4>2, Zenon
    <3>3. [[s.held EXCEPT !.rex = hr] EXCEPT !.names = hn] = he
      <4> DEFINE h == [[s.held EXCEPT !.rex = hr] EXCEPT !.names = hn]
      <4>1. h = [[s.held EXCEPT !.rex = hr] EXCEPT !.names = hn]
        OBVIOUS
      <4> HIDE DEF hr, hn, h
      <4>2. h = he
        BY <1>0, <4>1
      <4> QED BY <4>1, <4>2, Zenon
    <3> QED BY <1>0, <3>1, <3>2, <3>3 DEF TableSet, Pools
  <2>3. q \in Pools /\ he \in [rex : Int, names : Int, ramfee : Int] /\ x \in Nat /\ x > 0
    BY <1>0, <1>1, PoolFields DEF Pools
  <2>4. /\ q.lent = s.pool.lent /\ q.unlent = s.pool.unlent + x /\ q.lendable = s.pool.lendable + x
        /\ q.total_rex = s.pool.total_rex /\ q.proceeds = 0 /\ q.loan_num = s.pool.loan_num
        /\ he.rex = s.held.rex + x /\ he.names = s.held.names - x
    OBVIOUS
  <2> HIDE DEF q, he, t, x
  <2>5. t \in TableSet
    BY <1>0, <2>2, <2>3, TableFields DEF TableSet
  <2>6. Books(t, now)
    <3>1. /\ t.loans = s.loans /\ t.bal = s.bal /\ t.orders = s.orders /\ t.fund = s.fund /\ t.pool = q
          /\ t.held = he /\ q # None
      BY <2>2, <2>3, PoolFields
    <3>2. LentOf(s) = s.pool.lent /\ TotalRex(s) = s.pool.total_rex /\ Lendable(s) = s.pool.lendable
          /\ Lendable(t) = q.lendable
      BY <3>1 DEF LentOf, TotalRex, Lendable
    <3>3. /\ s.pool.lendable = s.pool.unlent + s.pool.lent
          /\ s.pool.total_rex = 0 <=> s.pool.lendable = 0
      BY DEF Books, PoolOK
    <3>4. /\ q.lendable = q.unlent + q.lent /\ q.lendable > 0 /\ he.rex = s.held.rex + (q.lendable - s.pool.lendable)
      BY <1>0, <2>3, <2>4, <3>3, PoolFields
    <3> QED BY <2>1, <2>4, <2>5, <3>1, <3>2, <3>4, PoolBooks
  <2>7. Moves(s, t)
    <3>1. Cheaper(s.pool.lendable, s.pool.total_rex, q.lendable, q.total_rex)
      <4>1. s.pool.lendable <= q.lendable
        BY <1>0, <2>3, <2>4, PoolFields
      <4> QED BY <1>0, <2>3, <2>4, <4>1, PoolFields, Times_ DEF Cheaper
    <3>2. PoolMoves(s.pool, q)
      BY <2>1, <2>4, <3>1 DEF PoolMoves
    <3>3. \A a \in Users : AccountMoves(s, t, a)
      <4>1. s.fund \in [Users -> Nat]
        BY <1>0, TableFields
      <4> QED BY <2>2, <4>1 DEF AccountMoves, StakeIn
    <3>4. \A k \in Kinds, a \in Accounts : Delegations(t, k, a) = Delegations(s, k, a)
      BY <2>2 DEF Delegations
    <3>5. t.held.names - t.pool.proceeds = s.held.names - s.pool.proceeds
      BY <1>0, <2>2, <2>3, <2>4 DEF x
    <3> QED BY <2>2, <2>3, <3>2, <3>3, <3>4, <3>5, PoolFields DEF Moves
  <2> QED BY <2>2, <2>4, <2>6, <2>7 DEF Leads, t
<1>2. CASE ~(s.pool.proceeds > 0)
  BY <1>0, <1>2, MovesRefl, PoolFields DEF Channelled, Leads
<1> QED BY <1>1, <1>2

-----------------------------------------------------------------------------
(* Sales *)

(* An owner has at most all the REX there is. *)
LEMMA RexOfOwner ==
  ASSUME NEW n \in Int, NEW s, Books(s, n), s.pool # None, NEW a \in Users, s.bal[a] # None
  PROVE  /\ s.bal[a] \in Balances /\ s.bal[a].rex \in Nat /\ s.bal[a].matured \in Nat /\ s.bal[a].savings \in Nat
         /\ SumFunctionOnSet(s.bal[a].buckets, Maturities) \in Nat
         /\ s.bal[a].rex = s.bal[a].matured + SumFunctionOnSet(s.bal[a].buckets, Maturities) + s.bal[a].savings
         /\ s.bal[a].rex <= s.pool.total_rex /\ s.pool.total_rex \in Nat
<1>0. s \in TableSet /\ s.pool \in Pools /\ \A b \in Users : s.bal[b] \in Balances \cup {None}
  BY TableFields DEF Books
<1>1. /\ s.bal[a] \in Balances /\ s.bal[a].rex \in Nat /\ s.bal[a].matured \in Nat /\ s.bal[a].savings \in Nat
      /\ s.bal[a].buckets \in [Maturities -> Nat]
  BY <1>0 DEF Balances
<1>2. SumFunctionOnSet(s.bal[a].buckets, Maturities) \in Nat
  <2>1. IsFiniteSet(Maturities)
    BY BalanceAssumption, FS_Interval DEF Maturities
  <2>2. s.bal[a].buckets \in [Maturities -> Int] /\ \A m \in Maturities : s.bal[a].buckets[m] >= 0
    BY <1>1
  <2> QED BY <2>1, <2>2, SumNat
<1>3. s.bal[a].rex <= s.pool.total_rex
  <2> DEFINE f == [b \in Users |-> RexIn(s.bal[b])]
  <2>1. f \in [Users -> Int] /\ \A b \in Users : f[b] >= 0
    BY <1>0 DEF RexIn, Balances
  <2>2. f[a] = s.bal[a].rex /\ s.pool.total_rex = SumFunctionOnSet(f, Users)
    BY DEF RexIn, Books, PoolOK, RexHeld
  <2> HIDE DEF f
  <2>3. f[a] <= SumFunctionOnSet(f, Users)
    BY <2>1, UsersFinite, SumCovers
  <2> QED BY <2>2, <2>3
<1>4. s.bal[a].rex = s.bal[a].matured + SumFunctionOnSet(s.bal[a].buckets, Maturities) + s.bal[a].savings
  BY DEF Books, RowOK
<1> QED BY <1>0, <1>1, <1>2, <1>3, <1>4, PoolFields

(* What a sale of x REX of a for y tokens does to the pool and to the row of a,
   whose stake changes by d *)
Sells(s, t, a, x, y, d) ==
  /\ t \in TableSet /\ t.pool \in Pools
  /\ t.loans = s.loans /\ t.orders = s.orders /\ t.fund = s.fund /\ t.held = s.held /\ t.res = s.res
  /\ \A b \in Users \ {a} : t.bal[b] = s.bal[b]
  /\ t.pool.lent = s.pool.lent /\ t.pool.lendable = s.pool.lendable - y /\ y <= s.pool.lendable
  /\ t.pool.total_rex = s.pool.total_rex - x /\ t.pool.lendable = t.pool.unlent + t.pool.lent
  /\ t.pool.total_rex = 0 <=> t.pool.lendable = 0
  /\ t.pool.proceeds = s.pool.proceeds /\ t.pool.loan_num = s.pool.loan_num
  /\ Cheaper(s.pool.lendable, s.pool.total_rex, t.pool.lendable, t.pool.total_rex)
  /\ t.bal[a] \in Balances
  /\ t.bal[a].rex = s.bal[a].rex - x /\ t.bal[a].matured = s.bal[a].matured - x
  /\ t.bal[a].buckets = s.bal[a].buckets /\ t.bal[a].savings = s.bal[a].savings
  /\ t.bal[a].vote_stake = s.bal[a].vote_stake + d
  /\ t.bal[a].rex = 0 => t.bal[a].vote_stake = 0
  /\ y \in Nat /\ d \in Int

(* A part of the REX is worth that part of the pool, rounded down. *)
LEMMA ValuePart ==
  ASSUME NEW p, p.lendable \in Nat, p.total_rex \in Nat \ {0}, NEW x \in Nat, x <= p.total_rex
  PROVE  /\ ValueOf(p, x) \in Nat /\ ValueOf(p, x) <= p.lendable
         /\ ValueOf(p, x) * p.total_rex <= x * p.lendable
         /\ x = p.total_rex => ValueOf(p, x) = p.lendable
         /\ x < p.total_rex /\ p.lendable > 0 => ValueOf(p, x) < p.lendable
<1> DEFINE b == p.lendable
           d == p.total_rex
<1>1. b \in Nat /\ d \in Nat \ {0} /\ x <= d
  OBVIOUS
<1>2. ValueOf(p, x) = (x * b) \div d
  BY DEF ValueOf
<1> SUFFICES /\ (x * b) \div d \in Nat /\ (x * b) \div d <= b /\ ((x * b) \div d) * d <= x * b
             /\ x = d => (x * b) \div d = b
             /\ x < d /\ b > 0 => (x * b) \div d < b
  BY <1>2
<1> HIDE DEF b, d
<1> QED BY <1>1, PartOf

(* fill_rex_order, when the pool can pay *)
LEMMA OrderFilled ==
  ASSUME NEW n \in Int, NEW s, Books(s, n), s.pool # None, NEW a \in Users, s.bal[a] # None,
         NEW x \in Nat \ {0}, x <= s.bal[a].matured, fill_rex_order(s, a, x).success
  PROVE  LET sale == fill_rex_order(s, a, x)
         IN  Sells(s, sale.tables, a, x, sale.proceeds, sale.stake_change)
<1> DEFINE sale == fill_rex_order(s, a, x)
           p == s.pool
           b == s.bal[a]
           y == ValueOf(p, x)
           stake == ValueOf(p, b.rex) - y
           q == [p EXCEPT !.total_rex = @ - x, !.lendable = @ - y, !.unlent = p.lendable - y - p.lent]
           row == [b EXCEPT !.vote_stake = stake, !.rex = @ - x, !.matured = @ - x]
           t == [s EXCEPT !.pool = q, !.bal = [@ EXCEPT ![a] = row]]
<1>0. s \in TableSet /\ p \in Pools /\ s.bal \in [Users -> Balances \cup {None}]
  BY TableFields DEF Books
<1>1. sale.tables = t /\ sale.proceeds = y /\ sale.stake_change = stake - b.vote_stake /\ CanPay(p, y)
  BY <1>0 DEF fill_rex_order, TableSet
<1> HIDE DEF sale
<1>2. b \in Balances /\ b.rex \in Nat /\ b.matured \in Nat /\ b.matured <= b.rex /\ b.rex <= p.total_rex /\ b.vote_stake \in Int
  <2>1. b \in Balances /\ b.rex \in Nat /\ b.matured \in Nat /\ b.matured <= b.rex /\ b.rex <= p.total_rex
    BY RexOfOwner
  <2> QED BY <2>1 DEF Balances
<1>3. /\ p.lendable \in Nat /\ p.total_rex \in Nat \ {0} /\ p.unlent \in Nat /\ p.lent \in Nat /\ x <= p.total_rex
      /\ p.lendable = p.unlent + p.lent /\ p.lendable > 0 /\ p.proceeds \in Nat /\ p.loan_num \in Nat
  BY <1>0, <1>2, PoolFields DEF Books, PoolOK
<1>4. /\ y \in Nat /\ y <= p.lendable /\ y * p.total_rex <= x * p.lendable
      /\ x = p.total_rex => y = p.lendable
      /\ x < p.total_rex => y < p.lendable
  BY <1>3, ValuePart
<1>5. ValueOf(p, b.rex) \in Nat /\ (b.rex = x => ValueOf(p, b.rex) = y)
  <2>1. b.rex \in Nat /\ b.rex <= p.total_rex
    BY <1>2
  <2>2. ValueOf(p, b.rex) \in Nat
    BY <1>3, <2>1, ValuePart
  <2> QED BY <2>2
<1>6. y <= p.unlent
  <2>1. p.lent \div LentParts \in Nat
    BY <1>3, RexAssumption, DivNat
  <2> HIDE DEF y
  <2> QED BY <1>1, <1>3, <1>4, <2>1 DEF CanPay
<1>7. stake \in Int /\ (b.rex = x => stake = 0)
  BY <1>4, <1>5
<1> HIDE DEF y, stake
<1>8. /\ q \in Pools /\ q.lent = p.lent /\ q.lendable = p.lendable - y /\ q.total_rex = p.total_rex - x
      /\ q.unlent = (p.lendable - y) - p.lent /\ q.proceeds = p.proceeds /\ q.loan_num = p.loan_num
  <2> DEFINE to == p.total_rex - x
             la == p.lendable - y
             un == (p.lendable - y) - p.lent
  <2>1. to \in Nat /\ la \in Nat /\ un \in Nat
    BY <1>3, <1>4, <1>6
  <2>2. q = [p EXCEPT !.total_rex = to, !.lendable = la, !.unlent = un]
    OBVIOUS
  <2> HIDE DEF to, la, un, q
  <2>3. q = [lent |-> p.lent, unlent |-> un, rent |-> p.rent, lendable |-> la, total_rex |-> to,
             proceeds |-> p.proceeds, loan_num |-> p.loan_num]
    BY <1>0, <2>2 DEF Pools
  <2>4. q \in Pools
    BY <1>0, <2>1, <2>3, PoolFields DEF Pools
  <2> QED BY <2>3, <2>4 DEF to, la, un
<1>9. /\ row \in Balances /\ row.rex = b.rex - x /\ row.matured = b.matured - x /\ row.buckets = b.buckets
      /\ row.savings = b.savings /\ row.vote_stake = stake
  <2> DEFINE re == b.rex - x
             ma == b.matured - x
  <2>1. re \in Nat /\ ma \in Nat
    BY <1>2
  <2>2. row = [b EXCEPT !.vote_stake = stake, !.rex = re, !.matured = ma]
    OBVIOUS
  <2> HIDE DEF re, ma, row
  <2>3. row = [vote_stake |-> stake, rex |-> re, matured |-> ma, buckets |-> b.buckets, savings |-> b.savings]
    BY <1>2, <2>2 DEF Balances
  <2>4. row \in Balances
    BY <1>2, <1>7, <2>1, <2>3 DEF Balances
  <2> QED BY <2>3, <2>4 DEF re, ma
<1> HIDE DEF q, row
<1>10. /\ t \in TableSet /\ t.pool = q /\ t.bal[a] = row /\ \A c \in Users \ {a} : t.bal[c] = s.bal[c]
       /\ t.loans = s.loans /\ t.orders = s.orders /\ t.fund = s.fund /\ t.held = s.held /\ t.res = s.res
  <2> DEFINE ba == [s.bal EXCEPT ![a] = row]
  <2>1. ba \in [Users -> Balances \cup {None}] /\ ba[a] = row /\ \A c \in Users \ {a} : ba[c] = s.bal[c]
    BY <1>0, <1>9
  <2>2. t = [s EXCEPT !.pool = q, !.bal = ba]
    BY <1>0 DEF TableSet
  <2> HIDE DEF ba, t
  <2>3. t = [pool |-> q, fund |-> s.fund, bal |-> ba, loans |-> s.loans, orders |-> s.orders, held |-> s.held, res |-> s.res]
    BY <1>0, <2>2 DEF TableSet
  <2>4. t \in TableSet
    BY <1>0, <1>8, <2>1, <2>3, TableFields DEF TableSet
  <2> QED BY <2>1, <2>3, <2>4
<1>11. Cheaper(p.lendable, p.total_rex, q.lendable, q.total_rex)
  <2>1. p.lendable * (p.total_rex - x) = p.lendable * p.total_rex - x * p.lendable
    BY <1>3
  <2>2. (p.lendable - y) * p.total_rex = p.lendable * p.total_rex - y * p.total_rex
    BY <1>3, <1>4
  <2>3. p.lendable * p.total_rex \in Int /\ x * p.lendable \in Int /\ y * p.total_rex \in Int
    BY <1>3, <1>4
  <2> QED BY <1>4, <1>8, <2>1, <2>2, <2>3 DEF Cheaper
<1>12. q.total_rex = 0 <=> q.lendable = 0
  <2>1. p.total_rex - x = 0 <=> x = p.total_rex
    BY <1>3
  <2>2. p.lendable - y = 0 <=> y = p.lendable
    BY <1>3, <1>4
  <2>3. x < p.total_rex \/ x = p.total_rex
    BY <1>3
  <2>4. y < p.lendable => y # p.lendable
    BY <1>3, <1>4
  <2> QED BY <1>4, <1>8, <2>1, <2>2, <2>3, <2>4
<1>13. q.lendable = q.unlent + q.lent
  BY <1>3, <1>4, <1>8
<1>14. row.rex = 0 => row.vote_stake = 0
  BY <1>2, <1>7, <1>9
<1>15. row.vote_stake = b.vote_stake + (stake - b.vote_stake) /\ stake - b.vote_stake \in Int
  BY <1>2, <1>7, <1>9
<1> HIDE DEF t
<1>16. Sells(s, t, a, x, y, stake - b.vote_stake)
  BY <1>4, <1>8, <1>9, <1>10, <1>11, <1>12, <1>13, <1>14, <1>15 DEF Sells
<1> QED BY <1>1, <1>16 DEF sale

(* runrex fills an order that the pool can pay, and lets the others wait. *)
LEMMA QueuedFilled ==
  ASSUME NEW n \in Int, NEW s, Books(s, n), s.pool # None, s.pool.proceeds = 0, NEW a \in Users,
         IsOpen(s.orders[a])
  PROVE  LET t == FillQueued(s, a)
         IN  /\ Books(t, n) /\ Moves(s, t)
             /\ \A b \in Users \ {a} : t.orders[b] = s.orders[b]
<1> DEFINE x == s.orders[a].requested
           sale == fill_rex_order(s, a, x)
           u == sale.tables
           y == sale.proceeds
           d == sale.stake_change
           t == FillQueued(s, a)
<1>0. /\ s \in TableSet /\ s.pool \in Pools /\ s.bal \in [Users -> Balances \cup {None}]
      /\ s.orders \in [Users -> Orders \cup {None}] /\ s.fund \in [Users -> Nat]
  BY TableFields DEF Books
<1>1. /\ s.orders[a] \in Orders /\ s.orders[a].is_open /\ x \in Nat \ {0} /\ s.orders[a].time \in Int
  <2>1. s.orders[a] \in Orders /\ s.orders[a].is_open
    BY <1>0 DEF IsOpen
  <2> QED BY <2>1 DEF Orders
<1>2. /\ s.bal[a] # None /\ x <= s.bal[a].matured
  BY DEF Books, OrdersOK
<1>3. CASE ~sale.success
  <2>1. t = s
    BY <1>2, <1>3 DEF FillQueued
  <2> QED BY <1>0, <2>1, MovesRefl
<1>4. CASE sale.success
  <2>1. Sells(s, u, a, x, y, d)
    BY <1>1, <1>2, <1>4, OrderFilled
  <2>2. t = [u EXCEPT !.orders[a] = [@ EXCEPT !.is_open = FALSE, !.proceeds = y, !.stake_change = d]]
    BY <1>2, <1>4 DEF FillQueued
  <2> HIDE DEF sale, u, y, d, t
  <2>3. /\ u \in TableSet /\ u.orders = s.orders /\ y \in Nat /\ d \in Int /\ u.pool \in Pools
    BY <2>1 DEF Sells
  <2> DEFINE o == [s.orders[a] EXCEPT !.is_open = FALSE, !.proceeds = y, !.stake_change = d]
             ord == [s.orders EXCEPT ![a] = o]
  <2>4. o \in Orders /\ ~o.is_open /\ o.proceeds = y /\ o.stake_change = d /\ o # None
    <3>0. o = [s.orders[a] EXCEPT !.is_open = FALSE, !.proceeds = y, !.stake_change = d]
      OBVIOUS
    <3> HIDE DEF o
    <3>1. o = [requested |-> x, is_open |-> FALSE, proceeds |-> y, stake_change |-> d, time |-> s.orders[a].time]
      BY <1>1, <3>0 DEF Orders
    <3>2. o \in Orders
      BY <1>1, <2>3, <3>1 DEF Orders
    <3> QED BY <3>1, <3>2, NoRowAssumption
  <2> HIDE DEF o
  <2>5. ord \in [Users -> Orders \cup {None}] /\ ord[a] = o /\ \A b \in Users \ {a} : ord[b] = s.orders[b]
    BY <1>0, <2>4
  <2>6. t = [pool |-> u.pool, fund |-> u.fund, bal |-> u.bal, loans |-> u.loans, orders |-> ord, held |-> u.held, res |-> u.res]
    <3>1. t = [u EXCEPT !.orders = ord]
      BY <2>2, <2>3 DEF TableSet, o
    <3> HIDE DEF ord
    <3> QED BY <2>3, <3>1 DEF TableSet
  <2> HIDE DEF ord
  <2>7. t \in TableSet
    BY <2>3, <2>5, <2>6, TableFields DEF TableSet
  <2>8. /\ t.pool = u.pool /\ t.fund = s.fund /\ t.bal = u.bal /\ t.loans = s.loans /\ t.held = s.held /\ t.res = s.res
        /\ t.orders[a] = o /\ \A b \in Users \ {a} : t.orders[b] = s.orders[b]
    BY <2>1, <2>5, <2>6 DEF Sells
  <2>9. IsFilled(t.orders[a]) /\ ~IsOpen(t.orders[a]) /\ ~IsFilled(s.orders[a]) /\ PendingStake(t.orders[a]) = d
        /\ PendingStake(s.orders[a]) = 0 /\ Owing(t.orders[a]) = y /\ Owing(s.orders[a]) = 0
    BY <1>1, <2>4, <2>8 DEF IsFilled, IsOpen, PendingStake, Owing
  <2>10. /\ s.bal[a] \in Balances /\ s.bal[a].rex \in Nat /\ s.bal[a].matured \in Nat /\ s.bal[a].savings \in Nat
         /\ SumFunctionOnSet(s.bal[a].buckets, Maturities) \in Nat /\ s.bal[a].vote_stake \in Int
         /\ s.bal[a].rex = s.bal[a].matured + SumFunctionOnSet(s.bal[a].buckets, Maturities) + s.bal[a].savings
    <3>1. s.bal[a] \in Balances
      BY <1>0, <1>2
    <3> QED BY <1>2, <3>1, RexOfOwner DEF Balances
  <2>11. t.bal[a] # None /\ s.pool # None /\ t.pool # None
    BY <2>1, <2>3, <2>8, NoRowAssumption, PoolFields DEF Sells
  <2>12. Books(t, n)
    <3>1. RowOK(t.bal[a])
      <4> DEFINE w == SumFunctionOnSet(s.bal[a].buckets, Maturities)
      <4>1. /\ t.bal[a].rex = s.bal[a].rex - x /\ t.bal[a].matured = s.bal[a].matured - x
            /\ SumFunctionOnSet(t.bal[a].buckets, Maturities) = w /\ t.bal[a].savings = s.bal[a].savings
        BY <2>1, <2>8 DEF Sells
      <4>2. w \in Nat /\ s.bal[a].rex = s.bal[a].matured + w + s.bal[a].savings
        BY <2>10
      <4> HIDE DEF w
      <4>3. s.bal[a].rex - x = s.bal[a].matured - x + w + s.bal[a].savings
        BY <1>1, <2>10, <4>2
      <4> QED BY <4>1, <4>3 DEF RowOK
    <3>2. /\ LentOf(s) = s.pool.lent /\ TotalRex(s) = s.pool.total_rex /\ Lendable(s) = s.pool.lendable
          /\ Lendable(t) = s.pool.lendable - y /\ s.pool.lendable \in Nat /\ s.pool.total_rex \in Nat
          /\ RexIn(t.bal[a]) = s.bal[a].rex - x /\ RexIn(s.bal[a]) = s.bal[a].rex
      BY <1>0, <1>2, <2>1, <2>8, <2>11, PoolFields DEF LentOf, TotalRex, Lendable, Sells, RexIn
    <3>3. t.pool.total_rex = TotalRex(s) + (RexIn(t.bal[a]) - RexIn(s.bal[a]))
      BY <1>1, <2>1, <2>8, <2>10, <3>2 DEF Sells
    <3>4. t.held.rex = ((s.held.rex + (t.fund[a] - s.fund[a])) + (Lendable(t) - Lendable(s)))
                        + (Owing(t.orders[a]) - Owing(s.orders[a]))
      <4>1. s.held.rex \in Int /\ s.fund[a] \in Nat
        BY <1>0, TableFields
      <4> QED BY <2>3, <2>8, <2>9, <3>2, <4>1
    <3>5. t.pool # None =>
           /\ t.pool.lendable = t.pool.unlent + t.pool.lent /\ t.pool.lent = LentOf(s)
           /\ t.pool.total_rex = TotalRex(s) + (RexIn(t.bal[a]) - RexIn(s.bal[a]))
           /\ t.pool.total_rex = 0 <=> t.pool.lendable = 0
           /\ t.pool.proceeds > 0 => t.pool.total_rex > 0
           /\ s.pool # None => t.pool.loan_num >= s.pool.loan_num
      BY <1>0, <2>1, <2>8, <3>2, <3>3, PoolFields DEF Sells
    <3>6. \A b \in Users \ {a} : t.bal[b] = s.bal[b] /\ t.orders[b] = s.orders[b] /\ t.fund[b] = s.fund[b]
      BY <2>1, <2>8 DEF Sells
    <3> QED BY <2>7, <2>8, <2>9, <2>11, <3>1, <3>4, <3>5, <3>6, AccountBooks
  <2>13. Moves(s, t)
    <3>1. PoolMoves(s.pool, t.pool)
      BY <1>0, <1>1, <2>1, <2>8, PoolFields DEF PoolMoves, Sells
    <3>2. AccountMoves(s, t, a)
      <4>1. SavingsIn(t.bal[a]) = SavingsIn(s.bal[a]) /\ BucketsIn(t.bal[a]) = BucketsIn(s.bal[a])
        BY <1>2, <2>1, <2>8, <2>11 DEF SavingsIn, BucketsIn, Sells
      <4>2. StakeIn(t, a) = StakeIn(s, a)
        <5>1. VoteStake(t.bal[a]) = s.bal[a].vote_stake + d /\ VoteStake(s.bal[a]) = s.bal[a].vote_stake
          BY <1>2, <2>1, <2>8, <2>11 DEF VoteStake, Sells
        <5> QED BY <2>3, <2>9, <2>10, <5>1 DEF StakeIn
      <4>3. NoIdleStake(t.bal[a])
        BY <2>1, <2>8, <2>11 DEF NoIdleStake, RexIn, VoteStake, Sells
      <4>4. t.fund[a] >= s.fund[a]
        BY <1>0, <2>8
      <4> QED BY <1>2, <2>9, <2>11, <4>1, <4>2, <4>3, <4>4 DEF AccountMoves
    <3>3. ASSUME NEW b \in Users \ {a} PROVE AccountMoves(s, t, b)
      <4>1. t.bal[b] = s.bal[b] /\ t.orders[b] = s.orders[b] /\ t.fund[b] = s.fund[b] /\ s.fund[b] \in Nat
        BY <1>0, <2>1, <2>8 DEF Sells
      <4> QED BY <4>1 DEF AccountMoves, StakeIn
    <3>4. \A k \in Kinds, c \in Accounts : Delegations(t, k, c) = Delegations(s, k, c)
      BY <2>8 DEF Delegations
    <3>5. t.held.names - t.pool.proceeds = s.held.names - s.pool.proceeds
      BY <2>1, <2>8 DEF Sells
    <3> QED BY <2>11, <3>1, <3>2, <3>3, <3>4, <3>5 DEF Moves
  <2> QED BY <2>8, <2>12, <2>13 DEF t
<1> QED BY <1>3, <1>4

(* The recursive function that FillOrders is defined by *)
OpenAt(s, i) == {a \in Users : IsOpen(s.orders[a]) /\ Cardinality(Before(s, a)) = i - 1}

OrderStages(g, s, max) ==
  g = [i \in 0 .. max |->
        IF i = 0 THEN s
        ELSE IF OpenAt(s, i) = {} THEN g[i - 1]
        ELSE FillQueued(g[i - 1], CHOOSE a \in OpenAt(s, i) : TRUE)]

(* The orders at the head of the queue are tried, each once. *)
LEMMA OrdersFilled ==
  ASSUME now \in Int, NEW s, Books(s, now), s.pool # None, s.pool.proceeds = 0, NEW max \in Nat
  PROVE  Leads(s, FillOrders(s, max))
<1> DEFINE Who(i) == CHOOSE a \in OpenAt(s, i) : TRUE
           OneOrder(i, t) == IF OpenAt(s, i) = {} THEN t ELSE FillQueued(t, Who(i))
           Untried(i, t) == \A j \in Nat : j > i => \A a \in OpenAt(s, j) : t.orders[a] = s.orders[a]
           V == TableSet
           W == {w \in Nat \X V : Leads(s, w[2]) /\ Untried(w[1], w[2])}
           F == [w \in W |-> OneOrder(w[1] + 1, w[2])]
<1>0. s \in TableSet /\ Leads(s, s)
  BY MovesRefl DEF Books, Leads
<1>1. ASSUME NEW i \in Nat, NEW t \in V, Leads(s, t), Untried(i, t)
      PROVE  OneOrder(i + 1, t) \in V /\ Leads(s, OneOrder(i + 1, t)) /\ Untried(i + 1, OneOrder(i + 1, t))
  <2>1. Books(t, now) /\ Moves(s, t) /\ t.pool # None /\ t.pool.proceeds = 0
    BY <1>1 DEF Leads, Moves, PoolMoves
  <2>2. CASE OpenAt(s, i + 1) = {}
    <3>1. OneOrder(i + 1, t) = t
      BY <2>2
    <3>2. Untried(i + 1, t)
      BY <1>1
    <3> QED BY <1>1, <3>1, <3>2
  <2>3. CASE OpenAt(s, i + 1) # {}
    <3> DEFINE a == Who(i + 1)
               u == FillQueued(t, a)
    <3>1. a \in OpenAt(s, i + 1)
      BY <2>3
    <3>2. OneOrder(i + 1, t) = u
      BY <2>3
    <3> HIDE DEF a
    <3>3. a \in Users /\ IsOpen(s.orders[a]) /\ Cardinality(Before(s, a)) = (i + 1) - 1
      BY <3>1 DEF OpenAt
    <3>4. t.orders[a] = s.orders[a]
      <4>1. i + 1 \in Nat /\ i + 1 > i
        OBVIOUS
      <4> QED BY <1>1, <3>1, <4>1
    <3>5. Books(u, now) /\ Moves(t, u) /\ \A b \in Users \ {a} : u.orders[b] = t.orders[b]
      BY <2>1, <3>3, <3>4, QueuedFilled
    <3> HIDE DEF u
    <3>6. u \in V
      BY <3>5 DEF Books
    <3>7. Leads(s, u)
      BY <1>0, <2>1, <3>5, <3>6, MovesTrans DEF Leads
    <3>8. Untried(i + 1, u)
      <4> SUFFICES ASSUME NEW j \in Nat, j > i + 1, NEW b \in OpenAt(s, j) PROVE u.orders[b] = s.orders[b]
        OBVIOUS
      <4>1. b \in Users /\ Cardinality(Before(s, b)) = j - 1
        BY DEF OpenAt
      <4>2. b # a
        BY <3>3, <4>1
      <4>3. t.orders[b] = s.orders[b]
        BY <1>1
      <4> QED BY <3>5, <4>1, <4>2, <4>3
    <3> QED BY <3>2, <3>6, <3>7, <3>8
  <2> QED BY <2>2, <2>3
<1>2. Untried(0, s)
  OBVIOUS
<1> HIDE DEF OneOrder, Untried
<1>3. \A i \in Nat, t \in V : <<i, t>> \in W <=> Leads(s, t) /\ Untried(i, t)
  OBVIOUS
<1>4. F \in [W -> V] /\ \A i \in Nat, t \in V : <<i, t>> \in W => F[<<i, t>>] = OneOrder(i + 1, t)
  <2>1. \A w \in W : OneOrder(w[1] + 1, w[2]) \in V
    BY <1>1
  <2> QED BY <2>1
<1>5. W \in SUBSET (Nat \X V) /\ <<0, s>> \in W
  BY <1>0, <1>2
<1> HIDE DEF F, V, W
<1>6. \E g : OrderStages(g, s, max)
  <2>1. \A i \in Nat, w \in V : <<i, w>> \in W => <<i + 1, F[<<i, w>>]>> \in W
    <3> SUFFICES ASSUME NEW i \in Nat, NEW w \in V, <<i, w>> \in W
                 PROVE  <<i + 1, F[<<i, w>>]>> \in W
      OBVIOUS
    <3>1. F[<<i, w>>] = OneOrder(i + 1, w) /\ Leads(s, w) /\ Untried(i, w)
      BY <1>3, <1>4
    <3>2. /\ OneOrder(i + 1, w) \in V /\ Leads(s, OneOrder(i + 1, w)) /\ Untried(i + 1, OneOrder(i + 1, w))
          /\ i + 1 \in Nat
      BY <1>1, <3>1 DEF V
    <3>3. <<i + 1, OneOrder(i + 1, w)>> \in W
      BY <1>3, <3>2
    <3> QED BY <3>1, <3>3
  <2>2. PICK g : /\ g \in [0 .. max -> V] /\ g[0] = s
                 /\ \A i \in 1 .. max : <<i - 1, g[i - 1]>> \in W /\ g[i] = F[<<i - 1, g[i - 1]>>]
    <3>1. LoopOver(V, W, F)
      BY <1>4, <1>5, <2>1 DEF LoopOver
    <3>2. PICK g : Stages(g, V, W, F, s, max)
      BY <1>5, <3>1, StagesExist
    <3> QED BY <3>2 DEF Stages
  <2>3. ASSUME NEW i \in 0 .. max PROVE g[i] = IF i = 0 THEN s ELSE OneOrder(i, g[i - 1])
    <3>1. CASE i = 0
      BY <2>2, <3>1
    <3>2. CASE i # 0
      <4>1. i \in 1 .. max /\ i - 1 \in 0 .. max /\ i - 1 \in Nat /\ (i - 1) + 1 = i
        BY <3>2
      <4>2. g[i - 1] \in V /\ <<i - 1, g[i - 1]>> \in W /\ g[i] = F[<<i - 1, g[i - 1]>>]
        BY <2>2, <4>1
      <4>3. F[<<i - 1, g[i - 1]>>] = OneOrder(i, g[i - 1])
        BY <1>4, <4>1, <4>2
      <4> QED BY <3>2, <4>2, <4>3
    <3> QED BY <3>1, <3>2
  <2>4. g = [i \in 0 .. max |-> IF i = 0 THEN s ELSE OneOrder(i, g[i - 1])]
    BY <2>2, <2>3
  <2>5. OrderStages(g, s, max)
    BY <2>4 DEF OrderStages, OneOrder
  <2> QED BY <2>5
<1> DEFINE g == CHOOSE g : OrderStages(g, s, max)
<1>7. OrderStages(g, s, max)
  BY <1>6
<1>8. FillOrders(s, max) = g[max]
  BY DEF FillOrders, OrderStages, OpenAt
<1> HIDE DEF g
<1>9. g = [i \in 0 .. max |-> IF i = 0 THEN s ELSE OneOrder(i, g[i - 1])]
  BY <1>7 DEF OrderStages, OneOrder
<1>10. \A i \in 0 .. max : g[i] = IF i = 0 THEN s ELSE OneOrder(i, g[i - 1])
  BY <1>9
<1> DEFINE T == {i \in Nat : i <= max => g[i] \in V /\ Leads(s, g[i]) /\ Untried(i, g[i])}
<1>11. 0 \in T
  <2>1. g[0] = s
    BY <1>10
  <2> QED BY <1>0, <1>2, <2>1 DEF V
<1>12. ASSUME NEW i \in Nat, i \in T PROVE i + 1 \in T
  <2> SUFFICES ASSUME i + 1 <= max PROVE g[i + 1] \in V /\ Leads(s, g[i + 1]) /\ Untried(i + 1, g[i + 1])
    OBVIOUS
  <2>1. i + 1 \in 0 .. max /\ i + 1 # 0 /\ (i + 1) - 1 = i /\ g[i] \in V /\ Leads(s, g[i]) /\ Untried(i, g[i])
    BY <1>12
  <2>2. g[i + 1] = OneOrder(i + 1, g[i])
    BY <1>10, <2>1
  <2> QED BY <1>1, <2>1, <2>2
<1>13. max \in T
  <2> HIDE DEF T
  <2> QED BY <1>11, <1>12, NumberInduction
<1>14. Leads(s, g[max])
  BY <1>13
<1> QED BY <1>8, <1>14

(* runrex, the work for others: the books are kept, and the proceeds of
   auctions are in the pool. *)
LEMMA RunRex ==
  ASSUME now \in Int, NEW s, Books(s, now), s.pool # None, NEW max \in Nat
  PROVE  Leads(s, runrex(s, max)) /\ runrex(s, max).pool.proceeds = 0
<1> DEFINE s1 == Channelled(s)
           s2 == ProcessLoans(s1, "cpu", max)
           s3 == ProcessLoans(s2, "net", max)
           s4 == FillOrders(s3, max)
<1>1. Leads(s, s1) /\ s1.pool.proceeds = 0
  BY ProceedsChannelled
<1> HIDE DEF s1
<1>2. Books(s1, now) /\ s1.pool # None /\ s1 \in TableSet
  BY <1>1 DEF Leads, Moves, Books
<1>3. Leads(s1, s2)
  BY <1>2, LoansProcessed, KindsAre
<1> HIDE DEF s2
<1>4. Books(s2, now) /\ s2.pool # None /\ s2.pool.proceeds = 0 /\ s2 \in TableSet
  BY <1>1, <1>3 DEF Leads, Moves, PoolMoves, Books
<1>5. Leads(s2, s3)
  BY <1>4, LoansProcessed, KindsAre
<1> HIDE DEF s3
<1>6. Books(s3, now) /\ s3.pool # None /\ s3.pool.proceeds = 0 /\ s3 \in TableSet
  BY <1>4, <1>5 DEF Leads, Moves, PoolMoves, Books
<1>7. Leads(s3, s4)
  BY <1>6, OrdersFilled
<1>8. s4 = runrex(s, max)
  BY DEF runrex, s1, s2, s3
<1> HIDE DEF s4
<1>9. Books(s4, now) /\ s4.pool.proceeds = 0 /\ s4 \in TableSet /\ s \in TableSet
  BY <1>6, <1>7 DEF Leads, Moves, PoolMoves, Books
<1>10. Moves(s, s2)
  BY <1>1, <1>2, <1>3, <1>4, <1>9, MovesTrans DEF Leads
<1>11. Moves(s2, s4)
  BY <1>4, <1>5, <1>6, <1>7, <1>9, MovesTrans DEF Leads
<1>12. Moves(s, s4)
  BY <1>4, <1>9, <1>10, <1>11, MovesTrans
<1> QED BY <1>8, <1>9, <1>12 DEF Leads

-----------------------------------------------------------------------------
(* Rows of the rexbal table *)

(* There are finitely many times of buckets. *)
LEMMA MaturitiesFinite ==
  /\ IsFiniteSet(Maturities) /\ Maturities \subseteq Nat
  /\ \A t : After(t) \in SUBSET Maturities /\ IsFiniteSet(After(t))
<1>1. IsFiniteSet(Maturities) /\ Maturities \subseteq Nat
  BY BalanceAssumption, FS_Interval DEF Maturities
<1> QED BY <1>1, FS_Subset DEF After

(* Sums of the same amounts *)
LEMMA SameAfter ==
  ASSUME NEW f \in [Maturities -> Nat], NEW g \in [Maturities -> Nat], NEW t, \A m \in After(t) : f[m] = g[m]
  PROVE  SumFunctionOnSet(f, After(t)) = SumFunctionOnSet(g, After(t))
<1> DEFINE S == After(t)
<1>1. S \in SUBSET Maturities /\ S \subseteq Maturities /\ IsFiniteSet(S) /\ \A m \in S : f[m] = g[m]
  BY MaturitiesFinite
<1>2. f \in [Maturities -> Int] /\ g \in [Maturities -> Int]
  OBVIOUS
<1> HIDE DEF S
<1>3. SumFunctionOnSet(f, S) = SumFunctionOnSet(g, S)
  BY <1>1, <1>2, SumSame
<1> QED BY <1>3 DEF S

(* Sums over the buckets after some time *)
LEMMA AfterSums ==
  ASSUME NEW f \in [Maturities -> Nat], NEW t \in Int
  PROVE  /\ SumFunctionOnSet(f, After(t)) \in Nat /\ SumFunctionOnSet(f, Maturities) \in Nat
         /\ SumFunctionOnSet(f, After(t)) <= SumFunctionOnSet(f, Maturities)
         /\ SumFunctionOnSet(f, Maturities) =
              SumFunctionOnSet(f, {m \in Maturities : m <= t}) + SumFunctionOnSet(f, After(t))
         /\ SumFunctionOnSet(f, {m \in Maturities : m <= t}) \in Nat
<1> DEFINE E == {m \in Maturities : m <= t}
<1>1. f \in [Maturities -> Int] /\ \A m \in Maturities : f[m] >= 0
  OBVIOUS
<1>2. E \in SUBSET Maturities /\ IsFiniteSet(E) /\ E \cap After(t) = {} /\ E \cup After(t) = Maturities
  <2>1. E \in SUBSET Maturities
    OBVIOUS
  <2>2. IsFiniteSet(E)
    BY <2>1, MaturitiesFinite, FS_Subset
  <2>3. \A m \in Maturities : m \in Nat
    BY MaturitiesFinite
  <2>4. E \cap After(t) = {} /\ E \cup After(t) = Maturities
    BY <2>3 DEF After
  <2> QED BY <2>1, <2>2, <2>4
<1>6. After(t) \in SUBSET Maturities /\ IsFiniteSet(After(t))
  BY MaturitiesFinite
<1> HIDE DEF E
<1>3. /\ SumFunctionOnSet(f, E) \in Nat /\ SumFunctionOnSet(f, After(t)) \in Nat
      /\ SumFunctionOnSet(f, Maturities) \in Nat
  BY <1>1, <1>2, MaturitiesFinite, SumNat
<1>4. SumFunctionOnSet(f, E \cup After(t)) = SumFunctionOnSet(f, E) + SumFunctionOnSet(f, After(t))
  BY <1>1, <1>2, <1>6, SumUnion
<1>5. SumFunctionOnSet(f, Maturities) = SumFunctionOnSet(f, E) + SumFunctionOnSet(f, After(t))
  BY <1>2, <1>4, Zenon
<1> QED BY <1>3, <1>5 DEF E

(* REX bought now can be sold later, within the bound on time. *)
LEMMA MaturityIs ==
  ASSUME NEW n \in Times
  PROVE  get_rex_maturity(n) \in Maturities /\ get_rex_maturity(n) > n
<1>1. n \in Nat /\ n <= MaxTime /\ MaxTime \in Nat /\ SecondsPerDay \in Nat \ {0} /\ NumBuckets \in Nat \ {0}
      /\ LastMaturity \in Nat /\ LastMaturity >= MaxTime + NumBuckets * SecondsPerDay
  BY TimeAssumption, BalanceAssumption, RexAssumption DEF Times
<1> DEFINE r == n % SecondsPerDay
           d == NumBuckets * SecondsPerDay
<1>2. r \in 0 .. SecondsPerDay - 1 /\ r <= n
  <2>1. n \div SecondsPerDay \in Nat
    BY <1>1, DivNat
  <2>2. r \in 0 .. SecondsPerDay - 1 /\ r = n - SecondsPerDay * (n \div SecondsPerDay)
    BY <1>1, ModDiv
  <2>3. SecondsPerDay * (n \div SecondsPerDay) \in Nat
    BY <1>1, <2>1
  <2> QED BY <1>1, <2>2, <2>3
<1>3. d \in Nat /\ d >= SecondsPerDay
  <2>1. 1 * SecondsPerDay <= d
    BY <1>1, Times_
  <2>2. d \in Nat
    BY <1>1
  <2> QED BY <1>1, <2>1, <2>2
<1>4. get_rex_maturity(n) = n - r + d
  BY DEF get_rex_maturity
<1> HIDE DEF r, d
<1>5. n - r + d \in Nat /\ n - r + d > n /\ n - r + d <= n + d
  BY <1>1, <1>2, <1>3
<1>6. LastMaturity >= MaxTime + d
  BY <1>1 DEF d
<1> QED BY <1>1, <1>3, <1>4, <1>5, <1>6 DEF Maturities

(* REX bought later matures no sooner. *)
LEMMA MaturityGrows ==
  ASSUME NEW n \in Times, NEW m \in Times, n <= m
  PROVE  get_rex_maturity(n) <= get_rex_maturity(m)
<1>1. n \in Nat /\ m \in Nat /\ SecondsPerDay \in Nat \ {0} /\ NumBuckets \in Nat \ {0}
  BY TimeAssumption, BalanceAssumption DEF Times
<1> DEFINE i == n \div SecondsPerDay
           j == m \div SecondsPerDay
           d == NumBuckets * SecondsPerDay
<1>2. i \in Nat /\ j \in Nat /\ i * SecondsPerDay <= n /\ m < j * SecondsPerDay + SecondsPerDay
  BY <1>1, DivBounds, DivNat
<1>3. n % SecondsPerDay = n - SecondsPerDay * i /\ m % SecondsPerDay = m - SecondsPerDay * j
  <2>1. n % SecondsPerDay = n - SecondsPerDay * (n \div SecondsPerDay)
    BY <1>1, ModDiv
  <2>2. m % SecondsPerDay = m - SecondsPerDay * (m \div SecondsPerDay)
    BY <1>1, ModDiv
  <2> QED BY <2>1, <2>2
<1>4. d \in Nat
  BY <1>1
<1> HIDE DEF i, j, d
<1>5. i <= j
  <2>1. i * SecondsPerDay < (j + 1) * SecondsPerDay
    <3>1. (j + 1) * SecondsPerDay = j * SecondsPerDay + SecondsPerDay /\ j * SecondsPerDay \in Int /\ i * SecondsPerDay \in Int
      BY <1>1, <1>2
    <3> QED BY <1>1, <1>2, <3>1
  <2>2. i < j + 1
    BY <1>1, <1>2, <2>1, Times_
  <2> QED BY <1>2, <2>2
<1>6. i * SecondsPerDay <= j * SecondsPerDay
  BY <1>1, <1>2, <1>5, Times_
<1>7. SecondsPerDay * i = i * SecondsPerDay /\ SecondsPerDay * j = j * SecondsPerDay /\ i * SecondsPerDay \in Int /\ j * SecondsPerDay \in Int
  BY <1>1, <1>2
<1>8. get_rex_maturity(n) = n - (n % SecondsPerDay) + d /\ get_rex_maturity(m) = m - (m % SecondsPerDay) + d
  BY DEF get_rex_maturity, d
<1>9. n - (n % SecondsPerDay) = i * SecondsPerDay /\ m - (m % SecondsPerDay) = j * SecondsPerDay
  BY <1>1, <1>3, <1>7
<1> QED BY <1>4, <1>6, <1>7, <1>8, <1>9

(* The fields of a row *)
LEMMA RowFields ==
  ASSUME NEW b \in Balances
  PROVE  /\ b.vote_stake \in Int /\ b.rex \in Nat /\ b.matured \in Nat /\ b.buckets \in [Maturities -> Nat]
         /\ b.savings \in Nat /\ b # None
         /\ b = [vote_stake |-> b.vote_stake, rex |-> b.rex, matured |-> b.matured, buckets |-> b.buckets,
                 savings |-> b.savings]
BY NoRowAssumption DEF Balances

(* What changes in a row when its owner neither buys nor sells: all but
   selling, the REX in an open order, may be moved. *)
Rearranged(b, c, selling) ==
  /\ c \in Balances /\ c.rex = b.rex /\ c.vote_stake = b.vote_stake
  /\ RowOK(b) => RowOK(c)
  /\ b.matured >= selling => c.matured >= selling

(* process_rex_maturities: what has matured leaves its bucket. *)
LEMMA RowMatures ==
  ASSUME NEW b \in Balances, NEW n \in Times, NEW u \in [Maturities -> Nat], NEW x \in Nat
  PROVE  LET c == process_rex_maturities(b, n)
         IN  /\ Rearranged(b, c, x) /\ c.savings = b.savings /\ c.matured >= b.matured
             /\ RipensIn(b, u, n) => RipensIn(c, u, n)
<1> DEFINE c == process_rex_maturities(b, n)
           E == {m \in Maturities : m <= n}
           ripe == SumFunctionOnSet(b.buckets, E)
           ma == b.matured + ripe
           bu == [m \in Maturities |-> IF m <= n THEN 0 ELSE b.buckets[m]]
<1>0. n \in Int
  BY TimeAssumption DEF Times
<1>1. b.matured \in Nat /\ b.buckets \in [Maturities -> Nat] /\ b.rex \in Nat /\ b.savings \in Nat /\ b # None
  BY RowFields
<1>2. ripe \in Nat /\ SumFunctionOnSet(b.buckets, Maturities) = ripe + SumFunctionOnSet(b.buckets, After(n))
      /\ SumFunctionOnSet(b.buckets, After(n)) \in Nat
  BY <1>0, <1>1, AfterSums
<1>3. bu \in [Maturities -> Nat] /\ \A m \in Maturities : bu[m] = IF m <= n THEN 0 ELSE b.buckets[m]
  BY <1>1
<1>4. c = [b EXCEPT !.matured = ma, !.buckets = bu]
  BY DEF process_rex_maturities
<1> HIDE DEF ripe, ma, bu, c
<1>5. c = [vote_stake |-> b.vote_stake, rex |-> b.rex, matured |-> ma, buckets |-> bu, savings |-> b.savings]
  BY <1>4 DEF Balances
<1>6. c \in Balances /\ c # None /\ ma >= b.matured
  <2>1. ma \in Nat /\ ma >= b.matured
    BY <1>1, <1>2 DEF ma
  <2> QED BY <1>3, <1>5, <2>1, RowFields DEF Balances
<1>7. \A t \in Maturities : t >= n => SumFunctionOnSet(bu, After(t)) = SumFunctionOnSet(b.buckets, After(t))
  <2> SUFFICES ASSUME NEW t \in Maturities, t >= n
               PROVE  SumFunctionOnSet(bu, After(t)) = SumFunctionOnSet(b.buckets, After(t))
    OBVIOUS
  <2>1. \A m \in After(t) : bu[m] = b.buckets[m]
    BY <1>0, <1>3, MaturitiesFinite DEF After
  <2> QED BY <1>1, <1>3, <2>1, SameAfter
<1>8. SumFunctionOnSet(bu, Maturities) = SumFunctionOnSet(b.buckets, After(n))
  <2>1. bu \in [Maturities -> Int] /\ b.buckets \in [Maturities -> Int]
    BY <1>1, <1>3
  <2>2. \A m \in After(n) : bu[m] = b.buckets[m]
    BY <1>0, <1>3, MaturitiesFinite DEF After
  <2>3. \A m \in Maturities \ After(n) : bu[m] = 0
    BY <1>0, <1>3, MaturitiesFinite DEF After
  <2>4. SumFunctionOnSet(bu, Maturities) = SumFunctionOnSet(bu, After(n))
    BY <2>1, <2>3, MaturitiesFinite, SumZeros
  <2>6. SumFunctionOnSet(bu, After(n)) = SumFunctionOnSet(b.buckets, After(n))
    BY <1>1, <1>3, <2>2, SameAfter
  <2> QED BY <2>4, <2>6
<1>9. RowOK(b) => RowOK(c)
  BY <1>1, <1>2, <1>5, <1>8 DEF RowOK, ma
<1>10. RipensIn(b, u, n) => RipensIn(c, u, n)
  BY <1>1, <1>5, <1>6, <1>7 DEF RipensIn, SavingsIn, BucketsIn
<1>11. b.matured >= x => c.matured >= x
  BY <1>1, <1>2, <1>5 DEF ma
<1> QED BY <1>5, <1>6, <1>9, <1>10, <1>11 DEF Rearranged, c

(* InBucket: x more in the bucket of now. *)
LEMMA BucketFilled ==
  ASSUME NEW b \in Balances, NEW n \in Times, NEW x \in Nat
  PROVE  LET c == InBucket(b, n, x)
         IN  /\ c \in Balances /\ c.rex = b.rex /\ c.vote_stake = b.vote_stake /\ c.matured = b.matured
             /\ c.savings = b.savings
             /\ SumFunctionOnSet(c.buckets, Maturities) = SumFunctionOnSet(b.buckets, Maturities) + x
             /\ \A t \in Maturities : SumFunctionOnSet(c.buckets, After(t)) =
                  SumFunctionOnSet(b.buckets, After(t)) + IF get_rex_maturity(n) > t THEN x ELSE 0
<1> DEFINE c == InBucket(b, n, x)
           M == get_rex_maturity(n)
           bu == [b.buckets EXCEPT ![M] = @ + x]
<1>1. M \in Maturities
  BY MaturityIs
<1>2. b.buckets \in [Maturities -> Nat]
  BY RowFields
<1> HIDE DEF M
<1>3. bu \in [Maturities -> Nat] /\ bu[M] = b.buckets[M] + x /\ \A m \in Maturities \ {M} : bu[m] = b.buckets[m]
  BY <1>1, <1>2
<1>4. c = [b EXCEPT !.buckets = bu]
  BY DEF InBucket, M, Balances
<1> HIDE DEF c, bu
<1>5. c = [vote_stake |-> b.vote_stake, rex |-> b.rex, matured |-> b.matured, buckets |-> bu, savings |-> b.savings]
  BY <1>4 DEF Balances
<1>6. c \in Balances
  BY <1>3, <1>5, RowFields DEF Balances
<1>7. b.buckets \in [Maturities -> Int] /\ bu \in [Maturities -> Int] /\ b.buckets[M] \in Nat
  BY <1>1, <1>2, <1>3
<1>8. \A A \in SUBSET Maturities : IsFiniteSet(A) /\ M \in A =>
        SumFunctionOnSet(bu, A) = SumFunctionOnSet(b.buckets, A) + x
  <2> SUFFICES ASSUME NEW A \in SUBSET Maturities, IsFiniteSet(A), M \in A
               PROVE  SumFunctionOnSet(bu, A) = SumFunctionOnSet(b.buckets, A) + x
    OBVIOUS
  <2>1. SumFunctionOnSet(bu, A) = SumFunctionOnSet(b.buckets, A) - b.buckets[M] + bu[M]
    BY <1>3, <1>7, SumDiffer
  <2>2. SumFunctionOnSet(b.buckets, A) \in Int
    BY <1>7, SumType
  <2> QED BY <1>3, <1>7, <2>1, <2>2
<1>9. ASSUME NEW t \in Maturities
      PROVE  SumFunctionOnSet(bu, After(t)) = SumFunctionOnSet(b.buckets, After(t)) + IF M > t THEN x ELSE 0
  <2>0. After(t) \in SUBSET Maturities /\ IsFiniteSet(After(t)) /\ SumFunctionOnSet(b.buckets, After(t)) \in Int
    BY <1>7, MaturitiesFinite, SumType
  <2>1. CASE M > t
    <3>1. M \in After(t)
      BY <1>1, <2>1 DEF After
    <3> QED BY <1>8, <2>0, <2>1, <3>1
  <2>2. CASE ~(M > t)
    <3>1. \A m \in After(t) : bu[m] = b.buckets[m]
      BY <1>3, <2>2 DEF After
    <3>2. SumFunctionOnSet(bu, After(t)) = SumFunctionOnSet(b.buckets, After(t))
      BY <1>7, <2>0, <3>1, SumSame
    <3> QED BY <2>0, <2>2, <3>2
  <2> QED BY <2>1, <2>2
<1>10. SumFunctionOnSet(bu, Maturities) = SumFunctionOnSet(b.buckets, Maturities) + x
  BY <1>1, <1>8, MaturitiesFinite
<1> QED BY <1>5, <1>6, <1>9, <1>10 DEF c, M

(* Nothing ripens after the maturity of now. *)
LEMMA NothingLater ==
  ASSUME NEW n \in Times, NEW u \in [Maturities -> Nat], \A m \in Maturities : m > get_rex_maturity(n) => u[m] = 0,
         NEW t \in Maturities, t >= get_rex_maturity(n)
  PROVE  SumFunctionOnSet(u, After(t)) = 0
<1>1. get_rex_maturity(n) \in Nat /\ t \in Nat
  BY MaturityIs, MaturitiesFinite
<1>2. \A m \in After(t) : u[m] = 0
  BY <1>1, MaturitiesFinite DEF After
<1>3. u \in [Maturities -> Int]
  OBVIOUS
<1> QED BY <1>2, <1>3, MaturitiesFinite, SumOfZeros

(* consolidate_rex_balance: all but the REX on offer matures anew. *)
LEMMA RowConsolidated ==
  ASSUME NEW b \in Balances, NEW n \in Times, NEW u \in [Maturities -> Nat], NEW x \in Nat, x <= b.matured
  PROVE  LET c == consolidate_rex_balance(b, n, x)
         IN  Rearranged(b, c, x) /\ (RipensIn(b, u, n) => RipensIn(c, u, n))
<1> DEFINE c == consolidate_rex_balance(b, n, x)
           M == get_rex_maturity(n)
           all == SumFunctionOnSet(b.buckets, Maturities)
           total == b.matured - x + all
           bu == [m \in Maturities |-> IF m = M THEN total ELSE 0]
<1>0. /\ b.matured \in Nat /\ b.buckets \in [Maturities -> Nat] /\ b.rex \in Nat /\ b.savings \in Nat /\ b # None
      /\ M \in Maturities /\ M \in Nat
  BY RowFields, MaturityIs, MaturitiesFinite
<1>1. all \in Nat /\ total \in Nat /\ \A t \in Maturities : SumFunctionOnSet(b.buckets, After(t)) <= all
                                                          /\ SumFunctionOnSet(b.buckets, After(t)) \in Nat
  <2>1. \A t \in Maturities : t \in Int
    BY MaturitiesFinite
  <2>2. all \in Nat
    <3>1. M \in Int
      BY <1>0
    <3> QED BY <1>0, <3>1, AfterSums
  <2>3. ASSUME NEW t \in Maturities
        PROVE  SumFunctionOnSet(b.buckets, After(t)) <= all /\ SumFunctionOnSet(b.buckets, After(t)) \in Nat
    BY <1>0, <2>1, AfterSums
  <2> HIDE DEF all
  <2> QED BY <1>0, <2>2, <2>3
<1>2. bu \in [Maturities -> Nat] /\ bu[M] = total /\ \A m \in Maturities \ {M} : bu[m] = 0
  BY <1>0, <1>1
<1>3. c = [b EXCEPT !.matured = x, !.buckets = bu]
  <2>1. DOMAIN b.buckets = Maturities
    BY <1>0
  <2> QED BY <2>1 DEF consolidate_rex_balance, SumFunction
<1> HIDE DEF c, bu, M
<1>4. c = [vote_stake |-> b.vote_stake, rex |-> b.rex, matured |-> x, buckets |-> bu, savings |-> b.savings]
  BY <1>3 DEF Balances
<1>5. c \in Balances /\ c # None
  BY <1>2, <1>4, RowFields DEF Balances
<1>6. \A A \in SUBSET Maturities : IsFiniteSet(A) =>
        SumFunctionOnSet(bu, A) = IF M \in A THEN total ELSE 0
  <2> SUFFICES ASSUME NEW A \in SUBSET Maturities, IsFiniteSet(A)
               PROVE  SumFunctionOnSet(bu, A) = IF M \in A THEN total ELSE 0
    OBVIOUS
  <2>1. bu \in [Maturities -> Int]
    BY <1>2
  <2>2. CASE M \in A
    <3>1. SumFunctionOnSet(bu, A) = bu[M] + SumFunctionOnSet(bu, A \ {M})
      BY <2>1, <2>2, SumRemove
    <3>2. A \ {M} \in SUBSET Maturities /\ IsFiniteSet(A \ {M}) /\ \A m \in A \ {M} : bu[m] = 0
      BY <1>2, FS_Subset
    <3>3. SumFunctionOnSet(bu, A \ {M}) = 0
      BY <2>1, <3>2, SumOfZeros
    <3> QED BY <1>1, <1>2, <2>2, <3>1, <3>3
  <2>3. CASE M \notin A
    <3>1. \A m \in A : bu[m] = 0
      BY <1>2, <2>3
    <3> QED BY <2>1, <2>3, <3>1, SumOfZeros
  <2> QED BY <2>2, <2>3
<1>7. RowOK(b) => RowOK(c)
  <2>1. SumFunctionOnSet(bu, Maturities) = total
    BY <1>0, <1>6, MaturitiesFinite
  <2>2. x + total = b.matured + all
    BY <1>0, <1>1
  <2> HIDE DEF all, total
  <2> QED BY <1>0, <1>4, <2>1, <2>2 DEF RowOK, all
<1>8. ASSUME RipensIn(b, u, n) PROVE RipensIn(c, u, n)
  <2>1. ASSUME NEW t \in Maturities, t >= n
        PROVE  SumFunctionOnSet(u, After(t)) <= b.savings + SumFunctionOnSet(bu, After(t))
    <3>1. SumFunctionOnSet(u, After(t)) <= b.savings + SumFunctionOnSet(b.buckets, After(t))
      BY <1>0, <1>8, <2>1 DEF RipensIn, SavingsIn, BucketsIn
    <3>2. /\ SumFunctionOnSet(b.buckets, After(t)) <= total /\ SumFunctionOnSet(b.buckets, After(t)) \in Nat
      BY <1>0, <1>1
    <3>3. SumFunctionOnSet(u, After(t)) \in Nat /\ t \in Nat
      <4>1. t \in Nat /\ t \in Int
        BY MaturitiesFinite
      <4> QED BY <4>1, AfterSums
    <3>4. CASE M > t
      <4>1. SumFunctionOnSet(bu, After(t)) = total
        BY <1>0, <1>6, <3>4, MaturitiesFinite DEF After
      <4> QED BY <1>0, <1>1, <3>1, <3>2, <3>3, <4>1
    <3>5. CASE ~(M > t)
      <4>1. SumFunctionOnSet(bu, After(t)) = 0
        BY <1>6, <3>5, MaturitiesFinite DEF After
      <4>2. SumFunctionOnSet(u, After(t)) = 0
        BY <1>0, <1>8, <3>3, <3>5, NothingLater DEF RipensIn, M
      <4> QED BY <1>0, <4>1, <4>2
    <3> QED BY <3>4, <3>5
  <2> QED BY <1>4, <1>5, <1>8, <2>1 DEF RipensIn, SavingsIn, BucketsIn
<1> QED BY <1>0, <1>4, <1>5, <1>7, <1>8 DEF Rearranged, c

(* What TakenFromBack takes: x as far as the buckets go, from the back. *)
LEMMA TakenIs ==
  ASSUME NEW b \in Balances, NEW x \in Nat
  PROVE  LET taken == TakenFromBack(b, x)
             all == SumFunctionOnSet(b.buckets, Maturities)
         IN  /\ taken \in [Maturities -> Nat] /\ \A m \in Maturities : taken[m] <= b.buckets[m]
             /\ SumFunctionOnSet(taken, Maturities) = IF x <= all THEN x ELSE all
<1> DEFINE taken == TakenFromBack(b, x)
           B(t) == SumFunctionOnSet(b.buckets, After(t))
           T(t) == SumFunctionOnSet(taken, After(t))
<1>0. b.buckets \in [Maturities -> Nat] /\ LastMaturity \in Nat /\ \A m \in Maturities : m \in Nat /\ m <= LastMaturity
  BY RowFields, BalanceAssumption DEF Maturities
<1>1. \A t \in Int : B(t) \in Nat
  BY <1>0, AfterSums
<1>2. taken = [m \in Maturities |-> IF x <= B(m) THEN 0 ELSE IF x - B(m) < b.buckets[m] THEN x - B(m) ELSE b.buckets[m]]
  BY DEF TakenFromBack, After
<1> HIDE DEF B, taken
<1>3. taken \in [Maturities -> Nat] /\ \A m \in Maturities : taken[m] <= b.buckets[m]
  BY <1>0, <1>1, <1>2
<1>4. ASSUME NEW m \in Maturities
      PROVE  B(m - 1) = B(m) + b.buckets[m] /\ T(m - 1) = T(m) + taken[m]
  <2>1. After(m - 1) = After(m) \cup {m} /\ m \notin After(m)
    BY <1>0 DEF After
  <2>2. b.buckets \in [Maturities -> Int] /\ taken \in [Maturities -> Int]
    BY <1>0, <1>3
  <2>3. /\ SumFunctionOnSet(b.buckets, After(m) \cup {m}) = B(m) + b.buckets[m]
        /\ SumFunctionOnSet(taken, After(m) \cup {m}) = T(m) + taken[m]
    <3>1. After(m) \in SUBSET Maturities /\ IsFiniteSet(After(m)) /\ m \in Maturities
      BY MaturitiesFinite
    <3>2. SumFunctionOnSet(b.buckets, After(m) \cup {m}) = SumFunctionOnSet(b.buckets, After(m)) + b.buckets[m]
      BY <2>1, <2>2, <3>1, SumInsert
    <3>3. SumFunctionOnSet(taken, After(m) \cup {m}) = SumFunctionOnSet(taken, After(m)) + taken[m]
      BY <2>1, <2>2, <3>1, SumInsert
    <3> QED BY <3>2, <3>3 DEF B
  <2> QED BY <2>1, <2>3, Zenon DEF B
<1> DEFINE Taken(t) == T(t) = IF x <= B(t) THEN x ELSE B(t)
           I == {i \in Nat : i <= LastMaturity + 1 => Taken(LastMaturity - i)}
<1>5. 0 \in I
  <2>1. After(LastMaturity) = {}
    BY <1>0 DEF After
  <2>2. b.buckets \in [Maturities -> Int] /\ taken \in [Maturities -> Int]
    BY <1>0, <1>3
  <2>3. SumFunctionOnSet(b.buckets, {}) = 0 /\ SumFunctionOnSet(taken, {}) = 0
    BY <2>2, SumEmpty
  <2>4. B(LastMaturity) = 0 /\ T(LastMaturity) = 0
    BY <2>1, <2>3, Zenon DEF B
  <2>5. Taken(LastMaturity) /\ LastMaturity - 0 = LastMaturity
    BY <1>0, <2>4
  <2> QED BY <2>5
<1>6. ASSUME NEW i \in Nat, i \in I PROVE i + 1 \in I
  <2> DEFINE m == LastMaturity - i
  <2> SUFFICES ASSUME i + 1 <= LastMaturity + 1 PROVE Taken(LastMaturity - (i + 1))
    OBVIOUS
  <2>1. m \in Maturities /\ LastMaturity - (i + 1) = m - 1 /\ Taken(m) /\ m \in Int
    BY <1>0, <1>6 DEF Maturities
  <2> HIDE DEF m
  <2>2. B(m - 1) = B(m) + b.buckets[m] /\ T(m - 1) = T(m) + taken[m] /\ B(m) \in Nat /\ b.buckets[m] \in Nat
    BY <1>0, <1>1, <1>4, <2>1
  <2>3. taken[m] = IF x <= B(m) THEN 0 ELSE IF x - B(m) < b.buckets[m] THEN x - B(m) ELSE b.buckets[m]
    BY <1>2, <2>1
  <2>4. T(m) = IF x <= B(m) THEN x ELSE B(m)
    BY <2>1
  <2>5. T(m - 1) = IF x <= B(m - 1) THEN x ELSE B(m - 1)
    <3> HIDE DEF T
    <3> QED BY <2>2, <2>3, <2>4
  <2> QED BY <2>1, <2>5
<1>7. LastMaturity + 1 \in I
  <2>1. LastMaturity + 1 \in Nat
    BY <1>0
  <2> HIDE DEF I
  <2> QED BY <1>5, <1>6, <2>1, NumberInduction
<1>8. Taken(-1)
  <2>1. LastMaturity - (LastMaturity + 1) = -1 /\ LastMaturity + 1 <= LastMaturity + 1
    BY <1>0
  <2> QED BY <1>7, <2>1
<1>9. After(-1) = Maturities
  BY <1>0 DEF After
<1>10. T(-1) = SumFunctionOnSet(taken, Maturities) /\ B(-1) = SumFunctionOnSet(b.buckets, Maturities)
  BY <1>9, Zenon DEF B
<1> QED BY <1>3, <1>8, <1>10 DEF taken

(* mvtosavings: what goes to savings comes from the buckets first. *)
LEMMA RowSaved ==
  ASSUME NEW b \in Balances, RowOK(b), NEW n \in Times, NEW u \in [Maturities -> Nat], NEW x \in Nat,
         NEW y \in Nat, x + y + b.savings <= b.rex
  PROVE  LET c == MovedToSavings(b, x)
         IN  Rearranged(b, c, y) /\ (RipensIn(b, u, n) => RipensIn(c, u, n))
<1> DEFINE c == MovedToSavings(b, x)
           taken == TakenFromBack(b, x)
           all == SumFunctionOnSet(b.buckets, Maturities)
           took == SumFunctionOnSet(taken, Maturities)
           bu == [m \in Maturities |-> b.buckets[m] - taken[m]]
           ma == b.matured - (x - took)
           sa == b.savings + x
<1>0. /\ b.matured \in Nat /\ b.buckets \in [Maturities -> Nat] /\ b.rex \in Nat /\ b.savings \in Nat /\ b # None
  BY RowFields
<1>1. /\ taken \in [Maturities -> Nat] /\ \A m \in Maturities : taken[m] <= b.buckets[m]
      /\ took = IF x <= all THEN x ELSE all
  BY TakenIs
<1>2. all \in Nat /\ b.rex = b.matured + all + b.savings
  <2>1. 0 \in Int
    OBVIOUS
  <2> QED BY <1>0, <2>1, AfterSums DEF RowOK
<1>3. c = [b EXCEPT !.buckets = bu, !.matured = ma, !.savings = sa]
  <2>1. DOMAIN taken = Maturities
    BY <1>1
  <2> QED BY <2>1 DEF MovedToSavings, SumFunction
<1> HIDE DEF taken, took, all
<1>4. ma \in Nat /\ (b.matured >= y => ma >= y) /\ sa \in Nat /\ took \in Nat /\ took <= x
  <2>1. took = IF x <= all THEN x ELSE all
    BY <1>1
  <2>2. x + y <= b.matured + all
    BY <1>0, <1>2
  <2>3. CASE x <= all
    <3>1. took = x
      BY <2>1, <2>3
    <3> QED BY <1>0, <1>2, <2>2, <3>1
  <2>4. CASE ~(x <= all)
    <3>1. took = all /\ took <= x
      BY <1>2, <2>1, <2>4
    <3> QED BY <1>0, <1>2, <2>2, <3>1
  <2> QED BY <2>3, <2>4
<1>5. bu \in [Maturities -> Nat] /\ \A m \in Maturities : bu[m] + taken[m] = b.buckets[m]
  BY <1>0, <1>1
<1> HIDE DEF c, bu
<1>6. c = [vote_stake |-> b.vote_stake, rex |-> b.rex, matured |-> ma, buckets |-> bu, savings |-> sa]
  <2> HIDE DEF ma, sa
  <2> QED BY <1>3 DEF Balances
<1>7. c \in Balances /\ c # None
  BY <1>4, <1>5, <1>6, RowFields DEF Balances
<1>8. ASSUME NEW A \in SUBSET Maturities, IsFiniteSet(A)
      PROVE  /\ SumFunctionOnSet(b.buckets, A) = SumFunctionOnSet(bu, A) + SumFunctionOnSet(taken, A)
             /\ SumFunctionOnSet(bu, A) \in Nat /\ SumFunctionOnSet(taken, A) \in Nat
  <2> DEFINE f == [m \in A |-> bu[m]]
             g == [m \in A |-> taken[m]]
             h == [m \in A |-> f[m] + g[m]]
  <2>1. f \in [A -> Int] /\ g \in [A -> Int] /\ \A m \in A : f[m] = bu[m] /\ g[m] = taken[m]
    BY <1>1, <1>5, <1>8
  <2>2. h \in [A -> Int] /\ \A m \in A : h[m] = b.buckets[m]
    BY <1>5, <1>8, <2>1
  <2> HIDE DEF f, g
  <2>3. SumFunctionOnSet(h, A) = SumFunctionOnSet(f, A) + SumFunctionOnSet(g, A)
    BY <1>8, <2>1, SumPlus
  <2> HIDE DEF h
  <2>4. b.buckets \in [Maturities -> Int] /\ bu \in [Maturities -> Int] /\ taken \in [Maturities -> Int]
    BY <1>0, <1>1, <1>5
  <2>5. SumFunctionOnSet(b.buckets, A) = SumFunctionOnSet(h, A)
    BY <1>8, <2>2, <2>4, SumSame
  <2>6. SumFunctionOnSet(bu, A) = SumFunctionOnSet(f, A)
    BY <1>8, <2>1, <2>4, SumSame
  <2>7. SumFunctionOnSet(taken, A) = SumFunctionOnSet(g, A)
    BY <1>8, <2>1, <2>4, SumSame
  <2>8. SumFunctionOnSet(bu, A) \in Nat /\ SumFunctionOnSet(taken, A) \in Nat
    BY <1>1, <1>5, <1>8, <2>4, SumNat
  <2> QED BY <2>3, <2>5, <2>6, <2>7, <2>8
<1>9. RowOK(c)
  <2>1. all = SumFunctionOnSet(bu, Maturities) + took /\ SumFunctionOnSet(bu, Maturities) \in Nat
    BY <1>8, MaturitiesFinite DEF all, took
  <2> QED BY <1>0, <1>2, <1>4, <1>6, <2>1 DEF RowOK
<1>10. ASSUME RipensIn(b, u, n) PROVE RipensIn(c, u, n)
  <2>1. ASSUME NEW t \in Maturities, t >= n
        PROVE  SumFunctionOnSet(u, After(t)) <= sa + SumFunctionOnSet(bu, After(t))
    <3>1. SumFunctionOnSet(u, After(t)) <= b.savings + SumFunctionOnSet(b.buckets, After(t))
      BY <1>0, <1>10, <2>1 DEF RipensIn, SavingsIn, BucketsIn
    <3>2. /\ SumFunctionOnSet(b.buckets, After(t)) = SumFunctionOnSet(bu, After(t)) + SumFunctionOnSet(taken, After(t))
          /\ SumFunctionOnSet(bu, After(t)) \in Nat /\ SumFunctionOnSet(taken, After(t)) \in Nat
      BY <1>8, MaturitiesFinite
    <3>3. SumFunctionOnSet(u, After(t)) \in Nat /\ SumFunctionOnSet(taken, After(t)) <= took
      <4>1. t \in Int
        BY MaturitiesFinite
      <4> QED BY <1>1, <4>1, AfterSums DEF took
    <3> QED BY <1>0, <1>4, <3>1, <3>2, <3>3
  <2> QED BY <1>6, <1>7, <1>10, <2>1 DEF RipensIn, SavingsIn, BucketsIn
<1> QED BY <1>0, <1>4, <1>6, <1>7, <1>9, <1>10 DEF Rearranged, c

(* mvfrsavings: what leaves savings matures anew. *)
LEMMA RowUnsaved ==
  ASSUME NEW b \in Balances, NEW n \in Times, NEW u \in [Maturities -> Nat], NEW x \in Nat, x <= b.savings,
         NEW y \in Nat
  PROVE  LET c == MovedFromSavings(b, n, x)
         IN  Rearranged(b, c, y) /\ (RipensIn(b, u, n) => RipensIn(c, u, n))
<1> DEFINE c == MovedFromSavings(b, n, x)
           sa == b.savings - x
           d == [b EXCEPT !.savings = sa]
<1>0. /\ b.matured \in Nat /\ b.buckets \in [Maturities -> Nat] /\ b.rex \in Nat /\ b.savings \in Nat /\ b # None
  BY RowFields
<1>1. c = InBucket(d, n, x)
  BY DEF MovedFromSavings
<1>2. sa \in Nat
  BY <1>0
<1> HIDE DEF sa
<1>3. d \in Balances /\ d.rex = b.rex /\ d.vote_stake = b.vote_stake /\ d.matured = b.matured /\ d.buckets = b.buckets
      /\ d.savings = sa
  <2>1. d = [vote_stake |-> b.vote_stake, rex |-> b.rex, matured |-> b.matured, buckets |-> b.buckets, savings |-> sa]
    BY DEF Balances
  <2> HIDE DEF d
  <2>2. d \in Balances
    BY <1>0, <1>2, <2>1, RowFields DEF Balances
  <2> QED BY <2>1, <2>2
<1> HIDE DEF d, c
<1>4. /\ c \in Balances /\ c.rex = b.rex /\ c.vote_stake = b.vote_stake /\ c.matured = b.matured
      /\ c.savings = sa
      /\ SumFunctionOnSet(c.buckets, Maturities) = SumFunctionOnSet(b.buckets, Maturities) + x
      /\ \A t \in Maturities : SumFunctionOnSet(c.buckets, After(t)) =
           SumFunctionOnSet(b.buckets, After(t)) + IF get_rex_maturity(n) > t THEN x ELSE 0
  BY <1>1, <1>3, BucketFilled
<1>5. c # None
  BY <1>4, RowFields
<1>6. RowOK(b) => RowOK(c)
  <2>1. SumFunctionOnSet(b.buckets, Maturities) \in Nat
    <3>1. 0 \in Int
      OBVIOUS
    <3> QED BY <1>0, <3>1, AfterSums
  <2> QED BY <1>0, <1>2, <1>4, <2>1 DEF RowOK, sa
<1>7. ASSUME RipensIn(b, u, n) PROVE RipensIn(c, u, n)
  <2>1. ASSUME NEW t \in Maturities, t >= n
        PROVE  SumFunctionOnSet(u, After(t)) <= sa + SumFunctionOnSet(c.buckets, After(t))
    <3>1. SumFunctionOnSet(u, After(t)) <= b.savings + SumFunctionOnSet(b.buckets, After(t))
      BY <1>0, <1>7, <2>1 DEF RipensIn, SavingsIn, BucketsIn
    <3>2. t \in Nat /\ get_rex_maturity(n) \in Nat
      BY MaturitiesFinite, MaturityIs
    <3>3. SumFunctionOnSet(b.buckets, After(t)) \in Nat
      <4>1. t \in Int
        BY <3>2
      <4> QED BY <1>0, <4>1, AfterSums
    <3>4. CASE get_rex_maturity(n) > t
      <4>1. SumFunctionOnSet(c.buckets, After(t)) = SumFunctionOnSet(b.buckets, After(t)) + x
        BY <1>4, <3>4
      <4>2. sa + (SumFunctionOnSet(b.buckets, After(t)) + x) = b.savings + SumFunctionOnSet(b.buckets, After(t))
        BY <1>0, <3>3 DEF sa
      <4> QED BY <3>1, <4>1, <4>2
    <3>5. CASE ~(get_rex_maturity(n) > t)
      <4>1. SumFunctionOnSet(u, After(t)) = 0
        BY <1>7, <3>2, <3>5, NothingLater DEF RipensIn
      <4>2. SumFunctionOnSet(c.buckets, After(t)) = SumFunctionOnSet(b.buckets, After(t))
        BY <1>4, <3>3, <3>5
      <4> QED BY <1>2, <3>3, <4>1, <4>2
    <3> QED BY <3>4, <3>5
  <2> QED BY <1>4, <1>5, <1>7, <2>1 DEF RipensIn, SavingsIn, BucketsIn
<1> QED BY <1>0, <1>4, <1>6, <1>7 DEF Rearranged, c

-----------------------------------------------------------------------------
(* What actions are composed of *)

(* The proceeds of auctions in eosio.names that nobody waits for *)
Waiting(s) == s.held.names - IF s.pool = None THEN 0 ELSE s.pool.proceeds

(* From s to t REX gets no cheaper, and none appears out of nothing. *)
Price(s, t) ==
  TotalRex(t) > 0 =>
    TotalRex(s) > 0 /\ Cheaper(Lendable(s), TotalRex(s), Lendable(t), TotalRex(t))

(* What stays of an account *)
Same(s, t, b) ==
  /\ SavingsIn(t.bal[b]) = SavingsIn(s.bal[b]) /\ BucketsIn(t.bal[b]) = BucketsIn(s.bal[b])
  /\ StakeIn(t, b) = StakeIn(s, b)
  /\ NoIdleStake(s.bal[b]) => NoIdleStake(t.bal[b])

(* What has not matured in b has not matured in c. *)
Keeps(b, c) == \A u \in [Maturities -> Nat] : RipensIn(b, u, now) => RipensIn(c, u, now)

(* A part of an action of a, which changes by d what its REX counts for in its stake *)
Step(s, t, a, d) ==
  /\ Books(t, now) /\ Waiting(t) = Waiting(s) /\ Price(s, t)
  /\ \A k \in Kinds, c \in Accounts : Delegations(t, k, c) = Delegations(s, k, c)
  /\ \A b \in Users \ {a} : Same(s, t, b)
  /\ Keeps(s.bal[a], t.bal[a])
  /\ StakeIn(t, a) = StakeIn(s, a) + d
  /\ NoIdleStake(s.bal[a]) => NoIdleStake(t.bal[a])

(* What counts in the stake of an account is an integer. *)
LEMMA StakeType ==
  ASSUME NEW s \in TableSet, NEW a \in Users
  PROVE  VoteStake(s.bal[a]) \in Int /\ PendingStake(s.orders[a]) \in Int /\ StakeIn(s, a) \in Int
<1>1. s.bal[a] \in Balances \cup {None} /\ s.orders[a] \in Orders \cup {None}
  BY TableFields
<1>2. VoteStake(s.bal[a]) \in Int
  BY <1>1, RowFields DEF VoteStake
<1>3. PendingStake(s.orders[a]) \in Int
  BY <1>1 DEF PendingStake, IsFilled, Orders
<1> QED BY <1>2, <1>3 DEF StakeIn

(* What is not matured stays so if savings and buckets do. *)
LEMMA KeepsSame ==
  ASSUME NEW b, NEW c, SavingsIn(c) = SavingsIn(b), BucketsIn(c) = BucketsIn(b)
  PROVE  Keeps(b, c)
BY DEF Keeps, RipensIn

(* runrex is a part of an action of anybody. *)
LEMMA LeadsStep ==
  ASSUME NEW s, Books(s, now), s.pool # None, NEW t, Leads(s, t), NEW a \in Users
  PROVE  Step(s, t, a, 0)
<1>0. /\ s \in TableSet /\ t \in TableSet /\ Books(t, now) /\ Moves(s, t) /\ t.pool # None
      /\ s.pool \in Pools /\ t.pool \in Pools
  BY TableFields DEF Leads, Books, Moves
<1>1. \A b \in Users : Same(s, t, b)
  BY <1>0 DEF Moves, AccountMoves, Same
<1>2. Waiting(t) = Waiting(s)
  BY <1>0 DEF Waiting, Moves
<1>3. Price(s, t)
  BY <1>0 DEF Price, Moves, PoolMoves, TotalRex, Lendable
<1>4. StakeIn(t, a) = StakeIn(s, a) + 0
  BY <1>0, <1>1, StakeType DEF Same
<1>5. Keeps(s.bal[a], t.bal[a])
  BY <1>1, KeepsSame DEF Same
<1>6. \A k \in Kinds, c \in Accounts : Delegations(t, k, c) = Delegations(s, k, c)
  BY <1>0 DEF Moves
<1> QED BY <1>0, <1>1, <1>2, <1>3, <1>4, <1>5, <1>6 DEF Step, Same

(* Prices compare over several parts. *)
LEMMA PriceTrans ==
  ASSUME NEW s, NEW t, NEW u, Books(s, now), Books(t, now), Books(u, now), now \in Int,
         Price(s, t), Price(t, u)
  PROVE  Price(s, u)
<1> SUFFICES ASSUME TotalRex(u) > 0
             PROVE  TotalRex(s) > 0 /\ Cheaper(Lendable(s), TotalRex(s), Lendable(u), TotalRex(u))
  BY DEF Price
<1>1. /\ TotalRex(t) > 0 /\ Cheaper(Lendable(t), TotalRex(t), Lendable(u), TotalRex(u))
      /\ TotalRex(s) > 0 /\ Cheaper(Lendable(s), TotalRex(s), Lendable(t), TotalRex(t))
  BY DEF Price
<1>2. /\ TotalRex(s) \in Nat /\ TotalRex(t) \in Nat /\ TotalRex(u) \in Nat
      /\ Lendable(s) \in Nat /\ Lendable(t) \in Nat /\ Lendable(u) \in Nat
  BY Totals
<1>3. TotalRex(t) \in Nat \ {0}
  BY <1>1, <1>2
<1> QED BY <1>1, <1>2, <1>3, CheaperTrans

(* Two parts make one. *)
LEMMA StepTrans ==
  ASSUME now \in Int, NEW s, NEW t, NEW u, Books(s, now), NEW a \in Users, NEW d \in Int, NEW e \in Int,
         Step(s, t, a, d), Step(t, u, a, e)
  PROVE  Step(s, u, a, d + e)
<1>0. Books(t, now) /\ Books(u, now) /\ s \in TableSet /\ t \in TableSet /\ u \in TableSet
  BY DEF Step, Books
<1>1. Waiting(u) = Waiting(s) /\ Price(s, u)
  BY <1>0, PriceTrans DEF Step
<1>2. \A k \in Kinds, c \in Accounts : Delegations(u, k, c) = Delegations(s, k, c)
  BY DEF Step
<1>3. \A b \in Users \ {a} : Same(s, u, b)
  BY DEF Step, Same
<1>4. Keeps(s.bal[a], u.bal[a])
  BY DEF Step, Keeps
<1>5. StakeIn(u, a) = StakeIn(s, a) + (d + e)
  <2>1. StakeIn(t, a) = StakeIn(s, a) + d /\ StakeIn(u, a) = StakeIn(t, a) + e
    BY DEF Step
  <2>2. StakeIn(s, a) \in Int
    BY <1>0, StakeType
  <2> QED BY <2>1, <2>2
<1>6. NoIdleStake(s.bal[a]) => NoIdleStake(u.bal[a])
  BY DEF Step
<1> QED BY <1>0, <1>1, <1>2, <1>3, <1>4, <1>5, <1>6 DEF Step

(* A part of an action that leaves the pool and the loans alone *)
LEMMA RowsStep ==
  ASSUME now \in Int, NEW s, Books(s, now), NEW t \in TableSet, NEW a \in Users, NEW d \in Int,
         t.pool = s.pool, t.loans = s.loans, t.res = s.res, t.held.names = s.held.names,
         \A b \in Users \ {a} : t.bal[b] = s.bal[b] /\ t.orders[b] = s.orders[b] /\ t.fund[b] = s.fund[b],
         s.pool = None => t.bal[a] = None /\ t.orders[a] = None,
         RexIn(t.bal[a]) = RexIn(s.bal[a]), RowOK(t.bal[a]),
         t.held.rex = (s.held.rex + (t.fund[a] - s.fund[a])) + (Owing(t.orders[a]) - Owing(s.orders[a])),
         IsOpen(t.orders[a]) =>
           /\ t.bal[a] # None /\ t.orders[a].requested <= t.bal[a].matured /\ t.orders[a].time <= now
           /\ \A k \in Kinds : \A l \in s.loans[k] : l.expiration <= t.orders[a].time + LoanTerm,
         Keeps(s.bal[a], t.bal[a]), StakeIn(t, a) = StakeIn(s, a) + d,
         NoIdleStake(s.bal[a]) => NoIdleStake(t.bal[a])
  PROVE  Step(s, t, a, d)
<1>0. /\ s \in TableSet /\ LentOf(s) \in Nat /\ TotalRex(s) \in Nat /\ Lendable(s) \in Nat
  BY Totals
<1>1. /\ s.pool \in Pools \cup {None} /\ s.bal[a] \in Balances \cup {None} /\ s.held.rex \in Int
      /\ s.fund[a] \in Nat /\ t.fund[a] \in Nat
      /\ s.orders[a] \in Orders \cup {None} /\ t.orders[a] \in Orders \cup {None}
  BY <1>0, TableFields
<1>2. RexIn(s.bal[a]) \in Nat /\ Owing(s.orders[a]) \in Int /\ Owing(t.orders[a]) \in Int
  BY <1>1, RowFields DEF RexIn, Owing, IsFilled, Orders
<1>3. TotalRex(t) = TotalRex(s) /\ Lendable(t) = Lendable(s)
  BY DEF TotalRex, Lendable
<1>4. t.pool # None =>
           /\ t.pool.lendable = t.pool.unlent + t.pool.lent /\ t.pool.lent = LentOf(s)
           /\ t.pool.total_rex = TotalRex(s) + (RexIn(t.bal[a]) - RexIn(s.bal[a]))
           /\ t.pool.total_rex = 0 <=> t.pool.lendable = 0
           /\ t.pool.proceeds > 0 => t.pool.total_rex > 0
           /\ s.pool # None => t.pool.loan_num >= s.pool.loan_num
  BY <1>0, <1>1, <1>2, PoolFields DEF Books, PoolOK, LentOf, TotalRex
<1>5. t.held.rex = ((s.held.rex + (t.fund[a] - s.fund[a])) + (Lendable(t) - Lendable(s)))
                    + (Owing(t.orders[a]) - Owing(s.orders[a]))
  BY <1>0, <1>1, <1>2, <1>3
<1>6. Books(t, now)
  BY <1>4, <1>5, AccountBooks
<1>7. Waiting(t) = Waiting(s)
  BY DEF Waiting
<1>8. Price(s, t)
  <2>1. Lendable(s) * TotalRex(s) \in Int
    BY <1>0
  <2> QED BY <1>3, <2>1 DEF Price, Cheaper
<1>9. \A k \in Kinds, c \in Accounts : Delegations(t, k, c) = Delegations(s, k, c)
  BY DEF Delegations
<1>10. \A b \in Users \ {a} : Same(s, t, b)
  BY DEF Same, StakeIn
<1> QED BY <1>6, <1>7, <1>8, <1>9, <1>10 DEF Step

(* What the books say of the order and the row of one account *)
LEMMA OrderFacts ==
  ASSUME NEW s, Books(s, now), NEW a \in Users
  PROVE  /\ s \in TableSet /\ RowOK(s.bal[a]) /\ s.orders[a] \in Orders \cup {None} /\ s.bal[a] \in Balances \cup {None}
         /\ s.fund[a] \in Nat
         /\ s.pool = None => s.bal[a] = None /\ s.orders[a] = None
         /\ IsOpen(s.orders[a]) =>
              /\ s.bal[a] # None /\ s.orders[a].requested <= s.bal[a].matured /\ s.orders[a].time <= now
              /\ \A k \in Kinds : \A l \in s.loans[k] : l.expiration <= s.orders[a].time + LoanTerm
         /\ RexIn(s.bal[a]) \in Nat /\ Owing(s.orders[a]) \in Nat /\ rex_in_sell_order(s.orders[a]) \in Nat
         /\ IsOpen(s.orders[a]) => ~IsFilled(s.orders[a])
<1>1. s \in TableSet /\ s.orders[a] \in Orders \cup {None} /\ s.bal[a] \in Balances \cup {None} /\ s.fund[a] \in Nat
  BY TableFields DEF Books
<1>2. RexIn(s.bal[a]) \in Nat /\ Owing(s.orders[a]) \in Nat /\ rex_in_sell_order(s.orders[a]) \in Nat
  BY <1>1, RowFields DEF RexIn, Owing, IsFilled, IsOpen, rex_in_sell_order, Orders
<1> QED BY <1>1, <1>2 DEF Books, OrdersOK, UnusedOK, IsOpen, IsFilled

(* A field of the tables replaced at one account *)
LEMMA TablesAt ==
  ASSUME NEW s \in TableSet, NEW a \in Users
  PROVE  /\ \A b \in Balances \cup {None} :
              LET t == [s EXCEPT !.bal[a] = b]
              IN  /\ t \in TableSet /\ t.bal[a] = b /\ \A c \in Users \ {a} : t.bal[c] = s.bal[c]
                  /\ t.pool = s.pool /\ t.fund = s.fund /\ t.loans = s.loans /\ t.orders = s.orders
                  /\ t.held = s.held /\ t.res = s.res
         /\ \A o \in Orders \cup {None} :
              LET t == [s EXCEPT !.orders[a] = o]
              IN  /\ t \in TableSet /\ t.orders[a] = o /\ \A c \in Users \ {a} : t.orders[c] = s.orders[c]
                  /\ t.pool = s.pool /\ t.fund = s.fund /\ t.loans = s.loans /\ t.bal = s.bal
                  /\ t.held = s.held /\ t.res = s.res
         /\ \A f \in Nat :
              LET t == [s EXCEPT !.fund[a] = f]
              IN  /\ t \in TableSet /\ t.fund[a] = f /\ \A c \in Users \ {a} : t.fund[c] = s.fund[c]
                  /\ t.pool = s.pool /\ t.orders = s.orders /\ t.loans = s.loans /\ t.bal = s.bal
                  /\ t.held = s.held /\ t.res = s.res
<1>0. s.bal \in [Users -> Balances \cup {None}] /\ s.orders \in [Users -> Orders \cup {None}] /\ s.fund \in [Users -> Nat]
  BY TableFields
<1>1. ASSUME NEW b \in Balances \cup {None}
      PROVE  LET t == [s EXCEPT !.bal[a] = b]
             IN  /\ t \in TableSet /\ t.bal[a] = b /\ \A c \in Users \ {a} : t.bal[c] = s.bal[c]
                 /\ t.pool = s.pool /\ t.fund = s.fund /\ t.loans = s.loans /\ t.orders = s.orders
                 /\ t.held = s.held /\ t.res = s.res
  <2> DEFINE ba == [s.bal EXCEPT ![a] = b]
  <2>1. ba \in [Users -> Balances \cup {None}] /\ ba[a] = b /\ \A c \in Users \ {a} : ba[c] = s.bal[c]
    BY <1>0, <1>1
  <2>2. [s EXCEPT !.bal[a] = b] = [s EXCEPT !.bal = ba]
    BY DEF TableSet
  <2> HIDE DEF ba
  <2>3. [s EXCEPT !.bal = ba] = [pool |-> s.pool, fund |-> s.fund, bal |-> ba, loans |-> s.loans,
           orders |-> s.orders, held |-> s.held, res |-> s.res]
    BY DEF TableSet
  <2>4. [s EXCEPT !.bal = ba] \in TableSet
    BY <2>1, <2>3, TableFields DEF TableSet
  <2> QED BY <2>1, <2>2, <2>3, <2>4
<1>2. ASSUME NEW o \in Orders \cup {None}
      PROVE  LET t == [s EXCEPT !.orders[a] = o]
             IN  /\ t \in TableSet /\ t.orders[a] = o /\ \A c \in Users \ {a} : t.orders[c] = s.orders[c]
                 /\ t.pool = s.pool /\ t.fund = s.fund /\ t.loans = s.loans /\ t.bal = s.bal
                 /\ t.held = s.held /\ t.res = s.res
  <2> DEFINE ord == [s.orders EXCEPT ![a] = o]
  <2>1. ord \in [Users -> Orders \cup {None}] /\ ord[a] = o /\ \A c \in Users \ {a} : ord[c] = s.orders[c]
    BY <1>0, <1>2
  <2>2. [s EXCEPT !.orders[a] = o] = [s EXCEPT !.orders = ord]
    BY DEF TableSet
  <2> HIDE DEF ord
  <2>3. [s EXCEPT !.orders = ord] = [pool |-> s.pool, fund |-> s.fund, bal |-> s.bal, loans |-> s.loans,
           orders |-> ord, held |-> s.held, res |-> s.res]
    BY DEF TableSet
  <2>4. [s EXCEPT !.orders = ord] \in TableSet
    BY <2>1, <2>3, TableFields DEF TableSet
  <2> QED BY <2>1, <2>2, <2>3, <2>4
<1>3. ASSUME NEW f \in Nat
      PROVE  LET t == [s EXCEPT !.fund[a] = f]
             IN  /\ t \in TableSet /\ t.fund[a] = f /\ \A c \in Users \ {a} : t.fund[c] = s.fund[c]
                 /\ t.pool = s.pool /\ t.orders = s.orders /\ t.loans = s.loans /\ t.bal = s.bal
                 /\ t.held = s.held /\ t.res = s.res
  <2> DEFINE fu == [s.fund EXCEPT ![a] = f]
  <2>1. fu \in [Users -> Nat] /\ fu[a] = f /\ \A c \in Users \ {a} : fu[c] = s.fund[c]
    BY <1>0, <1>3
  <2>2. [s EXCEPT !.fund[a] = f] = [s EXCEPT !.fund = fu]
    BY DEF TableSet
  <2> HIDE DEF fu
  <2>3. [s EXCEPT !.fund = fu] = [pool |-> s.pool, fund |-> fu, bal |-> s.bal, loans |-> s.loans,
           orders |-> s.orders, held |-> s.held, res |-> s.res]
    BY DEF TableSet
  <2>4. [s EXCEPT !.fund = fu] \in TableSet
    BY <2>1, <2>3, TableFields DEF TableSet
  <2> QED BY <2>1, <2>2, <2>3, <2>4
<1> QED BY <1>1, <1>2, <1>3

(* Collected: the fund grows by y and by what a filled order brought, and that
   order is gone. *)
LEMMA CollectedIs ==
  ASSUME NEW s \in TableSet, NEW a \in Users, NEW y \in Nat
  PROVE  LET t == Collected(s, a, y)
         IN  /\ t \in TableSet /\ t.fund[a] = (s.fund[a] + y) + Owing(s.orders[a])
             /\ \A c \in Users \ {a} : t.fund[c] = s.fund[c] /\ t.orders[c] = s.orders[c]
             /\ t.pool = s.pool /\ t.loans = s.loans /\ t.bal = s.bal /\ t.held = s.held /\ t.res = s.res
             /\ t.orders[a] = IF IsFilled(s.orders[a]) THEN None ELSE s.orders[a]
<1>0. s.fund[a] \in Nat /\ s.orders[a] \in Orders \cup {None}
  BY TableFields
<1>1. CASE IsFilled(s.orders[a])
  <2> DEFINE f == (s.fund[a] + y) + s.orders[a].proceeds
             u == [s EXCEPT !.fund[a] = f]
  <2>1. f \in Nat /\ Owing(s.orders[a]) = s.orders[a].proceeds
    BY <1>0, <1>1 DEF IsFilled, Orders, Owing
  <2>2. Collected(s, a, y) = [u EXCEPT !.orders[a] = None]
    BY <1>1 DEF Collected
  <2> HIDE DEF f
  <2>3. /\ u \in TableSet /\ u.fund[a] = f /\ \A c \in Users \ {a} : u.fund[c] = s.fund[c]
        /\ u.pool = s.pool /\ u.orders = s.orders /\ u.loans = s.loans /\ u.bal = s.bal
        /\ u.held = s.held /\ u.res = s.res
    BY <2>1, TablesAt
  <2> HIDE DEF u
  <2> DEFINE t == [u EXCEPT !.orders[a] = None]
  <2>4. /\ t \in TableSet /\ t.orders[a] = None /\ \A c \in Users \ {a} : t.orders[c] = u.orders[c]
        /\ t.pool = u.pool /\ t.fund = u.fund /\ t.loans = u.loans /\ t.bal = u.bal
        /\ t.held = u.held /\ t.res = u.res
    BY <2>3, TablesAt
  <2> HIDE DEF t
  <2> QED BY <1>1, <2>1, <2>2, <2>3, <2>4 DEF f, t
<1>2. CASE ~IsFilled(s.orders[a])
  <2> DEFINE f == s.fund[a] + y
             t == [s EXCEPT !.fund[a] = f]
  <2>1. f \in Nat /\ Owing(s.orders[a]) = 0 /\ f = f + 0
    BY <1>0, <1>2 DEF Owing
  <2>2. Collected(s, a, y) = t
    BY <1>2 DEF Collected
  <2> HIDE DEF f
  <2>3. /\ t \in TableSet /\ t.fund[a] = f /\ \A c \in Users \ {a} : t.fund[c] = s.fund[c]
        /\ t.pool = s.pool /\ t.orders = s.orders /\ t.loans = s.loans /\ t.bal = s.bal
        /\ t.held = s.held /\ t.res = s.res
    BY <2>1, TablesAt
  <2> HIDE DEF t
  <2> QED BY <1>2, <2>1, <2>2, <2>3 DEF f
<1> QED BY <1>1, <1>2

(* update_rex_account without proceeds *)
LEMMA CollectedStep ==
  ASSUME now \in Int, NEW s, Books(s, now), NEW a \in Users
  PROVE  /\ Step(s, Collected(s, a, 0), a, PendingStake(s.orders[a]))
         /\ Collected(s, a, 0).orders[a] = IF IsFilled(s.orders[a]) THEN None ELSE s.orders[a]
         /\ Collected(s, a, 0).bal = s.bal /\ Collected(s, a, 0).pool = s.pool
<1> DEFINE t == Collected(s, a, 0)
           d == PendingStake(s.orders[a])
<1>0. /\ s \in TableSet /\ RowOK(s.bal[a]) /\ s.orders[a] \in Orders \cup {None} /\ s.fund[a] \in Nat
      /\ s.pool = None => s.bal[a] = None /\ s.orders[a] = None
      /\ IsOpen(s.orders[a]) =>
           /\ s.bal[a] # None /\ s.orders[a].requested <= s.bal[a].matured /\ s.orders[a].time <= now
           /\ \A k \in Kinds : \A l \in s.loans[k] : l.expiration <= s.orders[a].time + LoanTerm
      /\ Owing(s.orders[a]) \in Nat /\ (IsOpen(s.orders[a]) => ~IsFilled(s.orders[a]))
  BY OrderFacts
<1>1. /\ t \in TableSet /\ t.fund[a] = (s.fund[a] + 0) + Owing(s.orders[a])
      /\ \A c \in Users \ {a} : t.fund[c] = s.fund[c] /\ t.orders[c] = s.orders[c]
      /\ t.pool = s.pool /\ t.loans = s.loans /\ t.bal = s.bal /\ t.held = s.held /\ t.res = s.res
      /\ t.orders[a] = IF IsFilled(s.orders[a]) THEN None ELSE s.orders[a]
  BY <1>0, CollectedIs
<1> HIDE DEF t
<1>2. d \in Int /\ VoteStake(s.bal[a]) \in Int
  BY <1>0, StakeType
<1>3. Owing(t.orders[a]) = 0 /\ PendingStake(t.orders[a]) = 0
  BY <1>1 DEF Owing, PendingStake, IsFilled
<1>4. StakeIn(t, a) = StakeIn(s, a) + d
  BY <1>1, <1>2, <1>3 DEF StakeIn
<1>5. t.held.rex = (s.held.rex + (t.fund[a] - s.fund[a])) + (Owing(t.orders[a]) - Owing(s.orders[a]))
  <2>1. s.held.rex \in Int
    BY <1>0, TableFields
  <2> QED BY <1>0, <1>1, <1>3, <2>1
<1>6. IsOpen(t.orders[a]) =>
        /\ t.bal[a] # None /\ t.orders[a].requested <= t.bal[a].matured /\ t.orders[a].time <= now
        /\ \A k \in Kinds : \A l \in s.loans[k] : l.expiration <= t.orders[a].time + LoanTerm
  BY <1>0, <1>1 DEF IsOpen
<1>7. Keeps(s.bal[a], t.bal[a])
  BY <1>1, KeepsSame
<1>8. s.pool = None => t.bal[a] = None /\ t.orders[a] = None
  BY <1>0, <1>1
<1>9. Step(s, t, a, d)
  <2> HIDE DEF d
  <2> QED BY <1>0, <1>1, <1>2, <1>4, <1>5, <1>6, <1>7, <1>8, RowsStep
<1> QED BY <1>1, <1>9 DEF t

(* The row of a is replaced. *)
LEMMA RowStep ==
  ASSUME now \in Int, NEW s, Books(s, now), NEW a \in Users, s.bal[a] # None, NEW c \in Balances,
         c.rex = s.bal[a].rex, RowOK(c), rex_in_sell_order(s.orders[a]) <= c.matured, Keeps(s.bal[a], c),
         NoIdleStake(s.bal[a]) => NoIdleStake(c)
  PROVE  LET t == [s EXCEPT !.bal[a] = c]
         IN  /\ Step(s, t, a, c.vote_stake - s.bal[a].vote_stake)
             /\ t.orders = s.orders /\ t.bal[a] = c /\ t.pool = s.pool
<1> DEFINE t == [s EXCEPT !.bal[a] = c]
           d == c.vote_stake - s.bal[a].vote_stake
<1>0. /\ s \in TableSet /\ s.orders[a] \in Orders \cup {None} /\ s.fund[a] \in Nat /\ s.bal[a] \in Balances \cup {None}
      /\ s.pool # None
      /\ IsOpen(s.orders[a]) =>
           /\ s.orders[a].time <= now
           /\ \A k \in Kinds : \A l \in s.loans[k] : l.expiration <= s.orders[a].time + LoanTerm
      /\ Owing(s.orders[a]) \in Nat
  BY OrderFacts
<1>1. /\ t \in TableSet /\ t.bal[a] = c /\ \A b \in Users \ {a} : t.bal[b] = s.bal[b]
      /\ t.pool = s.pool /\ t.fund = s.fund /\ t.loans = s.loans /\ t.orders = s.orders
      /\ t.held = s.held /\ t.res = s.res
  BY <1>0, TablesAt
<1> HIDE DEF t
<1>2. s.bal[a].vote_stake \in Int /\ c.vote_stake \in Int /\ c # None /\ d \in Int
  BY <1>0, RowFields
<1>3. StakeIn(t, a) = StakeIn(s, a) + d
  <2>1. VoteStake(t.bal[a]) = c.vote_stake /\ VoteStake(s.bal[a]) = s.bal[a].vote_stake /\ PendingStake(s.orders[a]) \in Int
    BY <1>0, <1>1, <1>2, StakeType DEF VoteStake
  <2> QED BY <1>1, <1>2, <2>1 DEF StakeIn
<1>4. t.held.rex = (s.held.rex + (t.fund[a] - s.fund[a])) + (Owing(t.orders[a]) - Owing(s.orders[a]))
  <2>1. s.held.rex \in Int
    BY <1>0, TableFields
  <2> QED BY <1>0, <1>1, <2>1
<1>5. IsOpen(t.orders[a]) =>
        /\ t.bal[a] # None /\ t.orders[a].requested <= t.bal[a].matured /\ t.orders[a].time <= now
        /\ \A k \in Kinds : \A l \in s.loans[k] : l.expiration <= t.orders[a].time + LoanTerm
  BY <1>0, <1>1, <1>2 DEF rex_in_sell_order
<1>6. RexIn(t.bal[a]) = RexIn(s.bal[a])
  BY <1>1, <1>2 DEF RexIn
<1>7. Step(s, t, a, d)
  <2> HIDE DEF d
  <2> QED BY <1>0, <1>1, <1>2, <1>3, <1>4, <1>5, <1>6, RowsStep
<1> QED BY <1>1, <1>7 DEF t

(* An order is queued. *)
LEMMA QueuedStep ==
  ASSUME now \in Int, NEW s, Books(s, now), NEW a \in Users, s.bal[a] # None, ~IsFilled(s.orders[a]),
         NEW x \in Nat \ {0}, Queued(s, a, x).orders[a].requested <= s.bal[a].matured
  PROVE  Step(s, Queued(s, a, x), a, 0)
<1> DEFINE t == Queued(s, a, x)
           o == IF s.orders[a] = None
                THEN [requested |-> x, is_open |-> TRUE, proceeds |-> 0, stake_change |-> 0, time |-> now]
                ELSE [s.orders[a] EXCEPT !.requested = @ + x]
<1>0. /\ s \in TableSet /\ RowOK(s.bal[a]) /\ s.orders[a] \in Orders \cup {None} /\ s.fund[a] \in Nat
      /\ s.pool # None
      /\ IsOpen(s.orders[a]) =>
           /\ s.orders[a].time <= now
           /\ \A k \in Kinds : \A l \in s.loans[k] : l.expiration <= s.orders[a].time + LoanTerm
  BY OrderFacts
<1>1. /\ o \in Orders /\ o.is_open /\ o.time <= now
      /\ \A k \in Kinds : \A l \in s.loans[k] : l.expiration <= o.time + LoanTerm
  <2>1. CASE s.orders[a] = None
    <3>1. o = [requested |-> x, is_open |-> TRUE, proceeds |-> 0, stake_change |-> 0, time |-> now]
      BY <2>1
    <3> HIDE DEF o
    <3>2. \A k \in Kinds : \A l \in s.loans[k] : l.expiration <= now + LoanTerm
      BY DEF Books, LoansOK
    <3> QED BY <3>1, <3>2 DEF Orders
  <2>2. CASE s.orders[a] # None
    <3> DEFINE r == s.orders[a].requested + x
    <3>1. s.orders[a] \in Orders /\ s.orders[a].is_open /\ IsOpen(s.orders[a])
      BY <1>0, <2>2 DEF IsFilled, IsOpen, Orders
    <3>2. r \in Nat \ {0}
      BY <3>1 DEF Orders
    <3>3. o = [s.orders[a] EXCEPT !.requested = r]
      BY <2>2
    <3> HIDE DEF o, r
    <3>4. o = [requested |-> r, is_open |-> s.orders[a].is_open, proceeds |-> s.orders[a].proceeds,
               stake_change |-> s.orders[a].stake_change, time |-> s.orders[a].time]
      BY <3>1, <3>3 DEF Orders
    <3>5. o \in Orders
      BY <3>1, <3>2, <3>4 DEF Orders
    <3> QED BY <1>0, <3>1, <3>4, <3>5
  <2> QED BY <2>1, <2>2
<1>2. t = [s EXCEPT !.orders[a] = o]
  BY <1>0 DEF Queued, TableSet
<1> HIDE DEF o, t
<1>3. /\ t \in TableSet /\ t.orders[a] = o /\ \A c \in Users \ {a} : t.orders[c] = s.orders[c]
      /\ t.pool = s.pool /\ t.fund = s.fund /\ t.loans = s.loans /\ t.bal = s.bal
      /\ t.held = s.held /\ t.res = s.res
  BY <1>0, <1>1, <1>2, TablesAt
<1>4. Owing(t.orders[a]) = 0 /\ PendingStake(t.orders[a]) = 0 /\ Owing(s.orders[a]) = 0 /\ PendingStake(s.orders[a]) = 0
  BY <1>1, <1>3 DEF Owing, PendingStake, IsFilled
<1>5. StakeIn(t, a) = StakeIn(s, a) + 0
  BY <1>0, <1>3, <1>4, StakeType DEF StakeIn
<1>6. t.held.rex = (s.held.rex + (t.fund[a] - s.fund[a])) + (Owing(t.orders[a]) - Owing(s.orders[a]))
  <2>1. s.held.rex \in Int
    BY <1>0, TableFields
  <2> QED BY <1>0, <1>3, <1>4, <2>1
<1>7. /\ t.bal[a] # None /\ t.orders[a].requested <= t.bal[a].matured /\ t.orders[a].time <= now
      /\ \A k \in Kinds : \A l \in s.loans[k] : l.expiration <= t.orders[a].time + LoanTerm
  BY <1>1, <1>3 DEF t
<1>8. Keeps(s.bal[a], t.bal[a]) /\ RexIn(t.bal[a]) = RexIn(s.bal[a])
  BY <1>3, KeepsSame
<1>9. Step(s, t, a, 0)
  <2>1. 0 \in Int /\ (s.pool = None => t.bal[a] = None /\ t.orders[a] = None)
    BY <1>0
  <2>2. \A b \in Users \ {a} : t.bal[b] = s.bal[b] /\ t.orders[b] = s.orders[b] /\ t.fund[b] = s.fund[b]
    BY <1>3
  <2>3. RowOK(t.bal[a]) /\ (NoIdleStake(s.bal[a]) => NoIdleStake(t.bal[a])) /\ t.held.names = s.held.names
    BY <1>0, <1>3
  <2> QED BY <1>3, <1>5, <1>6, <1>7, <1>8, <2>1, <2>2, <2>3, RowsStep
<1> QED BY <1>9 DEF t

(* A part of an action that leaves the loans and the rows of others alone *)
LEMMA AccountStep ==
  ASSUME NEW s, Books(s, now), NEW t, Books(t, now), NEW a \in Users, NEW d \in Int,
         t.loans = s.loans, t.res = s.res, Waiting(t) = Waiting(s), Price(s, t),
         \A b \in Users \ {a} : t.bal[b] = s.bal[b] /\ t.orders[b] = s.orders[b],
         Keeps(s.bal[a], t.bal[a]), StakeIn(t, a) = StakeIn(s, a) + d,
         NoIdleStake(s.bal[a]) => NoIdleStake(t.bal[a])
  PROVE  Step(s, t, a, d)
<1>1. \A k \in Kinds, c \in Accounts : Delegations(t, k, c) = Delegations(s, k, c)
  BY DEF Delegations
<1>2. \A b \in Users \ {a} : Same(s, t, b)
  BY DEF Same, StakeIn
<1> QED BY <1>1, <1>2 DEF Step

(* An open order is cancelled. *)
LEMMA CancelledStep ==
  ASSUME now \in Int, NEW s, Books(s, now), NEW a \in Users, IsOpen(s.orders[a])
  PROVE  Step(s, [s EXCEPT !.orders[a] = None], a, 0)
<1> DEFINE t == [s EXCEPT !.orders[a] = None]
<1>0. /\ s \in TableSet /\ RowOK(s.bal[a]) /\ s.orders[a] \in Orders \cup {None} /\ s.fund[a] \in Nat
      /\ s.pool = None => s.bal[a] = None /\ s.orders[a] = None
      /\ ~IsFilled(s.orders[a]) /\ s.held.rex \in Int
  BY OrderFacts, TableFields
<1>1. /\ t \in TableSet /\ t.orders[a] = None /\ \A c \in Users \ {a} : t.orders[c] = s.orders[c]
      /\ t.pool = s.pool /\ t.fund = s.fund /\ t.loans = s.loans /\ t.bal = s.bal
      /\ t.held = s.held /\ t.res = s.res
  BY <1>0, TablesAt
<1> HIDE DEF t
<1>2. Owing(t.orders[a]) = 0 /\ PendingStake(t.orders[a]) = 0 /\ Owing(s.orders[a]) = 0 /\ PendingStake(s.orders[a]) = 0
  BY <1>0, <1>1 DEF Owing, PendingStake, IsFilled
<1>3. StakeIn(t, a) = StakeIn(s, a) + 0
  BY <1>0, <1>1, <1>2, StakeType DEF StakeIn
<1>4. t.held.rex = (s.held.rex + (t.fund[a] - s.fund[a])) + (Owing(t.orders[a]) - Owing(s.orders[a]))
  BY <1>0, <1>1, <1>2
<1>5. ~IsOpen(t.orders[a]) /\ (s.pool = None => t.bal[a] = None /\ t.orders[a] = None)
  BY <1>0, <1>1 DEF IsOpen
<1>6. Keeps(s.bal[a], t.bal[a]) /\ RexIn(t.bal[a]) = RexIn(s.bal[a]) /\ RowOK(t.bal[a])
  BY <1>0, <1>1, KeepsSame
<1>7. /\ 0 \in Int /\ t.held.names = s.held.names
      /\ \A b \in Users \ {a} : t.bal[b] = s.bal[b] /\ t.orders[b] = s.orders[b] /\ t.fund[b] = s.fund[b]
      /\ NoIdleStake(s.bal[a]) => NoIdleStake(t.bal[a])
  BY <1>1
<1>8. Step(s, t, a, 0)
  BY <1>1, <1>3, <1>4, <1>5, <1>6, <1>7, RowsStep
<1> QED BY <1>8 DEF t

(* A sale whose proceeds go to the fund, with those of an order filled before.
   What is left covers the order that is open. *)
LEMMA SaleStep ==
  ASSUME now \in Int, NEW s, Books(s, now), s.pool # None, s.pool.proceeds = 0, NEW a \in Users,
         s.bal[a] # None, NEW x \in Nat \ {0}, x <= s.bal[a].matured, NEW r, NEW y, NEW d,
         Sells(s, r, a, x, y, d), rex_in_sell_order(s.orders[a]) <= r.bal[a].matured
  PROVE  Step(s, Collected(r, a, y), a, d + PendingStake(s.orders[a]))
<1> DEFINE t == Collected(r, a, y)
           e == PendingStake(s.orders[a])
<1>0. /\ s \in TableSet /\ s.orders[a] \in Orders \cup {None} /\ s.bal[a] \in Balances \cup {None} /\ s.fund[a] \in Nat
      /\ IsOpen(s.orders[a]) =>
           /\ s.orders[a].requested <= s.bal[a].matured /\ s.orders[a].time <= now
           /\ \A k \in Kinds : \A l \in s.loans[k] : l.expiration <= s.orders[a].time + LoanTerm
      /\ Owing(s.orders[a]) \in Nat /\ RowOK(s.bal[a])
      /\ s.held.rex \in Int
  BY OrderFacts, TableFields
<1>1. /\ r \in TableSet /\ r.pool \in Pools
      /\ r.loans = s.loans /\ r.orders = s.orders /\ r.fund = s.fund /\ r.held = s.held /\ r.res = s.res
      /\ \A b \in Users \ {a} : r.bal[b] = s.bal[b]
      /\ r.pool.lent = s.pool.lent /\ r.pool.lendable = s.pool.lendable - y
      /\ r.pool.total_rex = s.pool.total_rex - x /\ r.pool.lendable = r.pool.unlent + r.pool.lent
      /\ (r.pool.total_rex = 0 <=> r.pool.lendable = 0)
      /\ r.pool.proceeds = 0 /\ r.pool.loan_num = s.pool.loan_num
      /\ Cheaper(s.pool.lendable, s.pool.total_rex, r.pool.lendable, r.pool.total_rex)
      /\ y \in Nat /\ d \in Int
  BY DEF Sells
<1>2. /\ r.bal[a] \in Balances
      /\ r.bal[a].rex = s.bal[a].rex - x /\ r.bal[a].matured = s.bal[a].matured - x
      /\ r.bal[a].buckets = s.bal[a].buckets /\ r.bal[a].savings = s.bal[a].savings
      /\ r.bal[a].vote_stake = s.bal[a].vote_stake + d
      /\ (r.bal[a].rex = 0 => r.bal[a].vote_stake = 0)
  BY DEF Sells
<1>3. /\ t \in TableSet /\ t.fund[a] = (s.fund[a] + y) + Owing(s.orders[a])
      /\ \A c \in Users \ {a} : t.fund[c] = s.fund[c] /\ t.orders[c] = s.orders[c]
      /\ t.pool = r.pool /\ t.loans = s.loans /\ t.bal = r.bal /\ t.held = s.held /\ t.res = s.res
      /\ t.orders[a] = IF IsFilled(s.orders[a]) THEN None ELSE s.orders[a]
  <2>1. /\ t \in TableSet /\ t.fund[a] = (r.fund[a] + y) + Owing(r.orders[a])
        /\ \A c \in Users \ {a} : t.fund[c] = r.fund[c] /\ t.orders[c] = r.orders[c]
        /\ t.pool = r.pool /\ t.loans = r.loans /\ t.bal = r.bal /\ t.held = r.held /\ t.res = r.res
        /\ t.orders[a] = IF IsFilled(r.orders[a]) THEN None ELSE r.orders[a]
    <3>1. r \in TableSet /\ y \in Nat
      BY <1>1
    <3> QED BY <3>1, CollectedIs
  <2> HIDE DEF t
  <2> QED BY <1>1, <2>1
<1> HIDE DEF t
<1>4. /\ s.pool \in Pools /\ s.pool.lendable \in Nat /\ s.pool.total_rex \in Nat /\ t.pool # None
      /\ s.pool.loan_num \in Nat /\ s.pool.lent \in Nat
  BY <1>0, <1>1, <1>3, PoolFields, TableFields
<1>5. s.bal[a] \in Balances /\ r.bal[a] # None /\ s.bal[a].rex \in Nat /\ s.bal[a].matured \in Nat /\ s.bal[a].savings \in Nat
      /\ s.bal[a].buckets \in [Maturities -> Nat] /\ s.bal[a].vote_stake \in Int
  BY <1>0, <1>2, RowFields
<1>6. RowOK(t.bal[a])
  <2>1. SumFunctionOnSet(s.bal[a].buckets, Maturities) \in Nat
    BY <1>5, AfterSums
  <2>2. s.bal[a].rex = s.bal[a].matured + SumFunctionOnSet(s.bal[a].buckets, Maturities) + s.bal[a].savings
    BY <1>0 DEF RowOK
  <2>3. SumFunctionOnSet(r.bal[a].buckets, Maturities) = SumFunctionOnSet(s.bal[a].buckets, Maturities)
    BY <1>2, Zenon
  <2> QED BY <1>2, <1>3, <1>5, <2>1, <2>2, <2>3 DEF RowOK
<1>7. Owing(t.orders[a]) = 0 /\ PendingStake(t.orders[a]) = 0 /\ e \in Int /\ VoteStake(s.bal[a]) \in Int
  BY <1>0, <1>3, StakeType DEF Owing, PendingStake, IsFilled
<1>8. Books(t, now)
  <2>1. Lendable(t) = s.pool.lendable - y /\ Lendable(s) = s.pool.lendable
    BY <1>1, <1>3, <1>4 DEF Lendable
  <2>2. t.held.rex = ((s.held.rex + (t.fund[a] - s.fund[a])) + (Lendable(t) - Lendable(s)))
                        + (Owing(t.orders[a]) - Owing(s.orders[a]))
    BY <1>0, <1>1, <1>3, <1>4, <1>7, <2>1
  <2>3. /\ t.pool.lendable = t.pool.unlent + t.pool.lent /\ t.pool.lent = LentOf(s)
        /\ t.pool.total_rex = TotalRex(s) + (RexIn(t.bal[a]) - RexIn(s.bal[a]))
        /\ t.pool.total_rex = 0 <=> t.pool.lendable = 0
        /\ t.pool.proceeds > 0 => t.pool.total_rex > 0
        /\ s.pool # None => t.pool.loan_num >= s.pool.loan_num
    BY <1>1, <1>2, <1>3, <1>4, <1>5 DEF LentOf, TotalRex, RexIn
  <2>4. IsOpen(t.orders[a]) =>
           /\ t.bal[a] # None /\ t.orders[a].requested <= t.bal[a].matured /\ t.orders[a].time <= now
           /\ \A k \in Kinds : \A l \in s.loans[k] : l.expiration <= t.orders[a].time + LoanTerm
    BY <1>0, <1>3, <1>5 DEF IsOpen, rex_in_sell_order
  <2>5. \A b \in Users \ {a} : t.bal[b] = s.bal[b] /\ t.orders[b] = s.orders[b] /\ t.fund[b] = s.fund[b]
    BY <1>1, <1>3
  <2>6. t.pool = None => s.pool = None /\ t.bal[a] = None /\ t.orders[a] = None
    BY <1>4
  <2>7. t.pool # None =>
           /\ t.pool.lendable = t.pool.unlent + t.pool.lent /\ t.pool.lent = LentOf(s)
           /\ t.pool.total_rex = TotalRex(s) + (RexIn(t.bal[a]) - RexIn(s.bal[a]))
           /\ t.pool.total_rex = 0 <=> t.pool.lendable = 0
           /\ t.pool.proceeds > 0 => t.pool.total_rex > 0
           /\ s.pool # None => t.pool.loan_num >= s.pool.loan_num
    BY <2>3
  <2>8. t \in TableSet /\ t.loans = s.loans
    BY <1>3
  <2> QED BY <1>6, <2>2, <2>4, <2>5, <2>6, <2>7, <2>8, AccountBooks
<1>9. StakeIn(t, a) = StakeIn(s, a) + (d + e)
  <2>1. VoteStake(t.bal[a]) = VoteStake(s.bal[a]) + d
    BY <1>2, <1>3, <1>5 DEF VoteStake
  <2> QED BY <1>1, <1>7, <2>1 DEF StakeIn
<1>10. Keeps(s.bal[a], t.bal[a]) /\ NoIdleStake(t.bal[a])
  <2>1. SavingsIn(t.bal[a]) = SavingsIn(s.bal[a]) /\ BucketsIn(t.bal[a]) = BucketsIn(s.bal[a])
    BY <1>2, <1>3, <1>5 DEF SavingsIn, BucketsIn
  <2> QED BY <1>2, <1>3, <1>5, <2>1, KeepsSame DEF NoIdleStake, RexIn, VoteStake
<1>11. Waiting(t) = Waiting(s) /\ Price(s, t)
  <2>1. t.pool.proceeds = s.pool.proceeds
    BY <1>1, <1>3
  <2>2. Price(s, t)
    BY <1>1, <1>3, <1>4 DEF Price, TotalRex, Lendable
  <2> QED BY <1>3, <1>4, <2>1, <2>2 DEF Waiting
<1>12. d + e \in Int /\ \A b \in Users \ {a} : t.bal[b] = s.bal[b] /\ t.orders[b] = s.orders[b]
  BY <1>1, <1>3, <1>7
<1>13. Step(s, t, a, d + e)
  <2> HIDE DEF e
  <2> QED BY <1>3, <1>8, <1>9, <1>10, <1>11, <1>12, AccountStep
<1> QED BY <1>13 DEF t

(* closerex: a row without REX is erased. *)
LEMMA ErasedStep ==
  ASSUME now \in Int, NEW s, Books(s, now), NEW a \in Users, s.bal[a] # None => s.bal[a].rex = 0
  PROVE  LET t == [s EXCEPT !.bal[a] = None]
         IN  Step(s, t, a, -VoteStake(s.bal[a])) /\ t.orders = s.orders
<1> DEFINE t == [s EXCEPT !.bal[a] = None]
           d == -VoteStake(s.bal[a])
<1>0. /\ s \in TableSet /\ RowOK(s.bal[a]) /\ s.orders[a] \in Orders \cup {None} /\ s.fund[a] \in Nat
      /\ s.bal[a] \in Balances \cup {None}
      /\ s.pool = None => s.bal[a] = None /\ s.orders[a] = None
      /\ IsOpen(s.orders[a]) => s.bal[a] # None /\ s.orders[a].requested <= s.bal[a].matured
      /\ Owing(s.orders[a]) \in Nat /\ s.held.rex \in Int
  BY OrderFacts, TableFields
<1>1. /\ t \in TableSet /\ t.bal[a] = None /\ \A b \in Users \ {a} : t.bal[b] = s.bal[b]
      /\ t.pool = s.pool /\ t.fund = s.fund /\ t.loans = s.loans /\ t.orders = s.orders
      /\ t.held = s.held /\ t.res = s.res
  <2>1. None \in Balances \cup {None}
    OBVIOUS
  <2>2. \A b \in Balances \cup {None} :
              LET r == [s EXCEPT !.bal[a] = b]
              IN  /\ r \in TableSet /\ r.bal[a] = b /\ \A c \in Users \ {a} : r.bal[c] = s.bal[c]
                  /\ r.pool = s.pool /\ r.fund = s.fund /\ r.loans = s.loans /\ r.orders = s.orders
                  /\ r.held = s.held /\ r.res = s.res
    BY <1>0, TablesAt
  <2> QED BY <2>1, <2>2, Zenon
<1> HIDE DEF t
<1>2. /\ SavingsIn(s.bal[a]) = 0
      /\ \A m \in Maturities : SumFunctionOnSet(BucketsIn(s.bal[a]), After(m)) = 0
      /\ s.bal[a] # None => s.bal[a].matured = 0
  <2>1. CASE s.bal[a] = None
    <3> DEFINE z == [m \in Maturities |-> 0]
    <3>1. BucketsIn(s.bal[a]) = z /\ SavingsIn(s.bal[a]) = 0
      BY <2>1 DEF BucketsIn, SavingsIn
    <3>2. z \in [Maturities -> Int] /\ \A m \in Maturities : z[m] = 0
      OBVIOUS
    <3> HIDE DEF z
    <3>3. ASSUME NEW m \in Maturities PROVE SumFunctionOnSet(z, After(m)) = 0
      <4>1. After(m) \in SUBSET Maturities /\ IsFiniteSet(After(m))
        BY MaturitiesFinite
      <4>2. \A x \in After(m) : z[x] = 0
        BY <3>2, <4>1
      <4> QED BY <3>2, <4>1, <4>2, SumOfZeros
    <3> QED BY <2>1, <3>1, <3>3
  <2>2. CASE s.bal[a] # None
    <3> DEFINE b == s.bal[a]
    <3>1. b \in Balances /\ b.rex = 0
      BY <1>0, <2>2
    <3>2. BucketsIn(b) = b.buckets /\ SavingsIn(b) = b.savings
      BY <2>2 DEF BucketsIn, SavingsIn
    <3>3. b.rex = b.matured + SumFunctionOnSet(b.buckets, Maturities) + b.savings
      BY <1>0, <2>2 DEF RowOK
    <3> HIDE DEF b
    <3>4. b.matured \in Nat /\ b.savings \in Nat /\ b.buckets \in [Maturities -> Nat]
      BY <3>1, RowFields
    <3>5. SumFunctionOnSet(b.buckets, Maturities) \in Nat
      BY <3>4, AfterSums
    <3>6. b.matured = 0 /\ b.savings = 0 /\ SumFunctionOnSet(b.buckets, Maturities) = 0
      BY <3>1, <3>3, <3>4, <3>5
    <3>7. ASSUME NEW m \in Maturities PROVE SumFunctionOnSet(b.buckets, After(m)) = 0
      <4>1. m \in Int
        BY MaturitiesFinite
      <4>2. SumFunctionOnSet(b.buckets, After(m)) \in Nat
            /\ SumFunctionOnSet(b.buckets, After(m)) <= SumFunctionOnSet(b.buckets, Maturities)
        BY <3>4, <4>1, AfterSums
      <4> QED BY <3>6, <4>2
    <3> QED BY <3>2, <3>6, <3>7 DEF b
  <2> QED BY <2>1, <2>2
<1>3. ~IsOpen(s.orders[a])
  BY <1>0, <1>2 DEF IsOpen, Orders
<1>4. Keeps(s.bal[a], t.bal[a])
  <2>2. /\ SavingsIn(t.bal[a]) = 0
        /\ \A m \in Maturities : SumFunctionOnSet(BucketsIn(t.bal[a]), After(m)) = 0
    <3> DEFINE z == [m \in Maturities |-> 0]
    <3>1. BucketsIn(t.bal[a]) = z /\ SavingsIn(t.bal[a]) = 0
      BY <1>1 DEF BucketsIn, SavingsIn
    <3>2. z \in [Maturities -> Int] /\ \A m \in Maturities : z[m] = 0
      OBVIOUS
    <3> HIDE DEF z
    <3>3. ASSUME NEW m \in Maturities PROVE SumFunctionOnSet(z, After(m)) = 0
      <4>1. After(m) \in SUBSET Maturities /\ IsFiniteSet(After(m))
        BY MaturitiesFinite
      <4>2. \A x \in After(m) : z[x] = 0
        BY <3>2, <4>1
      <4> QED BY <3>2, <4>1, <4>2, SumOfZeros
    <3> QED BY <3>1, <3>3
  <2> QED BY <1>2, <2>2 DEF Keeps, RipensIn
<1>5. StakeIn(t, a) = StakeIn(s, a) + d /\ d \in Int /\ NoIdleStake(t.bal[a])
  <2>1. VoteStake(t.bal[a]) = 0 /\ VoteStake(s.bal[a]) \in Int /\ PendingStake(s.orders[a]) \in Int
    BY <1>0, <1>1, StakeType DEF VoteStake
  <2> QED BY <1>1, <2>1 DEF StakeIn, NoIdleStake
<1>6. t.held.rex = (s.held.rex + (t.fund[a] - s.fund[a])) + (Owing(t.orders[a]) - Owing(s.orders[a]))
  BY <1>0, <1>1
<1>7. RexIn(t.bal[a]) = RexIn(s.bal[a]) /\ RowOK(t.bal[a])
  BY <1>1 DEF RexIn, RowOK
<1>8. Step(s, t, a, d)
  <2>1. /\ s.pool = None => t.bal[a] = None /\ t.orders[a] = None
        /\ ~IsOpen(t.orders[a]) /\ t.held.names = s.held.names
        /\ \A b \in Users \ {a} : t.bal[b] = s.bal[b] /\ t.orders[b] = s.orders[b] /\ t.fund[b] = s.fund[b]
    BY <1>0, <1>1, <1>3
  <2> HIDE DEF d
  <2> QED BY <1>1, <1>4, <1>5, <1>6, <1>7, <2>1, RowsStep
<1> QED BY <1>1, <1>8 DEF t

(* Tokens come into the fund of a from outside, or leave it. *)
LEMMA FundStep ==
  ASSUME now \in Int, NEW s, Books(s, now), NEW a \in Users, NEW f \in Nat, NEW h \in Int,
         h = s.held.rex + (f - s.fund[a])
  PROVE  Step(s, [s EXCEPT !.fund[a] = f, !.held.rex = h], a, 0)
<1> DEFINE fu == [s.fund EXCEPT ![a] = f]
           he == [s.held EXCEPT !.rex = h]
           t == [s EXCEPT !.fund = fu, !.held = he]
<1>0. /\ s \in TableSet /\ RowOK(s.bal[a]) /\ s.orders[a] \in Orders \cup {None} /\ s.fund[a] \in Nat
      /\ s.pool = None => s.bal[a] = None /\ s.orders[a] = None
      /\ IsOpen(s.orders[a]) =>
           /\ s.bal[a] # None /\ s.orders[a].requested <= s.bal[a].matured /\ s.orders[a].time <= now
           /\ \A k \in Kinds : \A l \in s.loans[k] : l.expiration <= s.orders[a].time + LoanTerm
      /\ Owing(s.orders[a]) \in Nat
  BY OrderFacts
<1>1. s.fund \in [Users -> Nat] /\ s.held \in [rex : Int, names : Int, ramfee : Int]
  BY <1>0, TableFields
<1>2. fu \in [Users -> Nat] /\ fu[a] = f /\ \A c \in Users \ {a} : fu[c] = s.fund[c]
  BY <1>1
<1>3. he \in [rex : Int, names : Int, ramfee : Int] /\ he.rex = h /\ he.names = s.held.names
  BY <1>1
<1>4. [s EXCEPT !.fund[a] = f, !.held.rex = h] = t
  OBVIOUS
<1>12. t = [s EXCEPT !.fund = fu, !.held = he]
  OBVIOUS
<1> HIDE DEF fu, he, t
<1>5. t = [pool |-> s.pool, fund |-> fu, bal |-> s.bal, loans |-> s.loans, orders |-> s.orders, held |-> he,
           res |-> s.res]
  BY <1>0, <1>12 DEF TableSet
<1>6. t \in TableSet
  BY <1>0, <1>2, <1>3, <1>5, TableFields DEF TableSet
<1>7. t.held.rex = (s.held.rex + (t.fund[a] - s.fund[a])) + (Owing(t.orders[a]) - Owing(s.orders[a]))
  BY <1>0, <1>1, <1>2, <1>3, <1>5
<1>8. StakeIn(t, a) = StakeIn(s, a) + 0
  BY <1>0, <1>5, StakeType DEF StakeIn
<1>9. Keeps(s.bal[a], t.bal[a]) /\ RexIn(t.bal[a]) = RexIn(s.bal[a]) /\ RowOK(t.bal[a])
  BY <1>0, <1>5, KeepsSame
<1>10. /\ 0 \in Int /\ t.held.names = s.held.names /\ t.pool = s.pool /\ t.loans = s.loans /\ t.res = s.res
       /\ \A b \in Users \ {a} : t.bal[b] = s.bal[b] /\ t.orders[b] = s.orders[b] /\ t.fund[b] = s.fund[b]
       /\ NoIdleStake(s.bal[a]) => NoIdleStake(t.bal[a])
       /\ s.pool = None => t.bal[a] = None /\ t.orders[a] = None
       /\ IsOpen(t.orders[a]) =>
           /\ t.bal[a] # None /\ t.orders[a].requested <= t.bal[a].matured /\ t.orders[a].time <= now
           /\ \A k \in Kinds : \A l \in s.loans[k] : l.expiration <= t.orders[a].time + LoanTerm
  BY <1>0, <1>2, <1>3, <1>5
<1>11. Step(s, t, a, 0)
  BY <1>6, <1>7, <1>8, <1>9, <1>10, RowsStep
<1> QED BY <1>4, <1>11

(* A part of an action that changes loans and keeps the rows of all accounts *)
LEMMA LoanStep ==
  ASSUME now \in Int, NEW s, Books(s, now), NEW t, Books(t, now), NEW a \in Users, s.pool # None, t.pool # None,
         s.pool.lendable <= t.pool.lendable, t.pool.total_rex = s.pool.total_rex,
         t.pool.proceeds = s.pool.proceeds, t.bal = s.bal, t.orders = s.orders, t.held = s.held,
         \A k \in Kinds, c \in Accounts : Delegations(t, k, c) = Delegations(s, k, c)
  PROVE  Step(s, t, a, 0)
<1>1. s \in TableSet /\ t \in TableSet
  BY DEF Books
<1>2. s.pool \in Pools /\ t.pool \in Pools
  BY <1>1, TableFields
<1>3. s.pool.lendable \in Nat /\ t.pool.lendable \in Nat /\ s.pool.total_rex \in Nat
  BY <1>2, PoolFields
<1>4. s.pool.lendable * s.pool.total_rex <= t.pool.lendable * s.pool.total_rex
  BY <1>3, Times_
<1>5. Price(s, t)
  BY <1>4 DEF Price, TotalRex, Lendable, Cheaper
<1>6. Waiting(t) = Waiting(s)
  BY DEF Waiting
<1>7. \A b \in Users \ {a} : Same(s, t, b)
  BY DEF Same, StakeIn
<1>8. StakeIn(t, a) = StakeIn(s, a) + 0
  BY <1>1, StakeType DEF StakeIn
<1>9. Keeps(s.bal[a], t.bal[a])
  BY KeepsSame
<1> QED BY <1>5, <1>6, <1>7, <1>8, <1>9 DEF Step

(* rent_rex: a loan is made, paid for and funded from the fund of a. *)
LEMMA RentStep ==
  ASSUME now \in Int, NEW s, Books(s, now), s.pool # None, NEW k \in Kinds, NEW a \in Users, NEW receiver \in Accounts,
         NEW payment \in Nat \ {0}, NEW lf \in Nat, rex_loans_available(s), payment + lf <= s.fund[a],
         NEW rented, rented = get_bancor_output(s.pool.rent, s.pool.unlent, payment), payment < rented,
         NEW p, p = add_loan_to_rex_pool(s.pool, payment, rented, 1),
         NEW loan, loan = [num |-> p.loan_num, from |-> a, receiver |-> receiver, payment |-> payment,
                           balance |-> lf, staked |-> rented, expiration |-> now + LoanTerm]
  PROVE  Step(s, [s EXCEPT !.pool = p, !.fund[a] = @ - payment - lf, !.loans[k] = @ \cup {loan},
                           !.res[k][receiver] = @ + rented], a, 0)
<1> DEFINE t == [s EXCEPT !.pool = p, !.fund[a] = @ - payment - lf, !.loans[k] = @ \cup {loan},
                          !.res[k][receiver] = @ + rented]
           fu == [s.fund EXCEPT ![a] = @ - payment - lf]
           lo == [s.loans EXCEPT ![k] = @ \cup {loan}]
           rk == [s.res[k] EXCEPT ![receiver] = @ + rented]
           re == [s.res EXCEPT ![k] = rk]
<1>0. s \in TableSet
  BY DEF Books
<1>1. /\ s.pool \in Pools /\ s.fund \in [Users -> Nat] /\ s.loans \in [Kinds -> SUBSET Loans]
      /\ s.res \in [Kinds -> [Accounts -> Int]]
  BY <1>0, TableFields
<1>2. \A j \in Kinds : s.loans[j] \in SUBSET Loans /\ IsFiniteSet(s.loans[j])
  BY <1>1 DEF Books, LoansOK
<1>3. rented \in Nat /\ rented <= s.pool.unlent /\ rented > 0
  BY <1>1, RentedType
<1>4. /\ p \in Pools /\ p.unlent = (s.pool.unlent - rented) + payment /\ p.lent = s.pool.lent + rented
      /\ p.lendable = (s.pool.unlent + payment) + s.pool.lent /\ p.total_rex = s.pool.total_rex
      /\ p.proceeds = s.pool.proceeds /\ p.loan_num = s.pool.loan_num + 1
  <2>1. s.pool \in Pools /\ payment \in Nat /\ rented \in Nat /\ rented <= s.pool.unlent /\ 1 \in Nat
    BY <1>1, <1>3
  <2> QED BY <2>1, LoanAdded
<1>5. /\ s.pool.unlent \in Nat /\ s.pool.lent \in Nat /\ s.pool.lendable \in Nat /\ s.pool.loan_num \in Nat
      /\ p.loan_num \in Nat /\ s.pool.lendable = s.pool.unlent + s.pool.lent /\ p # None
      /\ s.pool.total_rex \in Nat /\ s.pool.proceeds \in Nat
  BY <1>1, <1>4, PoolFields DEF Books, PoolOK
<1>6. s.pool.total_rex > 0 /\ s.pool.lendable > 0 /\ \A b \in Users : ~IsOpen(s.orders[b])
  BY <1>5 DEF rex_loans_available, rex_available, Books, PoolOK
<1>7. /\ loan \in Loans /\ loan.num = s.pool.loan_num + 1 /\ loan.receiver = receiver /\ loan.staked = rented
      /\ loan.balance = lf /\ loan.expiration = now + LoanTerm
  BY <1>3, <1>4, <1>5, RexAssumption DEF Loans
<1>8. \A l \in s.loans[k] : l.num < loan.num /\ l.num \in Nat /\ l.expiration <= now + LoanTerm
  <2> TAKE l \in s.loans[k]
  <2>1. l \in Loans
    BY <1>1
  <2>2. l.num \in Nat
    BY <2>1 DEF Loans
  <2> QED BY <1>5, <1>7, <2>2 DEF Books, LoansOK
<1>9. loan \notin s.loans[k]
  BY <1>7, <1>8, <1>5
<1>10. /\ fu \in [Users -> Nat] /\ fu[a] = s.fund[a] - payment - lf
       /\ \A c \in Users \ {a} : fu[c] = s.fund[c]
  <2>1. s.fund[a] - payment - lf \in Nat
    BY <1>1
  <2> QED BY <1>1, <2>1
<1>11. /\ lo \in [Kinds -> SUBSET Loans] /\ lo[k] = s.loans[k] \cup {loan}
       /\ \A j \in Kinds \ {k} : lo[j] = s.loans[j]
  BY <1>1, <1>7
<1>12. /\ re \in [Kinds -> [Accounts -> Int]]
       /\ \A c \in Accounts : re[k][c] = s.res[k][c] + (IF receiver = c THEN rented ELSE 0)
       /\ \A j \in Kinds \ {k} : re[j] = s.res[j]
  BY <1>1, <1>3
<1>13. t = [pool |-> p, fund |-> fu, bal |-> s.bal, loans |-> lo, orders |-> s.orders, held |-> s.held, res |-> re]
  <2>1. t = [s EXCEPT !.pool = p, !.fund = fu, !.loans = lo, !.res = re]
    BY <1>0 DEF TableSet
  <2> HIDE DEF t, fu, lo, re
  <2> QED BY <1>0, <2>1 DEF TableSet
<1> HIDE DEF t, fu, lo, re
<1>14. t \in TableSet
  BY <1>0, <1>4, <1>10, <1>11, <1>12, <1>13, TableFields DEF TableSet
<1>15. IsFiniteSet(t.loans[k]) /\ \A f \in [Loans -> Int] :
         SumFunctionOnSet(f, t.loans[k]) = SumFunctionOnSet(f, s.loans[k]) + f[loan]
  <2> DEFINE L == s.loans[k]
             M == t.loans[k]
  <2>1. M = L \cup {loan} /\ loan \notin L /\ loan \in Loans /\ L \in SUBSET Loans /\ IsFiniteSet(L)
    BY <1>1, <1>2, <1>7, <1>9, <1>11, <1>13
  <2> HIDE DEF L, M
  <2>2. IsFiniteSet(M)
    BY <2>1, FS_AddElement
  <2>3. ASSUME NEW f \in [Loans -> Int]
        PROVE  SumFunctionOnSet(f, M) = SumFunctionOnSet(f, L) + f[loan]
    BY <2>1, <2>3, SumInsert
  <2> QED BY <2>2, <2>3 DEF L, M
<1>16. Books(t, now)
  <2>1. Funds(t) = Funds(s) + (-payment - lf)
    <3>1. \A b \in Users \ {a} : t.fund[b] = s.fund[b]
      BY <1>10, <1>13
    <3>2. Funds(s) \in Int /\ Funds(t) = Funds(s) + (t.fund[a] - s.fund[a])
      BY <1>0, <1>14, <3>1, FundsChange
    <3>3. t.fund[a] = s.fund[a] - payment - lf /\ s.fund[a] \in Nat
      BY <1>1, <1>10, <1>13
    <3> QED BY <3>2, <3>3
  <2>2. /\ SumFunctionOnSet(StakedOf, t.loans[k]) = SumFunctionOnSet(StakedOf, s.loans[k]) + rented
        /\ SumFunctionOnSet(BalanceOf, t.loans[k]) = SumFunctionOnSet(BalanceOf, s.loans[k]) + lf
    <3>1. StakedOf \in [Loans -> Int] /\ BalanceOf \in [Loans -> Int] /\ StakedOf[loan] = rented /\ BalanceOf[loan] = lf
      BY <1>7, LoanAmounts
    <3> QED BY <1>15, <3>1
  <2>3. ASSUME NEW l \in t.loans[k]
        PROVE  /\ l.num <= t.pool.loan_num /\ l.expiration <= now + LoanTerm
               /\ \A m \in t.loans[k] : l.num = m.num => l = m
               /\ \A b \in Users : IsOpen(s.orders[b]) => l.expiration <= s.orders[b].time + LoanTerm
    <3>1. t.loans[k] = s.loans[k] \cup {loan} /\ t.pool.loan_num = loan.num /\ loan.num \in Nat
      BY <1>4, <1>5, <1>7, <1>11, <1>13
    <3>2. \A m \in s.loans[k] : m.num # loan.num
      BY <1>8, <3>1
    <3>3. CASE l \in s.loans[k]
      <4>1. \A m \in s.loans[k] : l.num = m.num => l = m
        BY <3>3 DEF Books, LoansOK
      <4> QED BY <1>6, <1>8, <3>1, <3>2, <3>3, <4>1
    <3>4. CASE l = loan
      <4>1. loan.num <= loan.num /\ loan.expiration <= now + LoanTerm
        BY <1>7, <3>1, RexAssumption
      <4> QED BY <1>6, <3>1, <3>2, <3>4, <4>1
    <3> QED BY <3>1, <3>3, <3>4
  <2>4. /\ s.pool.lendable = t.pool.lendable + (lf + (-payment - lf)) /\ -payment - lf \in Int /\ lf \in Int /\ rented \in Int
        /\ (t.pool.lendable = 0 <=> s.pool.lendable = 0) /\ t.pool.loan_num >= s.pool.loan_num
        /\ t.pool.lent = s.pool.lent + rented /\ t.pool.lendable = t.pool.unlent + t.pool.lent
    BY <1>3, <1>4, <1>5, <1>6, <1>13
  <2>5. /\ \A j \in Kinds \ {k} : t.loans[j] = s.loans[j]
        /\ t.bal = s.bal /\ t.orders = s.orders /\ t.held = s.held
        /\ t.pool.total_rex = s.pool.total_rex /\ t.pool.proceeds = s.pool.proceeds /\ t.pool # None
    BY <1>4, <1>5, <1>11, <1>13
  <2> QED BY <1>14, <1>15, <2>1, <2>2, <2>3, <2>4, <2>5, LoanBooks DEF LoanChange
<1>17. \A j \in Kinds, c \in Accounts : Delegations(t, j, c) = Delegations(s, j, c)
  <2> TAKE j \in Kinds, c \in Accounts
  <2>1. CASE j # k
    BY <1>11, <1>12, <1>13, <2>1 DEF Delegations
  <2>2. CASE j = k
    <3>1. /\ StakedFor(c) \in [Loans -> Int] /\ SumFunctionOnSet(StakedFor(c), s.loans[k]) \in Int
          /\ StakedFor(c)[loan] = (IF receiver = c THEN rented ELSE 0)
      BY <1>2, <1>7, LoanAmounts, SumType
    <3>2. t.res[k][c] = s.res[k][c] + StakedFor(c)[loan] /\ s.res[k][c] \in Int /\ StakedFor(c)[loan] \in Int
      BY <1>1, <1>3, <1>12, <1>13, <3>1
    <3>3. SumFunctionOnSet(StakedFor(c), t.loans[k]) = SumFunctionOnSet(StakedFor(c), s.loans[k]) + StakedFor(c)[loan]
      BY <1>15, <3>1
    <3> QED BY <2>2, <3>1, <3>2, <3>3 DEF Delegations
  <2> QED BY <2>1, <2>2
<1>18. /\ t.bal = s.bal /\ t.orders = s.orders /\ t.held = s.held /\ t.pool # None
       /\ s.pool.lendable <= t.pool.lendable /\ t.pool.total_rex = s.pool.total_rex
       /\ t.pool.proceeds = s.pool.proceeds
  BY <1>4, <1>5, <1>13
<1>19. Step(s, t, a, 0)
  BY <1>16, <1>17, <1>18, LoanStep
<1> QED BY <1>19 DEF t

(* fund_rex_loan and defund_rex_loan: tokens move between the fund of the owner
   of a loan and its balance. *)
LEMMA LoanFundStep ==
  ASSUME now \in Int, NEW s, Books(s, now), NEW k \in Kinds, NEW loan \in s.loans[k], NEW f \in Nat, NEW w \in Nat,
         f + w = s.fund[loan.from] + loan.balance
  PROVE  /\ loan.from \in Users
         /\ Step(s, [s EXCEPT !.fund[loan.from] = f,
                              !.loans[k] = (@ \ {loan}) \cup {[loan EXCEPT !.balance = w]}], loan.from, 0)
<1> DEFINE a == loan.from
           new == [loan EXCEPT !.balance = w]
           t == [s EXCEPT !.fund[a] = f, !.loans[k] = (@ \ {loan}) \cup {new}]
           fu == [s.fund EXCEPT ![a] = f]
           lo == [s.loans EXCEPT ![k] = (@ \ {loan}) \cup {new}]
<1>0. s \in TableSet /\ s.pool # None
  BY DEF Books, LoansOK
<1>1. s.pool \in Pools /\ s.fund \in [Users -> Nat] /\ s.loans \in [Kinds -> SUBSET Loans]
  BY <1>0, TableFields
<1>2. \A j \in Kinds : s.loans[j] \in SUBSET Loans /\ IsFiniteSet(s.loans[j])
  BY <1>1 DEF Books, LoansOK
<1>3. /\ loan \in Loans /\ a \in Users /\ loan.receiver \in Accounts /\ loan.staked \in Nat \ {0}
      /\ loan.balance \in Nat /\ loan.payment \in Nat \ {0} /\ loan.expiration \in Int /\ loan.num \in Nat
  <2>1. loan \in Loans
    BY <1>1
  <2> QED BY <2>1 DEF Loans
<1>4. /\ new \in Loans /\ new.num = loan.num /\ new.receiver = loan.receiver /\ new.staked = loan.staked
      /\ new.balance = w /\ new.expiration = loan.expiration
  <2>1. new = [num |-> loan.num, from |-> loan.from, receiver |-> loan.receiver, payment |-> loan.payment,
               balance |-> w, staked |-> loan.staked, expiration |-> loan.expiration]
    BY <1>3 DEF Loans
  <2> HIDE DEF new
  <2>2. new \in Loans
    BY <1>3, <2>1 DEF Loans
  <2> QED BY <2>1, <2>2
<1>5. new \notin s.loans[k] \ {loan}
  BY <1>4 DEF Books, LoansOK
<1> HIDE DEF new
<1>6. fu \in [Users -> Nat] /\ fu[a] = f /\ \A c \in Users \ {a} : fu[c] = s.fund[c]
  BY <1>1, <1>3
<1>7. /\ lo \in [Kinds -> SUBSET Loans] /\ lo[k] = (s.loans[k] \ {loan}) \cup {new}
      /\ \A j \in Kinds \ {k} : lo[j] = s.loans[j]
  BY <1>1, <1>4
<1>8. t = [pool |-> s.pool, fund |-> fu, bal |-> s.bal, loans |-> lo, orders |-> s.orders, held |-> s.held, res |-> s.res]
  <2>1. t = [s EXCEPT !.fund = fu, !.loans = lo]
    BY <1>0 DEF TableSet
  <2> HIDE DEF t, fu, lo
  <2> QED BY <1>0, <2>1 DEF TableSet
<1> HIDE DEF t, fu, lo
<1>9. t \in TableSet
  BY <1>0, <1>6, <1>7, <1>8, TableFields DEF TableSet
<1>10. IsFiniteSet(t.loans[k]) /\ \A g \in [Loans -> Int] :
         SumFunctionOnSet(g, t.loans[k]) = (SumFunctionOnSet(g, s.loans[k]) - g[loan]) + g[new]
  <2> DEFINE S == s.loans[k]
  <2>1. S \in SUBSET Loans /\ IsFiniteSet(S) /\ loan \in S /\ new \in Loans /\ new \notin S \ {loan}
    BY <1>2, <1>4, <1>5
  <2>2. t.loans[k] = (S \ {loan}) \cup {new}
    BY <1>7, <1>8
  <2> HIDE DEF S
  <2>3. ASSUME NEW g \in [Loans -> Int]
        PROVE  /\ IsFiniteSet((S \ {loan}) \cup {new})
               /\ SumFunctionOnSet(g, (S \ {loan}) \cup {new}) = (SumFunctionOnSet(g, S) - g[loan]) + g[new]
    BY <2>1, SumSwap
  <2>4. BalanceOf \in [Loans -> Int]
    BY LoanAmounts
  <2>5. IsFiniteSet((S \ {loan}) \cup {new})
    BY <2>3, <2>4
  <2> QED BY <2>2, <2>3, <2>5, Zenon DEF S
<1>11. /\ s.pool.lendable \in Nat /\ s.pool.lent \in Nat /\ s.pool.loan_num \in Nat
       /\ s.pool.lendable = s.pool.unlent + s.pool.lent /\ t.pool = s.pool
  BY <1>0, <1>1, <1>8, PoolFields DEF Books, PoolOK
<1> HIDE DEF a
<1>12. Books(t, now)
  <2> DEFINE y == w - loan.balance
             z == f - s.fund[a]
             x == 0
  <2>1. Funds(t) = Funds(s) + z
    <3>1. \A b \in Users \ {a} : t.fund[b] = s.fund[b]
      BY <1>6, <1>8
    <3>2. Funds(s) \in Int /\ Funds(t) = Funds(s) + (t.fund[a] - s.fund[a])
      BY <1>0, <1>3, <1>9, <3>1, FundsChange
    <3> QED BY <1>6, <1>8, <3>2
  <2>2. /\ SumFunctionOnSet(StakedOf, t.loans[k]) = SumFunctionOnSet(StakedOf, s.loans[k]) + x
        /\ SumFunctionOnSet(BalanceOf, t.loans[k]) = SumFunctionOnSet(BalanceOf, s.loans[k]) + y
    <3>1. StakedOf \in [Loans -> Int] /\ BalanceOf \in [Loans -> Int]
      BY LoanAmounts
    <3>2. SumFunctionOnSet(StakedOf, s.loans[k]) \in Int /\ SumFunctionOnSet(BalanceOf, s.loans[k]) \in Int
      BY <1>2, <3>1, SumType
    <3>3. /\ StakedOf[loan] = loan.staked /\ BalanceOf[loan] = loan.balance
          /\ StakedOf[new] = loan.staked /\ BalanceOf[new] = w
      BY <1>3, <1>4, LoanAmounts
    <3> QED BY <1>3, <1>10, <3>1, <3>2, <3>3
  <2>3. ASSUME NEW l \in t.loans[k]
        PROVE  /\ l.num <= t.pool.loan_num /\ l.expiration <= now + LoanTerm
               /\ \A m \in t.loans[k] : l.num = m.num => l = m
               /\ \A b \in Users : IsOpen(s.orders[b]) => l.expiration <= s.orders[b].time + LoanTerm
    <3>1. t.loans[k] = (s.loans[k] \ {loan}) \cup {new}
      BY <1>7, <1>8
    <3>2. CASE l \in s.loans[k] \ {loan}
      BY <1>4, <1>11, <3>1, <3>2 DEF Books, LoansOK, OrdersOK
    <3>3. CASE l = new
      <4>1. \A m \in s.loans[k] \ {loan} : m.num # new.num
        BY <1>4 DEF Books, LoansOK
      <4>2. /\ loan.num <= s.pool.loan_num /\ loan.expiration <= now + LoanTerm
            /\ \A b \in Users : IsOpen(s.orders[b]) => loan.expiration <= s.orders[b].time + LoanTerm
        BY DEF Books, LoansOK, OrdersOK
      <4> QED BY <1>4, <1>11, <3>1, <3>3, <4>1, <4>2
    <3> QED BY <3>1, <3>2, <3>3
  <2>4. /\ s.pool.lendable = t.pool.lendable + (y + z) /\ y \in Int /\ z \in Int /\ x \in Int
        /\ t.pool.loan_num >= s.pool.loan_num
        /\ t.pool.lent = s.pool.lent + x /\ t.pool.lendable = t.pool.unlent + t.pool.lent
    <3>1. s.fund[a] \in Nat /\ f + w = s.fund[a] + loan.balance
      BY <1>1, <1>3 DEF a
    <3> QED BY <1>3, <1>11, <3>1
  <2>5. /\ \A j \in Kinds \ {k} : t.loans[j] = s.loans[j]
        /\ t.bal = s.bal /\ t.orders = s.orders /\ t.held = s.held
        /\ t.pool.total_rex = s.pool.total_rex /\ t.pool.proceeds = s.pool.proceeds /\ t.pool # None
        /\ (t.pool.lendable = 0 <=> s.pool.lendable = 0)
    BY <1>0, <1>7, <1>8
  <2> HIDE DEF y, z, x
  <2>6. \A l \in t.loans[k] :
           /\ l.num <= t.pool.loan_num /\ l.expiration <= now + LoanTerm
           /\ \A m \in t.loans[k] : l.num = m.num => l = m
           /\ \A b \in Users : IsOpen(s.orders[b]) => l.expiration <= s.orders[b].time + LoanTerm
    BY <2>3
  <2>7. IsFiniteSet(t.loans[k])
    BY <1>10
  <2>8. LoanChange(now, s, t, k, x, y, z)
    BY <1>0, <1>9, <2>1, <2>2, <2>4, <2>5, <2>6, <2>7 DEF LoanChange
  <2> QED BY <2>4, <2>8, LoanBooks
<1>13. \A j \in Kinds, c \in Accounts : Delegations(t, j, c) = Delegations(s, j, c)
  <2> TAKE j \in Kinds, c \in Accounts
  <2>1. CASE j # k
    BY <1>7, <1>8, <2>1 DEF Delegations
  <2>2. CASE j = k
    <3>1. /\ StakedFor(c) \in [Loans -> Int] /\ SumFunctionOnSet(StakedFor(c), s.loans[k]) \in Int
          /\ StakedFor(c)[loan] = StakedFor(c)[new] /\ StakedFor(c)[loan] \in Int
      BY <1>2, <1>3, <1>4, LoanAmounts, SumType
    <3>2. SumFunctionOnSet(StakedFor(c), t.loans[k]) = SumFunctionOnSet(StakedFor(c), s.loans[k])
      BY <1>10, <3>1
    <3> QED BY <1>8, <2>2, <3>2 DEF Delegations
  <2> QED BY <2>1, <2>2
<1>14. t.bal = s.bal /\ t.orders = s.orders /\ t.held = s.held /\ s.pool.lendable <= t.pool.lendable
  BY <1>8, <1>11
<1>15. Step(s, t, a, 0)
  BY <1>0, <1>3, <1>11, <1>12, <1>13, <1>14, LoanStep
<1> QED BY <1>3, <1>15 DEF t, a, new

-----------------------------------------------------------------------------
(* Purchases *)

(* From s to t REX gets no cheaper, if there is any in both. *)
Dearer(s, t) ==
  TotalRex(s) > 0 /\ TotalRex(t) > 0 => Cheaper(Lendable(s), TotalRex(s), Lendable(t), TotalRex(t))

(* REX can be bought for one token. *)
Affordable(p) == p # None => p.lendable <= p.total_rex

(* add_to_rex_pool: the payment is unlent, and the REX that is added is worth
   no more than that. *)
LEMMA PoolGrown ==
  ASSUME NEW n \in Int, NEW s, Books(s, n), NEW payment \in Nat \ {0}
  PROVE  LET p == add_to_rex_pool(s.pool, payment)
         IN  /\ p \in Pools /\ p.lendable = Lendable(s) + payment /\ p.lent = LentOf(s)
             /\ p.lendable = p.unlent + p.lent /\ p.total_rex >= TotalRex(s) /\ p.total_rex > 0
             /\ s.pool # None => p.loan_num = s.pool.loan_num /\ p.proceeds = s.pool.proceeds
             /\ s.pool = None => p.proceeds = 0
             /\ TotalRex(s) > 0 => Cheaper(Lendable(s), TotalRex(s), p.lendable, p.total_rex)
             /\ Affordable(s.pool) => p.total_rex > TotalRex(s)
<1> DEFINE p == add_to_rex_pool(s.pool, payment)
           x == payment * RexRatio
<1>0. s \in TableSet /\ s.pool \in Pools \cup {None}
  BY TableFields DEF Books
<1>1. x \in Nat /\ x > 0 /\ InitRent \in Nat
  BY RexAssumption
<1>2. NewPool(payment) = [lent |-> 0, unlent |-> payment, rent |-> InitRent, lendable |-> payment,
                          total_rex |-> x, proceeds |-> 0, loan_num |-> 0]
  BY DEF NewPool
<1> HIDE DEF x
<1>3. CASE s.pool = None
  <2>1. p = NewPool(payment)
    BY <1>3 DEF add_to_rex_pool
  <2> HIDE DEF p
  <2>2. p \in Pools
    BY <1>1, <1>2, <2>1 DEF Pools
  <2>3. Lendable(s) = 0 /\ LentOf(s) = 0 /\ TotalRex(s) = 0
    BY <1>3 DEF Lendable, LentOf, TotalRex
  <2> QED BY <1>1, <1>2, <1>3, <2>1, <2>2, <2>3 DEF p
<1>4. CASE s.pool # None /\ ~rex_available(s.pool)
  <2> DEFINE pr == s.pool.proceeds
             ln == s.pool.loan_num
  <2>0. s.pool \in Pools /\ pr \in Nat /\ ln \in Nat /\ s.pool.total_rex \in Nat /\ s.pool.lendable \in Nat
        /\ s.pool.unlent \in Nat /\ s.pool.lent \in Nat
    BY <1>0, <1>4, PoolFields
  <2>1. p = [NewPool(payment) EXCEPT !.proceeds = pr, !.loan_num = ln]
    BY <1>4 DEF add_to_rex_pool
  <2>2. s.pool.total_rex = 0 /\ s.pool.lendable = 0 /\ s.pool.lendable = s.pool.unlent + s.pool.lent
    BY <1>4, <2>0 DEF rex_available, Books, PoolOK
  <2>3. s.pool.lent = 0
    BY <2>0, <2>2
  <2> HIDE DEF p, pr, ln
  <2> DEFINE np == NewPool(payment)
  <2>7. p = [np EXCEPT !.proceeds = pr, !.loan_num = ln]
    BY <2>1
  <2>8. np = [lent |-> 0, unlent |-> payment, rent |-> InitRent, lendable |-> payment,
              total_rex |-> x, proceeds |-> 0, loan_num |-> 0]
    BY <1>2
  <2> HIDE DEF np
  <2>4. p = [lent |-> 0, unlent |-> payment, rent |-> InitRent, lendable |-> payment,
             total_rex |-> x, proceeds |-> pr, loan_num |-> ln]
    BY <2>7, <2>8
  <2>5. p \in Pools
    BY <1>1, <2>0, <2>4 DEF Pools
  <2>6. Lendable(s) = 0 /\ LentOf(s) = 0 /\ TotalRex(s) = 0
    BY <1>4, <2>2, <2>3 DEF Lendable, LentOf, TotalRex
  <2> QED BY <1>1, <1>4, <2>4, <2>5, <2>6 DEF p, pr, ln
<1>5. CASE s.pool # None /\ rex_available(s.pool)
  <2> DEFINE L == s.pool.lendable
             T == s.pool.total_rex
             S1 == L + payment
             ul == S1 - s.pool.lent
             q == (S1 * T) \div L
  <2>0. /\ s.pool \in Pools /\ L \in Nat /\ T \in Nat /\ T > 0
        /\ s.pool.unlent \in Nat /\ s.pool.lent \in Nat /\ s.pool.lendable = s.pool.unlent + s.pool.lent
    BY <1>0, <1>5, PoolFields DEF rex_available, Books, PoolOK
  <2>1. L > 0
    BY <1>5, <2>0 DEF Books, PoolOK
  <2>2. p = [s.pool EXCEPT !.lendable = S1, !.unlent = ul, !.total_rex = q]
    BY <1>5, <2>0 DEF add_to_rex_pool, Pools
  <2>3. S1 \in Nat /\ ul \in Nat
    BY <2>0
  <2>4. q \in Nat /\ T <= q /\ L * q <= S1 * T /\ (L <= T => T < q)
    BY <2>0, <2>1, Grown, SMTT(30)
  <2>5. Lendable(s) = L /\ LentOf(s) = s.pool.lent /\ TotalRex(s) = T
    BY <1>5 DEF Lendable, LentOf, TotalRex
  <2> HIDE DEF p, q, ul
  <2>6. p = [lent |-> s.pool.lent, unlent |-> ul, rent |-> s.pool.rent, lendable |-> S1,
             total_rex |-> q, proceeds |-> s.pool.proceeds, loan_num |-> s.pool.loan_num]
    BY <2>0, <2>2 DEF Pools
  <2>7. p \in Pools
    BY <2>0, <2>3, <2>4, <2>6, PoolFields DEF Pools
  <2>8. Cheaper(Lendable(s), TotalRex(s), p.lendable, p.total_rex)
    BY <2>4, <2>5, <2>6 DEF Cheaper
  <2>9. p.lendable = p.unlent + p.lent
    BY <2>0, <2>6 DEF ul
  <2>10. p.total_rex >= TotalRex(s) /\ p.total_rex > 0 /\ (Affordable(s.pool) => p.total_rex > TotalRex(s))
    BY <1>5, <2>0, <2>4, <2>5, <2>6 DEF Affordable
  <2> QED BY <1>5, <2>5, <2>6, <2>7, <2>8, <2>9, <2>10 DEF p
<1> QED BY <1>3, <1>4, <1>5

(* The times at which REX of an owner ripens after it bought x at time n *)
Later(u, w, n, x) ==
  \A m \in Maturities : w[m] = IF m <= n THEN 0 ELSE u[m] + IF m = get_rex_maturity(n) THEN x ELSE 0

(* The row of an owner with x more REX, whose REX is worth v *)
Richer(b, x, v) == [b EXCEPT !.rex = @ + x, !.vote_stake = v]

(* add_to_rex_balance: what was bought is in the bucket of now. *)
LEMMA RowBought ==
  ASSUME NEW n \in Times, NEW old \in Balances, RowOK(old), NEW x \in Nat, NEW v \in Int,
         NEW row, row = Richer(old, x, v)
  PROVE  LET c == InBucket(process_rex_maturities(row, n), n, x)
         IN  /\ c \in Balances /\ RowOK(c) /\ c.rex = old.rex + x /\ c.vote_stake = v /\ c.matured >= old.matured
             /\ \A u \in [Maturities -> Nat], w \in [Maturities -> Nat] :
                  RipensIn(old, u, n) /\ Later(u, w, n, x) => RipensIn(c, w, n)
<1> DEFINE b == process_rex_maturities(row, n)
           b0 == process_rex_maturities(old, n)
           c == InBucket(b, n, x)
           M == get_rex_maturity(n)
           rx == old.rex + x
<1>0. /\ old.vote_stake \in Int /\ old.rex \in Nat /\ old.matured \in Nat /\ old.buckets \in [Maturities -> Nat]
      /\ old.savings \in Nat /\ n \in Int
  BY RowFields, TimeAssumption DEF Times
<1>11. row = [old EXCEPT !.rex = rx, !.vote_stake = v] /\ rx \in Nat
  BY <1>0 DEF Richer
<1> HIDE DEF rx
<1>1. row = [vote_stake |-> v, rex |-> rx, matured |-> old.matured, buckets |-> old.buckets, savings |-> old.savings]
      /\ rx \in Nat
  BY <1>11 DEF Balances
<1>2. row \in Balances
  BY <1>0, <1>1 DEF Balances
<1>3. \A u \in [Maturities -> Nat] :
        /\ Rearranged(old, b0, 0) /\ b0.savings = old.savings /\ b0.matured >= old.matured
        /\ RipensIn(old, u, n) => RipensIn(b0, u, n)
  BY RowMatures
<1>4. Rearranged(row, b, 0)
  <2>1. [m \in Maturities |-> 0] \in [Maturities -> Nat]
    OBVIOUS
  <2> QED BY <1>2, <2>1, RowMatures
<1>5. b0 \in Balances /\ RowOK(b0) /\ b0.rex = old.rex /\ b0.savings = old.savings /\ b0.matured >= old.matured
  <2>1. [m \in Maturities |-> 0] \in [Maturities -> Nat]
    OBVIOUS
  <2> QED BY <1>3, <2>1 DEF Rearranged
<1>6. b.matured = b0.matured /\ b.buckets = b0.buckets /\ b.savings = b0.savings
  <2> DEFINE ma == old.matured + SumFunctionOnSet(old.buckets, {m \in Maturities : m <= n})
             bu == [m \in Maturities |-> IF m <= n THEN 0 ELSE old.buckets[m]]
  <2>1. b0 = [old EXCEPT !.matured = ma, !.buckets = bu]
    BY DEF process_rex_maturities
  <2>2. row.matured = old.matured /\ row.buckets = old.buckets /\ row.savings = old.savings
    BY <1>1
  <2>3. b = [row EXCEPT !.matured = ma, !.buckets = bu]
    <3> DEFINE ma1 == row.matured + SumFunctionOnSet(row.buckets, {m \in Maturities : m <= n})
               bu1 == [m \in Maturities |-> IF m <= n THEN 0 ELSE row.buckets[m]]
    <3>1. b = [row EXCEPT !.matured = ma1, !.buckets = bu1]
      BY DEF process_rex_maturities
    <3>2. ma1 = ma
      BY <2>2
    <3>3. bu1 = bu
      BY <2>2
    <3> HIDE DEF ma, bu, ma1, bu1, b
    <3> QED BY <3>1, <3>2, <3>3
  <2> HIDE DEF ma, bu, b, b0
  <2> QED BY <1>2, <2>1, <2>2, <2>3 DEF Balances
<1> HIDE DEF b, b0
<1>7. b \in Balances /\ b.rex = rx /\ b.vote_stake = v
  BY <1>1, <1>4 DEF Rearranged
<1>8. /\ c \in Balances /\ c.rex = b.rex /\ c.vote_stake = b.vote_stake /\ c.matured = b.matured
      /\ c.savings = b.savings
      /\ SumFunctionOnSet(c.buckets, Maturities) = SumFunctionOnSet(b.buckets, Maturities) + x
      /\ \A t \in Maturities : SumFunctionOnSet(c.buckets, After(t)) =
           SumFunctionOnSet(b.buckets, After(t)) + IF M > t THEN x ELSE 0
  BY <1>7, BucketFilled
<1> HIDE DEF c
<1>9. RowOK(c)
  <2>1. b0.rex = b0.matured + SumFunctionOnSet(b0.buckets, Maturities) + b0.savings
    BY <1>5, RowFields DEF RowOK
  <2>2. b0.matured \in Nat /\ b0.savings \in Nat /\ b0.buckets \in [Maturities -> Nat]
    BY <1>5, RowFields
  <2>3. SumFunctionOnSet(b0.buckets, Maturities) \in Nat
    BY <1>0, <2>2, AfterSums
  <2>4. SumFunctionOnSet(b.buckets, Maturities) = SumFunctionOnSet(b0.buckets, Maturities)
    BY <1>6, Zenon
  <2> QED BY <1>0, <1>5, <1>6, <1>7, <1>8, <2>1, <2>2, <2>3, <2>4 DEF RowOK, rx
<1>10. ASSUME NEW u \in [Maturities -> Nat], NEW w \in [Maturities -> Nat], RipensIn(old, u, n), Later(u, w, n, x)
       PROVE  RipensIn(c, w, n)
  <2>1. M \in Maturities /\ M > n
    BY MaturityIs
  <2>2. \A m \in Maturities : w[m] = IF m <= n THEN 0 ELSE u[m] + IF m = M THEN x ELSE 0
    BY <1>10 DEF Later
  <2>3. RipensIn(b0, u, n)
    BY <1>3, <1>10
  <2>4. /\ \A m \in Maturities : m > M => u[m] = 0
        /\ \A t \in Maturities : t >= n =>
             SumFunctionOnSet(u, After(t)) <= b0.savings + SumFunctionOnSet(b0.buckets, After(t))
    BY <1>5, <2>3, RowFields DEF RipensIn, SavingsIn, BucketsIn
  <2> HIDE DEF M
  <2>5. \A m \in Maturities : m > M => w[m] = 0
    <3> TAKE m \in Maturities
    <3>1. m \in Int /\ M \in Int /\ u[m] \in Nat
      BY <2>1, MaturitiesFinite
    <3> QED BY <1>0, <2>1, <2>2, <2>4, <3>1
  <2>6. ASSUME NEW t \in Maturities, t >= n
        PROVE  SumFunctionOnSet(w, After(t)) <= c.savings + SumFunctionOnSet(c.buckets, After(t))
    <3> DEFINE z == [u EXCEPT ![M] = @ + x]
               d == [EmptyBalance EXCEPT !.buckets = u]
               e == InBucket(d, n, x)
    <3>1. z \in [Maturities -> Nat] /\ \A m \in Maturities : z[m] = u[m] + IF m = M THEN x ELSE 0
      BY <2>1
    <3>2. d = [vote_stake |-> 0, rex |-> 0, matured |-> 0, buckets |-> u, savings |-> 0]
      BY DEF EmptyBalance
    <3>3. d \in Balances
      BY <3>2 DEF Balances
    <3>4. e.buckets = z
      BY <3>2 DEF InBucket, M
    <3> HIDE DEF d, z
    <3>5. SumFunctionOnSet(e.buckets, After(t)) = SumFunctionOnSet(d.buckets, After(t)) + IF M > t THEN x ELSE 0
      BY <3>3, BucketFilled DEF M
    <3>6. d.buckets = u
      BY <3>2
    <3>7. SumFunctionOnSet(z, After(t)) = SumFunctionOnSet(u, After(t)) + IF M > t THEN x ELSE 0
      <4> HIDE DEF e
      <4> QED BY <3>4, <3>5, <3>6, Zenon
    <3>8. After(t) \in SUBSET Maturities /\ IsFiniteSet(After(t)) /\ t \in Int
      BY MaturitiesFinite
    <3>9. \A m \in After(t) : w[m] = z[m]
      <4> TAKE m \in After(t)
      <4>1. m \in Maturities /\ m > t /\ m \in Int
        BY MaturitiesFinite DEF After
      <4>2. ~(m <= n)
        BY <1>0, <2>6, <3>8, <4>1
      <4> QED BY <2>2, <3>1, <4>1, <4>2
    <3>10. SumFunctionOnSet(w, After(t)) = SumFunctionOnSet(z, After(t))
      BY <3>1, <3>9, SameAfter
    <3>11. SumFunctionOnSet(c.buckets, After(t)) = SumFunctionOnSet(b0.buckets, After(t)) + IF M > t THEN x ELSE 0
      <4>1. SumFunctionOnSet(c.buckets, After(t)) = SumFunctionOnSet(b.buckets, After(t)) + IF M > t THEN x ELSE 0
        BY <1>8 DEF M
      <4> QED BY <1>6, <4>1, Zenon
    <3>12. SumFunctionOnSet(u, After(t)) \in Nat /\ SumFunctionOnSet(b0.buckets, After(t)) \in Nat /\ b0.savings \in Nat
      BY <1>5, <3>8, AfterSums, RowFields
    <3>13. SumFunctionOnSet(u, After(t)) <= b0.savings + SumFunctionOnSet(b0.buckets, After(t)) /\ c.savings = b0.savings
      BY <1>6, <1>8, <2>4, <2>6
    <3> QED BY <3>7, <3>10, <3>11, <3>12, <3>13
  <2>7. SavingsIn(c) = c.savings /\ BucketsIn(c) = c.buckets
    BY <1>8, RowFields DEF SavingsIn, BucketsIn
  <2> QED BY <2>5, <2>6, <2>7 DEF RipensIn, M
<1> QED BY <1>5, <1>6, <1>7, <1>8, <1>9, <1>10 DEF c, b, rx

(* What a purchase of a does to the tables s0, from whose fund or from outside
   the payment came *)
Buys(s0, t, a) ==
  /\ Books(t, now) /\ Waiting(t) = Waiting(s0) /\ Dearer(s0, t) /\ TotalRex(t) > 0 /\ t.pool # None
  /\ t.loans = s0.loans /\ t.orders = s0.orders
  /\ \A b \in Users \ {a} : t.bal[b] = s0.bal[b]
  /\ t.bal[a] \in Balances /\ t.bal[a].rex >= RexIn(s0.bal[a])
  /\ Affordable(s0.pool) => t.bal[a].rex > 0
  /\ \A u \in [Maturities -> Nat], w \in [Maturities -> Nat] :
       RipensIn(s0.bal[a], u, now) /\ Later(u, w, now, t.bal[a].rex - RexIn(s0.bal[a])) => RipensIn(t.bal[a], w, now)

(* add_to_rex_pool and add_to_rex_balance *)
LEMMA BoughtIs ==
  ASSUME now \in Times, NEW s0, Books(s0, now), NEW s \in TableSet, NEW a \in Users, NEW payment \in Nat \ {0},
         s.pool = s0.pool, s.bal = s0.bal, s.loans = s0.loans, s.orders = s0.orders, s.held.names = s0.held.names,
         \A b \in Users \ {a} : s.fund[b] = s0.fund[b],
         s.held.rex = (s0.held.rex + (s.fund[a] - s0.fund[a])) + payment
  PROVE  LET t == Bought(s, a, payment)
         IN  Buys(s0, t, a) /\ t.res = s.res
<1> DEFINE t == Bought(s, a, payment)
           p == add_to_rex_pool(s.pool, payment)
           x == p.total_rex - TotalRex(s0)
           old == IF s.bal[a] = None THEN EmptyBalance ELSE s.bal[a]
           v == IF s.bal[a] = None THEN payment ELSE ValueOf(p, old.rex + x)
           row == [old EXCEPT !.rex = @ + x, !.vote_stake = v]
           c == InBucket(process_rex_maturities(row, now), now, x)
           ba == [s.bal EXCEPT ![a] = c]
<1>0. /\ now \in Int /\ s0 \in TableSet /\ RowOK(s0.bal[a]) /\ s0.orders[a] \in Orders \cup {None}
      /\ s0.bal[a] \in Balances \cup {None} /\ s0.fund[a] \in Nat
      /\ IsOpen(s0.orders[a]) =>
           /\ s0.bal[a] # None /\ s0.orders[a].requested <= s0.bal[a].matured /\ s0.orders[a].time <= now
           /\ \A k \in Kinds : \A l \in s0.loans[k] : l.expiration <= s0.orders[a].time + LoanTerm
      /\ RexIn(s0.bal[a]) \in Nat /\ Owing(s0.orders[a]) \in Nat
  BY OrderFacts, TimeAssumption DEF Times
<1>1. /\ TotalRex(s0) \in Nat /\ Lendable(s0) \in Nat /\ LentOf(s0) \in Nat
  BY <1>0, Totals
<1>2. /\ p \in Pools /\ p.lendable = Lendable(s0) + payment /\ p.lent = LentOf(s0)
      /\ p.lendable = p.unlent + p.lent /\ p.total_rex >= TotalRex(s0) /\ p.total_rex > 0
      /\ s0.pool # None => p.loan_num = s0.pool.loan_num /\ p.proceeds = s0.pool.proceeds
      /\ s0.pool = None => p.proceeds = 0
      /\ TotalRex(s0) > 0 => Cheaper(Lendable(s0), TotalRex(s0), p.lendable, p.total_rex)
      /\ Affordable(s0.pool) => p.total_rex > TotalRex(s0)
  <2>1. p = add_to_rex_pool(s0.pool, payment)
    OBVIOUS
  <2> HIDE DEF p
  <2> QED BY <1>0, <2>1, PoolGrown
<1>3. /\ p # None /\ p.total_rex \in Nat /\ p.lendable \in Nat /\ p.unlent \in Nat /\ p.lent \in Nat
      /\ p.loan_num \in Nat /\ p.proceeds \in Nat
  BY <1>2, PoolFields
<1>4. x \in Nat /\ (Affordable(s0.pool) => x > 0) /\ p.total_rex = TotalRex(s0) + x
  BY <1>1, <1>2, <1>3
<1>5. t = [s EXCEPT !.pool = p, !.bal = ba]
  <2>1. x = p.total_rex - IF s.pool = None THEN 0 ELSE s.pool.total_rex
    BY DEF TotalRex
  <2>2. t = [s EXCEPT !.pool = p, !.bal[a] = c]
    BY <2>1, Zenon DEF Bought
  <2> HIDE DEF p, c
  <2> QED BY <2>2 DEF TableSet
<1> HIDE DEF p, x, t
<1>6. /\ old \in Balances /\ RowOK(old) /\ old.rex = RexIn(s0.bal[a]) /\ (s0.bal[a] # None => old = s0.bal[a])
      /\ SavingsIn(old) = SavingsIn(s0.bal[a]) /\ BucketsIn(old) = BucketsIn(s0.bal[a])
  <2>1. CASE s.bal[a] = None
    <3> DEFINE z == [m \in Maturities |-> 0]
    <3>1. old = [vote_stake |-> 0, rex |-> 0, matured |-> 0, buckets |-> z, savings |-> 0] /\ s0.bal[a] = None
      BY <2>1 DEF EmptyBalance
    <3>2. z \in [Maturities -> Nat] /\ \A m \in Maturities : z[m] = 0
      OBVIOUS
    <3>3. SumFunctionOnSet(z, Maturities) = 0
      <4>1. z \in [Maturities -> Int]
        BY <3>2
      <4> HIDE DEF z
      <4>2. Maturities \in SUBSET Maturities /\ IsFiniteSet(Maturities)
        BY MaturitiesFinite
      <4> QED BY <3>2, <4>1, <4>2, SumOfZeros
    <3> HIDE DEF old
    <3>4. BucketsIn(s0.bal[a]) = z
      BY <3>1 DEF BucketsIn
    <3> HIDE DEF z
    <3>5. old \in Balances
      BY <3>1, <3>2 DEF Balances
    <3>6. old # None
      BY <3>5, RowFields
    <3> QED BY <3>1, <3>3, <3>4, <3>5, <3>6 DEF RowOK, RexIn, SavingsIn, BucketsIn
  <2>2. CASE s.bal[a] # None
    BY <1>0, <2>2 DEF RexIn
  <2> QED BY <2>1, <2>2
<1> HIDE DEF old
<1>7. v \in Int
  <2>1. CASE s.bal[a] = None
    BY <2>1
  <2>2. CASE s.bal[a] # None
    <3>1. old.rex + x \in Nat
      BY <1>0, <1>4, <1>6
    <3> DEFINE y == (old.rex + x) * p.lendable
    <3>2. y \in Nat
      BY <1>3, <3>1
    <3>3. v = y \div p.total_rex
      BY <2>2 DEF ValueOf
    <3> HIDE DEF y, v
    <3>4. y \div p.total_rex \in Nat
      BY <1>2, <1>3, <3>2, DivNat
    <3> QED BY <3>3, <3>4
  <2> QED BY <2>1, <2>2
<1> HIDE DEF v
<1>8. /\ c \in Balances /\ RowOK(c) /\ c.rex = old.rex + x /\ c.matured >= old.matured
      /\ \A u \in [Maturities -> Nat], w \in [Maturities -> Nat] :
           RipensIn(old, u, now) /\ Later(u, w, now, x) => RipensIn(c, w, now)
  <2> HIDE DEF row
  <2>1. row = Richer(old, x, v)
    BY DEF row, Richer
  <2>2. old \in Balances /\ RowOK(old) /\ x \in Nat /\ v \in Int
    BY <1>4, <1>6, <1>7
  <2>3. c \in Balances /\ RowOK(c) /\ c.rex = old.rex + x /\ c.matured >= old.matured
    BY <2>1, <2>2, RowBought
  <2>4. \A u \in [Maturities -> Nat], w \in [Maturities -> Nat] :
          RipensIn(old, u, now) /\ Later(u, w, now, x) => RipensIn(c, w, now)
    BY <2>1, <2>2, RowBought
  <2> QED BY <2>3, <2>4
<1> HIDE DEF row, c
<1>9. ba \in [Users -> Balances \cup {None}] /\ ba[a] = c /\ \A b \in Users \ {a} : ba[b] = s0.bal[b]
  BY <1>0, <1>8, TableFields
<1> HIDE DEF ba
<1>10. t = [pool |-> p, fund |-> s.fund, bal |-> ba, loans |-> s.loans, orders |-> s.orders, held |-> s.held,
            res |-> s.res]
  BY <1>5 DEF TableSet
<1>11. t \in TableSet
  BY <1>2, <1>9, <1>10, TableFields DEF TableSet
<1>12. c # None /\ c.rex \in Nat /\ RexIn(t.bal[a]) = c.rex /\ t.bal[a] = c
  BY <1>8, <1>9, <1>10, RowFields DEF RexIn
<1>13. TotalRex(t) = p.total_rex /\ Lendable(t) = p.lendable
  BY <1>3, <1>10 DEF TotalRex, Lendable
<1>14. Books(t, now)
  <2>1. t.held.rex = ((s0.held.rex + (t.fund[a] - s0.fund[a])) + (Lendable(t) - Lendable(s0)))
                        + (Owing(t.orders[a]) - Owing(s0.orders[a]))
    <3>1. s0.held.rex \in Int /\ s.fund[a] \in Nat
      BY <1>0, TableFields
    <3> QED BY <1>0, <1>1, <1>2, <1>10, <1>13, <3>1
  <2>2. /\ t.pool.lendable = t.pool.unlent + t.pool.lent /\ t.pool.lent = LentOf(s0)
        /\ t.pool.total_rex = TotalRex(s0) + (RexIn(t.bal[a]) - RexIn(s0.bal[a]))
        /\ t.pool.total_rex = 0 <=> t.pool.lendable = 0
        /\ t.pool.proceeds > 0 => t.pool.total_rex > 0
        /\ s0.pool # None => t.pool.loan_num >= s0.pool.loan_num
    <3>1. p.lendable > 0
      BY <1>1, <1>2
    <3>2. t.pool = p
      BY <1>10
    <3> QED BY <1>0, <1>1, <1>2, <1>3, <1>4, <1>6, <1>8, <1>12, <3>1, <3>2
  <2>3. IsOpen(t.orders[a]) =>
           /\ t.bal[a] # None /\ t.orders[a].requested <= t.bal[a].matured /\ t.orders[a].time <= now
           /\ \A k \in Kinds : \A l \in s0.loans[k] : l.expiration <= t.orders[a].time + LoanTerm
    <3>1. IsOpen(s0.orders[a]) => s0.orders[a].requested <= c.matured
      <4>1. SUFFICES ASSUME IsOpen(s0.orders[a]) PROVE s0.orders[a].requested <= c.matured
        OBVIOUS
      <4>2. s0.orders[a].requested \in Nat /\ s0.bal[a].matured \in Nat /\ c.matured \in Nat /\ s0.bal[a] # None
        BY <1>0, <1>8, <4>1, RowFields DEF IsOpen, Orders
      <4> QED BY <1>0, <1>6, <1>8, <4>1, <4>2
    <3> QED BY <1>0, <1>10, <1>12, <3>1
  <2>4. \A b \in Users \ {a} : t.bal[b] = s0.bal[b] /\ t.orders[b] = s0.orders[b] /\ t.fund[b] = s0.fund[b]
    BY <1>9, <1>10
  <2>5. t.loans = s0.loans /\ t.pool # None /\ RowOK(t.bal[a])
    BY <1>3, <1>8, <1>10, <1>12
  <2> QED BY <1>0, <1>11, <2>1, <2>2, <2>3, <2>4, <2>5, AccountBooks
<1>15. Waiting(t) = Waiting(s0)
  BY <1>2, <1>3, <1>10 DEF Waiting
<1>16. Dearer(s0, t)
  BY <1>2, <1>13 DEF Dearer
<1>17. ASSUME NEW u \in [Maturities -> Nat], NEW w \in [Maturities -> Nat], RipensIn(s0.bal[a], u, now),
              Later(u, w, now, t.bal[a].rex - RexIn(s0.bal[a]))
       PROVE  RipensIn(t.bal[a], w, now)
  <2>1. RipensIn(old, u, now)
    BY <1>6, <1>17 DEF RipensIn
  <2>2. t.bal[a].rex - RexIn(s0.bal[a]) = x
    BY <1>0, <1>4, <1>6, <1>8, <1>12
  <2>3. Later(u, w, now, x)
    BY <1>17, <2>2
  <2> QED BY <1>8, <1>12, <2>1, <2>3
<1>18. t.bal[a].rex >= RexIn(s0.bal[a]) /\ (Affordable(s0.pool) => t.bal[a].rex > 0)
  BY <1>0, <1>4, <1>6, <1>8, <1>12
<1>19. TotalRex(t) > 0 /\ t.pool # None /\ t.bal[a] \in Balances
  BY <1>2, <1>3, <1>8, <1>10, <1>12, <1>13
<1>20. t.loans = s0.loans /\ t.orders = s0.orders /\ t.res = s.res /\ \A b \in Users \ {a} : t.bal[b] = s0.bal[b]
  BY <1>9, <1>10
<1> QED BY <1>14, <1>15, <1>16, <1>17, <1>18, <1>19, <1>20 DEF Buys, t

-----------------------------------------------------------------------------
(* Actions *)

(* What a whole action does to the tables, if it is not a purchase: it changes
   the stake of a by d. *)
Goes(s, t, a, d) ==
  /\ Books(t, now) /\ Waiting(t) = Waiting(s) /\ Dearer(s, t)
  /\ \A k \in Kinds, c \in Accounts : Delegations(t, k, c) = Delegations(s, k, c)
  /\ \A b \in Users :
       /\ Keeps(s.bal[b], t.bal[b])
       /\ StakeIn(t, b) = StakeIn(s, b) + IF b = a THEN d ELSE 0
       /\ NoIdleStake(s.bal[b]) => NoIdleStake(t.bal[b])

(* The parts of actions make up actions. *)
LEMMA StepGoes ==
  ASSUME NEW s, Books(s, now), NEW t, NEW a \in Users, NEW d \in Int, Step(s, t, a, d)
  PROVE  Goes(s, t, a, d)
<1>0. s \in TableSet
  BY DEF Books
<1>1. Dearer(s, t)
  BY DEF Step, Price, Dearer
<1>2. ASSUME NEW b \in Users
      PROVE  /\ Keeps(s.bal[b], t.bal[b])
             /\ StakeIn(t, b) = StakeIn(s, b) + IF b = a THEN d ELSE 0
             /\ NoIdleStake(s.bal[b]) => NoIdleStake(t.bal[b])
  <2>1. CASE b = a
    BY <2>1 DEF Step
  <2>2. CASE b # a
    <3>1. Same(s, t, b)
      BY <2>2 DEF Step
    <3>2. StakeIn(s, b) \in Int
      BY <1>0, StakeType
    <3>3. Keeps(s.bal[b], t.bal[b])
      BY <3>1, KeepsSame DEF Same
    <3> QED BY <2>2, <3>1, <3>2, <3>3 DEF Same
  <2> QED BY <2>1, <2>2
<1> QED BY <1>1, <1>2 DEF Step, Goes

(* runrex alone is an action, rexexec. *)
LEMMA LeadsGoes ==
  ASSUME NEW s, Books(s, now), s.pool # None, NEW t, Leads(s, t)
  PROVE  Goes(s, t, None, 0)
<1>0. s \in TableSet
  BY DEF Books
<1>1. Books(t, now) /\ Moves(s, t)
  BY DEF Leads
<1>2. /\ t.pool # None /\ PoolMoves(s.pool, t.pool)
      /\ t.held.names - t.pool.proceeds = s.held.names - s.pool.proceeds
      /\ \A k \in Kinds, c \in Accounts : Delegations(t, k, c) = Delegations(s, k, c)
      /\ \A b \in Users : AccountMoves(s, t, b)
  BY <1>1 DEF Moves
<1>3. Dearer(s, t) /\ Waiting(t) = Waiting(s)
  BY <1>2 DEF Dearer, Waiting, PoolMoves, TotalRex, Lendable
<1>4. ASSUME NEW b \in Users
      PROVE  /\ Keeps(s.bal[b], t.bal[b])
             /\ StakeIn(t, b) = StakeIn(s, b) + IF b = None THEN 0 ELSE 0
             /\ NoIdleStake(s.bal[b]) => NoIdleStake(t.bal[b])
  <2>1. StakeIn(s, b) \in Int
    BY <1>0, StakeType
  <2>2. Keeps(s.bal[b], t.bal[b])
    BY <1>2, KeepsSame DEF AccountMoves
  <2> QED BY <1>2, <2>1, <2>2 DEF AccountMoves
<1> QED BY <1>1, <1>2, <1>3, <1>4 DEF Goes

(* An action that concerns the pool only *)
LEMMA PoolGoes ==
  ASSUME now \in Int, NEW s, Books(s, now), NEW t \in TableSet, t.loans = s.loans, t.bal = s.bal,
         t.orders = s.orders, t.fund = s.fund, t.res = s.res, t.pool = None <=> s.pool = None,
         t.pool # None =>
           /\ t.pool.lendable = t.pool.unlent + t.pool.lent /\ t.pool.lent = s.pool.lent
           /\ t.pool.total_rex = s.pool.total_rex
           /\ t.pool.lendable >= s.pool.lendable
           /\ t.pool.total_rex = 0 => t.pool.lendable = s.pool.lendable
           /\ t.pool.proceeds > 0 => t.pool.total_rex > 0
           /\ t.pool.loan_num = s.pool.loan_num,
         t.held.rex = s.held.rex + (Lendable(t) - Lendable(s)), Waiting(t) = Waiting(s)
  PROVE  Goes(s, t, None, 0)
<1>0. s \in TableSet /\ (s.pool # None => s.pool \in Pools) /\ (t.pool # None => t.pool \in Pools)
  BY TableFields DEF Books
<1>1. TotalRex(t) = TotalRex(s) /\ Lendable(t) >= Lendable(s) /\ TotalRex(s) \in Nat /\ Lendable(s) \in Nat /\ Lendable(t) \in Nat
  BY <1>0, PoolFields DEF TotalRex, Lendable
<1>2. Dearer(s, t)
  <2>1. Lendable(s) * TotalRex(s) <= Lendable(t) * TotalRex(s)
    BY <1>1, Times_
  <2> QED BY <1>1, <2>1 DEF Dearer, Cheaper
<1>3. Books(t, now)
  <2>1. t.pool # None =>
           /\ t.pool.lendable = t.pool.unlent + t.pool.lent /\ t.pool.lent = LentOf(s)
           /\ t.pool.total_rex = TotalRex(s)
           /\ t.pool.total_rex = 0 <=> t.pool.lendable = 0
           /\ t.pool.proceeds > 0 => t.pool.total_rex > 0
           /\ t.pool.loan_num = s.pool.loan_num
    BY <1>0, PoolFields DEF Books, PoolOK, LentOf, TotalRex
  <2> QED BY <2>1, PoolBooks
<1>4. \A k \in Kinds, c \in Accounts : Delegations(t, k, c) = Delegations(s, k, c)
  BY DEF Delegations
<1>5. ASSUME NEW b \in Users
      PROVE  /\ Keeps(s.bal[b], t.bal[b])
             /\ StakeIn(t, b) = StakeIn(s, b) + IF b = None THEN 0 ELSE 0
             /\ NoIdleStake(s.bal[b]) => NoIdleStake(t.bal[b])
  <2>1. StakeIn(s, b) \in Int /\ StakeIn(t, b) = StakeIn(s, b)
    BY <1>0, StakeType DEF StakeIn
  <2>2. Keeps(s.bal[b], t.bal[b])
    BY KeepsSame
  <2> QED BY <2>1, <2>2
<1> QED BY <1>2, <1>3, <1>4, <1>5 DEF Goes

(* What an action that is a step of RexNext does *)
Kept ==
  /\ now' \in Times /\ Books(Tables', now') /\ Dearer(Tables, Tables')
  /\ Waiting(Tables') - idle' = Waiting(Tables) - idle
  /\ unripe' \in [Users -> [Maturities -> Nat]] /\ swapped' \subseteq Users /\ idle' \in Nat
  /\ \A b \in Users : RipensIn(rexbal'[b], unripe'[b], now')

(* What its accounts' REX counts for changes by d for a. *)
Revalued(a, d) ==
  \A b \in Users :
    /\ StakeIn(Tables', b) = StakeIn(Tables, b) + IF b = a THEN d ELSE 0
    /\ NoIdleStake(rexbal[b]) => NoIdleStake(rexbal'[b])

(* The bandwidth that is not rented stays. *)
BandwidthKept == \A k \in Kinds, c \in Accounts : Delegations(Tables', k, c) = Delegations(Tables, k, c)

(* The fields of the tables are the variables. *)
LEMMA TablesAre ==
  /\ Tables.pool = pool /\ Tables.fund = fund /\ Tables.bal = rexbal /\ Tables.loans = loans
  /\ Tables.orders = orders /\ Tables.held = held /\ Tables.res = userres
BY DEF Tables

(* And after a step *)
LEMMA TablesAreNext ==
  /\ Tables'.pool = pool' /\ Tables'.fund = fund' /\ Tables'.bal = rexbal' /\ Tables'.loans = loans'
  /\ Tables'.orders = orders' /\ Tables'.held = held' /\ Tables'.res = userres'
BY DEF Tables

(* What is committed is in the tables then. *)
LEMMA Committed ==
  ASSUME NEW t \in TableSet, Commit(t)
  PROVE  Tables' = t
<1>1. t = [pool |-> t.pool, fund |-> t.fund, bal |-> t.bal, loans |-> t.loans, orders |-> t.orders,
           held |-> t.held, res |-> t.res]
  BY TableRecord
<1> QED BY <1>1 DEF Commit, Tables

(* The invariant gives what the lemmas above ask for. *)
LEMMA InvFacts ==
  ASSUME RexInv
  PROVE  /\ now \in Int /\ now \in Times /\ Books(Tables, now) /\ Tables \in TableSet
         /\ unripe \in [Users -> [Maturities -> Nat]] /\ swapped \subseteq Users /\ idle \in Nat
         /\ Waiting(Tables) = idle /\ Waiting(Tables) \in Int
         /\ \A b \in Users : RipensIn(rexbal[b], unripe[b], now)
<1>1. now \in Times /\ RexTypeOK /\ Books(Tables, now) /\ ProceedsReachPool /\ \A b \in Users : RipensIn(rexbal[b], unripe[b], now)
  BY DEF RexInv
<1>2. /\ Tables \in TableSet /\ unripe \in [Users -> [Maturities -> Nat]] /\ swapped \subseteq Users /\ idle \in Nat
  BY <1>1 DEF RexTypeOK
<1>3. now \in Int
  BY <1>1, TimeAssumption DEF Times
<1>4. pool \in Pools \cup {None}
  BY <1>2, TableFields, TablesAre
<1>5. Waiting(Tables) = idle
  BY <1>1, <1>2, <1>4, PoolFields, TablesAre DEF ProceedsReachPool, Waiting
<1> QED BY <1>1, <1>2, <1>3, <1>5

(* An action that is not a purchase *)
LEMMA GoesKept ==
  ASSUME RexInv, NEW t, NEW a, NEW d, Goes(Tables, t, a, d), Commit(t), UNCHANGED <<now, history>>
  PROVE  Kept /\ Revalued(a, d) /\ BandwidthKept /\ Tables' = t
<1>0. /\ now \in Times /\ Waiting(Tables) \in Int /\ idle \in Nat
      /\ unripe \in [Users -> [Maturities -> Nat]] /\ swapped \subseteq Users
      /\ \A b \in Users : RipensIn(rexbal[b], unripe[b], now)
  BY InvFacts
<1>1. t \in TableSet
  BY DEF Goes, Books
<1>2. Tables' = t /\ rexbal' = t.bal
  BY <1>1, Committed DEF Commit
<1>3. now' = now /\ unripe' = unripe /\ swapped' = swapped /\ idle' = idle
  BY DEF history
<1>4. \A b \in Users : RipensIn(rexbal'[b], unripe'[b], now')
  <2> TAKE b \in Users
  <2>1. Keeps(rexbal[b], t.bal[b]) /\ unripe[b] \in [Maturities -> Nat] /\ RipensIn(rexbal[b], unripe[b], now)
    BY <1>0, TablesAre DEF Goes
  <2>2. RipensIn(t.bal[b], unripe[b], now)
    BY <2>1 DEF Keeps
  <2> QED BY <1>2, <1>3, <2>2
<1>5. Books(Tables', now') /\ Dearer(Tables, Tables') /\ Waiting(Tables') = Waiting(Tables)
  BY <1>2, <1>3 DEF Goes
<1>6. Kept
  BY <1>0, <1>3, <1>4, <1>5 DEF Kept
<1>7. Revalued(a, d)
  BY <1>2, TablesAre DEF Goes, Revalued
<1>8. BandwidthKept
  BY <1>2 DEF Goes, BandwidthKept
<1> QED BY <1>2, <1>6, <1>7, <1>8

(* The stake of a in its votes changes by d. *)
Adds(a, d) ==
  staked \in [Accounts -> Int] =>
    /\ staked' \in [Accounts -> Int]
    /\ \A b \in Accounts : staked'[b] = staked[b] + IF b = a THEN d ELSE 0

(* The limits follow the bandwidth unless they are managed. *)
LimitsOK ==
  /\ managed \in [Kinds -> SUBSET Accounts]
  /\ limit = [k \in Kinds |-> [a \in Accounts |-> limit[k][a]]]
  /\ \A k \in Kinds, a \in Accounts : a \notin managed[k] => limit[k][a] = userres[k][a]

LimitsMove == LimitsOK => LimitsOK'

(* update_resource_limits *)
LEMMA LimitsCommitted ==
  ASSUME NEW t, Commit(t), managed' = managed
  PROVE  LimitsMove
<1> SUFFICES ASSUME LimitsOK
             PROVE  LimitsOK'
  BY DEF LimitsMove
<1> DEFINE new(k, a) == IF a \in managed[k] \/ \A j \in Kinds : t.res[j][a] = userres[j][a]
                        THEN limit[k][a] ELSE t.res[k][a]
<1>1. userres' = t.res /\ limit' = [k \in Kinds |-> [a \in Accounts |-> new(k, a)]]
  BY DEF Commit
<1>2. \A k \in Kinds, a \in Accounts : limit'[k][a] = new(k, a)
  BY <1>1
<1>3. limit' = [k \in Kinds |-> [a \in Accounts |-> limit'[k][a]]]
  BY <1>1
<1>4. \A k \in Kinds, a \in Accounts : a \notin managed'[k] => limit'[k][a] = userres'[k][a]
  BY <1>1, <1>2 DEF LimitsOK
<1> QED BY <1>3, <1>4 DEF LimitsOK

(* Nobody has stake for REX without having REX. *)
NobodyIdle == \A b \in Users : NoIdleStake(rexbal[b])

(* What the actions do that move no stakes.  A purchase of no REX at all, which
   is possible when one unit of it is worth more than one token, counts in the
   stake of its owner. *)
Deals(a, d) ==
  /\ Kept /\ (Affordable(pool) => Revalued(a, d)) /\ BandwidthKept /\ LimitsMove /\ UNCHANGED <<delband, swapped>>
  /\ NobodyIdle => Adds(a, d)

(* update_voting_power, if it is called *)
LEMMA VotesAdd ==
  ASSUME NEW a \in Accounts, NEW d \in Int, NEW force \in BOOLEAN, ChangeVotes(a, d, force)
  PROVE  Adds(a, d)
<1> SUFFICES ASSUME staked \in [Accounts -> Int]
             PROVE  /\ staked' \in [Accounts -> Int]
                    /\ \A b \in Accounts : staked'[b] = staked[b] + IF b = a THEN d ELSE 0
  BY DEF Adds
<1>1. CASE update_voting_power(a, d)
  <2>1. staked' = [staked EXCEPT ![a] = staked[a] + d]
    BY <1>1 DEF update_voting_power, NewStake
  <2> QED BY <2>1
<1>2. CASE d = 0 /\ staked' = staked
  BY <1>2
<1> QED BY <1>1, <1>2 DEF ChangeVotes

(* No vote changes. *)
LEMMA VotesKept ==
  ASSUME NEW a, staked' = staked
  PROVE  Adds(a, 0)
BY DEF Adds

(* An action made of parts *)
LEMMA Deal ==
  ASSUME RexInv, NEW t, NEW a \in Users, NEW d \in Int, Step(Tables, t, a, d), Commit(t), Elsewhere,
         UNCHANGED <<delband, history>>, NobodyIdle => Adds(a, d)
  PROVE  Deals(a, d)
<1>1. now' = now /\ managed' = managed /\ swapped' = swapped
  BY DEF Elsewhere, history
<1>2. Goes(Tables, t, a, d)
  BY InvFacts, StepGoes
<1>3. UNCHANGED <<now, history>>
  BY <1>1
<1>4. Kept /\ Revalued(a, d) /\ BandwidthKept
  BY <1>2, <1>3, GoesKept
<1>5. LimitsMove
  BY <1>1, LimitsCommitted
<1> QED BY <1>1, <1>4, <1>5 DEF Deals

(* An action of the pool *)
LEMMA PoolDeal ==
  ASSUME RexInv, NEW t, Goes(Tables, t, None, 0), Commit(t), Elsewhere, VotesUnchanged,
         UNCHANGED <<delband, history>>
  PROVE  Deals(None, 0)
<1>1. now' = now /\ managed' = managed /\ swapped' = swapped /\ staked' = staked
  BY DEF Elsewhere, VotesUnchanged, history
<1>2. UNCHANGED <<now, history>>
  BY <1>1
<1>3. Kept /\ Revalued(None, 0) /\ BandwidthKept
  BY <1>2, GoesKept
<1>4. LimitsMove
  BY <1>1, LimitsCommitted
<1>5. Adds(None, 0)
  BY <1>1, VotesKept
<1> QED BY <1>1, <1>3, <1>4, <1>5 DEF Deals

(* Most actions begin with runrex. *)
LEMMA FirstRun ==
  ASSUME RexInv, pool # None, NEW max \in Nat, NEW s, s = runrex(Tables, max)
  PROVE  /\ Leads(Tables, s) /\ Books(s, now) /\ s.pool # None /\ s.pool.proceeds = 0 /\ s \in TableSet
         /\ \A a \in Users : /\ Step(Tables, s, a, 0)
                             /\ rexbal[a] = None <=> s.bal[a] = None
                             /\ StakeIn(s, a) = StakeIn(Tables, a)
<1>1. now \in Int /\ Books(Tables, now) /\ Tables.pool # None
  BY InvFacts, TablesAre
<1>2. Leads(Tables, s) /\ s.pool.proceeds = 0
  BY <1>1, RunRex
<1>3. Books(s, now) /\ Moves(Tables, s)
  BY <1>2 DEF Leads
<1>4. s.pool # None /\ s \in TableSet
  BY <1>3 DEF Moves, Books
<1>5. \A a \in Users : (rexbal[a] = None <=> s.bal[a] = None) /\ StakeIn(s, a) = StakeIn(Tables, a)
  BY <1>3, TablesAre DEF Moves, AccountMoves
<1>6. \A a \in Users : Step(Tables, s, a, 0)
  BY <1>1, <1>2, LeadsStep
<1> QED BY <1>2, <1>3, <1>4, <1>5, <1>6

(* deposit *)
LEMMA DepositDeals ==
  ASSUME RexInv, NEW a \in Users, NEW x \in Int, deposit(a, x)
  PROVE  Deals(a, 0)
<1> DEFINE f == Tables.fund[a] + x
           h == Tables.held.rex + x
           t == [Tables EXCEPT !.fund[a] = f, !.held.rex = h]
<1>0. now \in Int /\ Books(Tables, now) /\ Tables \in TableSet
  BY InvFacts
<1>1. /\ x > 0 /\ Commit(t) /\ VotesUnchanged /\ Elsewhere /\ UNCHANGED <<delband, history>>
  BY DEF deposit
<1>2. Tables.fund[a] \in Nat /\ Tables.held.rex \in Int
  BY <1>0, TableFields
<1>3. f \in Nat /\ h \in Int /\ h = Tables.held.rex + (f - Tables.fund[a])
  BY <1>1, <1>2
<1>4. Step(Tables, t, a, 0)
  <2> HIDE DEF f, h
  <2> QED BY <1>0, <1>3, FundStep
<1>5. Adds(a, 0)
  BY <1>1, VotesKept DEF VotesUnchanged
<1> HIDE DEF t
<1> QED BY <1>1, <1>4, <1>5, Deal

(* withdraw, which collects first *)
LEMMA WithdrawDeals ==
  ASSUME RexInv, NEW a \in Users, NEW x \in Int, withdraw(a, x)
  PROVE  \E d \in Int : Deals(a, d)
<1> DEFINE s == Collected(Tables, a, 0)
           f == s.fund[a] - x
           h == s.held.rex - x
           t == [s EXCEPT !.fund[a] = f, !.held.rex = h]
           d == PendingStake(Tables.orders[a])
<1>0. now \in Int /\ Books(Tables, now) /\ Tables \in TableSet /\ a \in Accounts
  BY InvFacts, UsersFinite
<1>1. /\ x > 0 /\ Covers(s.fund, a, x) /\ Commit(t) /\ ChangeVotes(a, PendingStake(orders[a]), FALSE) /\ Elsewhere
      /\ UNCHANGED <<delband, history>>
  BY DEF withdraw
<1>2. Step(Tables, s, a, d) /\ d \in Int
  BY <1>0, CollectedStep, StakeType
<1>3. ChangeVotes(a, d, FALSE)
  BY <1>1, TablesAre
<1> HIDE DEF s, d
<1>4. Books(s, now) /\ s \in TableSet
  BY <1>2 DEF Step, Books
<1>5. s.fund[a] \in Nat /\ s.held.rex \in Int
  BY <1>4, TableFields
<1>6. f \in Nat /\ h \in Int /\ h = s.held.rex + (f - s.fund[a])
  BY <1>1, <1>5 DEF Covers
<1>7. Step(s, t, a, 0)
  <2> HIDE DEF f, h
  <2> QED BY <1>0, <1>4, <1>6, FundStep
<1> HIDE DEF t
<1>8. Step(Tables, t, a, d + 0)
  BY <1>0, <1>2, <1>7, StepTrans
<1>9. d + 0 = d /\ d \in Int
  BY <1>2
<1>10. Step(Tables, t, a, d)
  BY <1>8, <1>9
<1>11. Adds(a, d)
  BY <1>0, <1>2, <1>3, VotesAdd
<1>12. Deals(a, d)
  BY <1>1, <1>2, <1>10, <1>11, Deal
<1> QED BY <1>2, <1>12

(* update_rex_account at the end of an action, without proceeds.  Where the
   action does not say what changes in the stake, nobody idle makes it zero. *)
LEMMA CollectDeals ==
  ASSUME RexInv, NEW s, NEW a \in Users, NEW d \in Int, Step(Tables, s, a, d), NEW e \in Int, NEW force \in BOOLEAN,
         update_rex_account(s, a, 0, e, force), NobodyIdle => e = d, Elsewhere, UNCHANGED <<delband, history>>
  PROVE  \E f \in Int : Deals(a, f)
<1> DEFINE t == Collected(s, a, 0)
           p == PendingStake(s.orders[a])
<1>0. now \in Int /\ Books(Tables, now) /\ a \in Accounts
  BY InvFacts, UsersFinite
<1>1. Commit(t) /\ ChangeVotes(a, e + p, force)
  BY DEF update_rex_account
<1>2. Books(s, now) /\ s \in TableSet
  BY DEF Step, Books
<1>3. Step(s, t, a, p) /\ p \in Int
  BY <1>0, <1>2, CollectedStep, StakeType
<1> HIDE DEF t, p
<1>4. Step(Tables, t, a, d + p)
  BY <1>0, <1>3, StepTrans
<1>5. NobodyIdle => Adds(a, d + p)
  BY <1>0, <1>1, <1>3, VotesAdd
<1>6. d + p \in Int
  BY <1>3
<1>7. Deals(a, d + p)
  <2> DEFINE f == d + p
  <2>1. f \in Int /\ Step(Tables, t, a, f) /\ (NobodyIdle => Adds(a, f))
    BY <1>4, <1>5, <1>6
  <2> HIDE DEF f
  <2>2. Deals(a, f)
    BY <1>1, <2>1, Deal
  <2> QED BY <2>2 DEF f
<1> QED BY <1>6, <1>7

(* The row of a is rearranged. *)
LEMMA RearrangedStep ==
  ASSUME now \in Int, NEW s, Books(s, now), NEW a \in Users, s.bal[a] # None, NEW c,
         Rearranged(s.bal[a], c, rex_in_sell_order(s.orders[a])), Keeps(s.bal[a], c)
  PROVE  LET t == [s EXCEPT !.bal[a] = c]
         IN  Step(s, t, a, 0) /\ t.orders = s.orders /\ t.bal[a] = c /\ t.pool = s.pool
<1>0. /\ RowOK(s.bal[a]) /\ s.bal[a] \in Balances
      /\ IsOpen(s.orders[a]) => s.orders[a].requested <= s.bal[a].matured
  BY OrderFacts
<1>1. /\ c \in Balances /\ c.rex = s.bal[a].rex /\ c.vote_stake = s.bal[a].vote_stake /\ RowOK(c)
      /\ s.bal[a].matured >= rex_in_sell_order(s.orders[a]) => c.matured >= rex_in_sell_order(s.orders[a])
  BY <1>0 DEF Rearranged
<1>2. s.bal[a].matured \in Nat /\ c.matured \in Nat /\ c # None /\ c.vote_stake \in Int
  BY <1>0, <1>1, RowFields
<1>3. rex_in_sell_order(s.orders[a]) \in Nat /\ rex_in_sell_order(s.orders[a]) <= s.bal[a].matured
  BY <1>0, <1>2, OrderFacts DEF rex_in_sell_order
<1>4. rex_in_sell_order(s.orders[a]) <= c.matured
  BY <1>1, <1>2, <1>3
<1>5. NoIdleStake(s.bal[a]) => NoIdleStake(c)
  BY <1>1, <1>2 DEF NoIdleStake, RexIn, VoteStake
<1> DEFINE t == [s EXCEPT !.bal[a] = c]
<1>6. Step(s, t, a, c.vote_stake - s.bal[a].vote_stake) /\ t.orders = s.orders /\ t.bal[a] = c /\ t.pool = s.pool
  BY <1>1, <1>4, <1>5, RowStep
<1>7. c.vote_stake - s.bal[a].vote_stake = 0
  BY <1>1, <1>2
<1> QED BY <1>6, <1>7

(* process_rex_maturities of the row of an account *)
LEMMA MaturedRow ==
  ASSUME now \in Times, NEW b \in Balances, NEW x \in Nat
  PROVE  LET c == process_rex_maturities(b, now)
         IN  Rearranged(b, c, x) /\ Keeps(b, c) /\ c \in Balances /\ c.savings = b.savings /\ c.matured >= b.matured
<1> DEFINE c == process_rex_maturities(b, now)
<1>1. \A u \in [Maturities -> Nat] : /\ Rearranged(b, c, x) /\ c.savings = b.savings /\ c.matured >= b.matured
                                     /\ RipensIn(b, u, now) => RipensIn(c, u, now)
  BY RowMatures
<1>2. [m \in Maturities |-> 0] \in [Maturities -> Nat]
  OBVIOUS
<1> HIDE DEF c
<1>3. Rearranged(b, c, x) /\ c.savings = b.savings /\ c.matured >= b.matured
  BY <1>1, <1>2
<1>4. Keeps(b, c)
  BY <1>1 DEF Keeps
<1> QED BY <1>3, <1>4 DEF c, Rearranged

(* A row rearranged twice *)
LEMMA RearrangedTwice ==
  ASSUME NEW b, NEW c, NEW e, NEW x, Rearranged(b, c, x), Rearranged(c, e, x), Keeps(b, c), Keeps(c, e)
  PROVE  Rearranged(b, e, x) /\ Keeps(b, e)
BY DEF Rearranged, Keeps

(* consolidate, mvtosavings and mvfrsavings *)
LEMMA RebalanceDeals ==
  ASSUME RexInv, pool # None, NEW a \in Users, rexbal[a] # None, NEW s, s = runrex(Tables, 2), NEW c,
         Rearranged(s.bal[a], c, rex_in_sell_order(s.orders[a])), Keeps(s.bal[a], c), Rebalance(a, s, c)
  PROVE  \E f \in Int : Deals(a, f)
<1> DEFINE t == [s EXCEPT !.bal[a] = c]
<1>0. now \in Int /\ Books(Tables, now)
  BY InvFacts
<1>1. Books(s, now) /\ Step(Tables, s, a, 0) /\ s.bal[a] # None
  BY FirstRun
<1>2. Step(s, t, a, 0)
  BY <1>0, <1>1, RearrangedStep
<1>3. update_rex_account(t, a, 0, 0, FALSE) /\ Elsewhere /\ UNCHANGED <<delband, history>>
  BY DEF Rebalance
<1> HIDE DEF t
<1>4. Step(Tables, t, a, 0 + 0)
  BY <1>0, <1>1, <1>2, StepTrans
<1>5. Step(Tables, t, a, 0)
  BY <1>4
<1> DEFINE z == 0
           no == FALSE
<1>6. /\ z \in Int /\ no \in BOOLEAN /\ Step(Tables, t, a, z) /\ update_rex_account(t, a, 0, z, no)
      /\ (NobodyIdle => z = z)
  <2>1. z \in Int
    OBVIOUS
  <2> QED BY <1>3, <1>5, <2>1, Zenon
<1> HIDE DEF z, no
<1> QED BY <1>3, <1>6, CollectDeals

(* consolidate *)
LEMMA ConsolidateDeals ==
  ASSUME RexInv, NEW a \in Users, consolidate(a)
  PROVE  \E f \in Int : Deals(a, f)
<1> DEFINE s == runrex(Tables, 2)
           x == rex_in_sell_order(s.orders[a])
           c == consolidate_rex_balance(s.bal[a], now, x)
<1>0. now \in Times
  BY InvFacts
<1>1. pool # None /\ rexbal[a] # None /\ Rebalance(a, s, c)
  BY DEF consolidate
<1>2. Books(s, now) /\ s.bal[a] # None
  BY <1>1, FirstRun
<1> HIDE DEF s
<1>3. s.bal[a] \in Balances /\ x \in Nat /\ (IsOpen(s.orders[a]) => s.orders[a].requested <= s.bal[a].matured)
  BY <1>2, OrderFacts
<1>4. x <= s.bal[a].matured
  BY <1>3, RowFields DEF rex_in_sell_order
<1>5. \A u \in [Maturities -> Nat] : Rearranged(s.bal[a], c, x) /\ (RipensIn(s.bal[a], u, now) => RipensIn(c, u, now))
  <2> HIDE DEF x
  <2> QED BY <1>0, <1>3, <1>4, RowConsolidated
<1>6. [m \in Maturities |-> 0] \in [Maturities -> Nat]
  OBVIOUS
<1> HIDE DEF c
<1>7. Rearranged(s.bal[a], c, x) /\ Keeps(s.bal[a], c)
  BY <1>5, <1>6 DEF Keeps
<1> QED BY <1>1, <1>7, RebalanceDeals DEF s

(* mvtosavings *)
LEMMA SavingDeals ==
  ASSUME RexInv, NEW a \in Users, NEW x \in Int, mvtosavings(a, x)
  PROVE  \E f \in Int : Deals(a, f)
<1> DEFINE s == runrex(Tables, 2)
           y == rex_in_sell_order(s.orders[a])
           b == process_rex_maturities(s.bal[a], now)
           c == MovedToSavings(b, x)
<1>0. now \in Times
  BY InvFacts
<1>1. pool # None /\ rexbal[a] # None /\ x > 0 /\ x + y + b.savings <= b.rex /\ Rebalance(a, s, c)
  BY DEF mvtosavings
<1>2. Books(s, now) /\ s.bal[a] # None
  BY <1>1, FirstRun
<1> HIDE DEF s
<1>3. s.bal[a] \in Balances /\ y \in Nat /\ RowOK(s.bal[a])
  BY <1>2, OrderFacts
<1> HIDE DEF y
<1>4. Rearranged(s.bal[a], b, y) /\ Keeps(s.bal[a], b) /\ b \in Balances
  BY <1>0, <1>3, MaturedRow
<1>5. RowOK(b)
  BY <1>3, <1>4 DEF Rearranged
<1> HIDE DEF b
<1>6. \A u \in [Maturities -> Nat] : Rearranged(b, c, y) /\ (RipensIn(b, u, now) => RipensIn(c, u, now))
  BY <1>0, <1>1, <1>3, <1>4, <1>5, RowSaved
<1>7. [m \in Maturities |-> 0] \in [Maturities -> Nat]
  OBVIOUS
<1> HIDE DEF c
<1>8. Rearranged(b, c, y) /\ Keeps(b, c)
  BY <1>6, <1>7 DEF Keeps
<1>9. Rearranged(s.bal[a], c, y) /\ Keeps(s.bal[a], c)
  BY <1>4, <1>8, RearrangedTwice
<1> QED BY <1>1, <1>9, RebalanceDeals DEF s, y

(* mvfrsavings *)
LEMMA UnsavingDeals ==
  ASSUME RexInv, NEW a \in Users, NEW x \in Int, mvfrsavings(a, x)
  PROVE  \E f \in Int : Deals(a, f)
<1> DEFINE s == runrex(Tables, 2)
           y == rex_in_sell_order(s.orders[a])
           b == process_rex_maturities(s.bal[a], now)
           c == MovedFromSavings(b, now, x)
<1>0. now \in Times
  BY InvFacts
<1>1. pool # None /\ rexbal[a] # None /\ 0 < x /\ x <= s.bal[a].savings /\ Rebalance(a, s, c)
  BY DEF mvfrsavings
<1>2. Books(s, now) /\ s.bal[a] # None
  BY <1>1, FirstRun
<1> HIDE DEF s
<1>3. s.bal[a] \in Balances /\ y \in Nat
  BY <1>2, OrderFacts
<1> HIDE DEF y
<1>4. Rearranged(s.bal[a], b, y) /\ Keeps(s.bal[a], b) /\ b \in Balances /\ b.savings = s.bal[a].savings
  BY <1>0, <1>3, MaturedRow
<1> HIDE DEF b
<1>5. x \in Nat /\ x <= b.savings
  BY <1>1, <1>4
<1>6. \A u \in [Maturities -> Nat] : Rearranged(b, c, y) /\ (RipensIn(b, u, now) => RipensIn(c, u, now))
  BY <1>0, <1>3, <1>4, <1>5, RowUnsaved
<1>7. [m \in Maturities |-> 0] \in [Maturities -> Nat]
  OBVIOUS
<1> HIDE DEF c
<1>8. Rearranged(b, c, y) /\ Keeps(b, c)
  BY <1>6, <1>7 DEF Keeps
<1>9. Rearranged(s.bal[a], c, y) /\ Keeps(s.bal[a], c)
  BY <1>4, <1>8, RearrangedTwice
<1> QED BY <1>1, <1>9, RebalanceDeals DEF s, y

(* cnclrexorder *)
LEMMA CancelDeals ==
  ASSUME RexInv, NEW a \in Users, cnclrexorder(a)
  PROVE  Deals(a, 0)
<1> DEFINE t == [Tables EXCEPT !.orders[a] = None]
<1>0. now \in Int /\ Books(Tables, now)
  BY InvFacts
<1>1. IsOpen(orders[a]) /\ Commit(t) /\ VotesUnchanged /\ Elsewhere /\ UNCHANGED <<delband, history>>
  BY DEF cnclrexorder
<1>2. IsOpen(Tables.orders[a])
  BY <1>1, TablesAre
<1>3. Step(Tables, t, a, 0)
  BY <1>0, <1>2, CancelledStep
<1>4. Adds(a, 0)
  BY <1>1, VotesKept DEF VotesUnchanged
<1> HIDE DEF t
<1> QED BY <1>1, <1>3, <1>4, Deal

(* sellrex: the sale is paid at once, or queued. *)
LEMMA SellDeals ==
  ASSUME RexInv, NEW a \in Users, NEW x \in Int, sellrex(a, x)
  PROVE  \E f \in Int : Deals(a, f)
<1> DEFINE s0 == runrex(Tables, 2)
           b == process_rex_maturities(s0.bal[a], now)
           s == [s0 EXCEPT !.bal[a] = b]
           sale == fill_rex_order(s, a, x)
           q0 == Collected(s, a, 0)
           q == Queued(q0, a, x)
           e == PendingStake(s.orders[a])
<1>0. now \in Int /\ now \in Times /\ Books(Tables, now) /\ a \in Accounts
  BY InvFacts, UsersFinite
<1>1. /\ pool # None /\ rexbal[a] # None /\ 0 < x /\ x <= s.bal[a].matured
      /\ \/ /\ sale.success
            /\ rex_in_sell_order(s.orders[a]) <= sale.tables.bal[a].matured
            /\ update_rex_account(sale.tables, a, sale.proceeds, sale.stake_change, FALSE)
         \/ /\ q.orders[a].requested <= q.bal[a].matured
            /\ Commit(q)
            /\ ChangeVotes(a, e, FALSE)
      /\ Elsewhere /\ UNCHANGED <<delband, history>>
  BY DEF sellrex
<1>2. /\ Books(s0, now) /\ s0.pool # None /\ s0.pool.proceeds = 0 /\ s0 \in TableSet
      /\ Step(Tables, s0, a, 0) /\ s0.bal[a] # None
  BY <1>1, FirstRun
<1> HIDE DEF s0
<1>3. s0.bal[a] \in Balances /\ rex_in_sell_order(s0.orders[a]) \in Nat
  BY <1>2, OrderFacts
<1>4. Rearranged(s0.bal[a], b, rex_in_sell_order(s0.orders[a])) /\ Keeps(s0.bal[a], b) /\ b \in Balances
  BY <1>0, <1>3, MaturedRow
<1> HIDE DEF b
<1>5. Step(s0, s, a, 0) /\ s.orders = s0.orders /\ s.bal[a] = b /\ s.pool = s0.pool
  BY <1>0, <1>2, <1>4, RearrangedStep
<1> HIDE DEF s
<1>6. Step(Tables, s, a, 0)
  <2>1. Step(Tables, s, a, 0 + 0)
    BY <1>0, <1>2, <1>5, StepTrans
  <2> QED BY <2>1
<1>7. Books(s, now) /\ s \in TableSet /\ s.bal[a] # None /\ s.pool # None /\ s.pool.proceeds = 0
  BY <1>2, <1>4, <1>5, RowFields DEF Step, Books
<1>8. e \in Int
  BY <1>7, StakeType
<1>9. x \in Nat \ {0}
  BY <1>1
<1>10. CASE /\ sale.success
            /\ rex_in_sell_order(s.orders[a]) <= sale.tables.bal[a].matured
            /\ update_rex_account(sale.tables, a, sale.proceeds, sale.stake_change, FALSE)
  <2> DEFINE r == sale.tables
             y == sale.proceeds
             d == sale.stake_change
             t == Collected(r, a, y)
  <2>1. Sells(s, r, a, x, y, d)
    BY <1>0, <1>1, <1>7, <1>9, <1>10, OrderFilled
  <2>2. Commit(t) /\ ChangeVotes(a, d + PendingStake(r.orders[a]), FALSE)
    BY <1>10 DEF update_rex_account
  <2>3. r.orders = s.orders /\ d \in Int
    BY <2>1 DEF Sells
  <2>4. rex_in_sell_order(s.orders[a]) <= r.bal[a].matured
    BY <1>10
  <2> HIDE DEF r, y, d
  <2>5. Step(s, t, a, d + e)
    BY <1>0, <1>1, <1>7, <1>9, <2>1, <2>4, SaleStep
  <2>6. d + e \in Int /\ ChangeVotes(a, d + e, FALSE)
    <3>1. PendingStake(r.orders[a]) = e
      BY <2>3
    <3>2. ChangeVotes(a, d + e, FALSE)
      BY <2>2, <3>1, Zenon
    <3>3. d + e \in Int
      BY <1>8, <2>3
    <3> QED BY <3>2, <3>3, Zenon
  <2> HIDE DEF t, e
  <2> DEFINE f == d + e
  <2>7. f \in Int /\ Step(s, t, a, f) /\ ChangeVotes(a, f, FALSE)
    BY <2>5, <2>6
  <2> HIDE DEF f
  <2>8. Step(Tables, t, a, 0 + f)
    BY <1>0, <1>6, <2>7, StepTrans
  <2>9. Step(Tables, t, a, f)
    <3>1. 0 + f = f
      BY <2>7
    <3> QED BY <2>8, <3>1
  <2>10. Adds(a, f)
    BY <1>0, <2>7, VotesAdd
  <2>11. Deals(a, f)
    BY <1>1, <2>2, <2>7, <2>9, <2>10, Deal
  <2> QED BY <2>7, <2>11
<1>11. CASE /\ q.orders[a].requested <= q.bal[a].matured
            /\ Commit(q)
            /\ ChangeVotes(a, e, FALSE)
  <2>1. /\ Step(s, q0, a, e)
        /\ q0.orders[a] = IF IsFilled(s.orders[a]) THEN None ELSE s.orders[a]
        /\ q0.bal = s.bal /\ q0.pool = s.pool
    BY <1>0, <1>7, CollectedStep
  <2> HIDE DEF q0, e
  <2>2. Books(q0, now) /\ ~IsFilled(q0.orders[a]) /\ q0.bal[a] # None
    BY <1>7, <2>1 DEF Step, IsFilled
  <2>3. q.bal = q0.bal
    <3>1. q0 \in TableSet
      BY <2>2 DEF Books
    <3> QED BY <3>1 DEF Queued, TableSet
  <2>4. q.orders[a].requested <= q0.bal[a].matured
    BY <1>11, <2>3
  <2>5. Step(q0, q, a, 0)
    BY <1>0, <1>9, <2>2, <2>4, QueuedStep
  <2> HIDE DEF q
  <2>6. Step(Tables, q0, a, 0 + e)
    BY <1>0, <1>6, <1>8, <2>1, StepTrans
  <2>7. Step(Tables, q0, a, e)
    <3>1. 0 + e = e
      BY <1>8
    <3> QED BY <2>6, <3>1
  <2>8. Step(Tables, q, a, e + 0)
    BY <1>0, <1>8, <2>5, <2>7, StepTrans
  <2>9. Step(Tables, q, a, e)
    <3>1. e + 0 = e
      BY <1>8
    <3> QED BY <2>8, <3>1
  <2>10. Adds(a, e)
    BY <1>0, <1>8, <1>11, VotesAdd
  <2>11. Deals(a, e)
    BY <1>1, <1>8, <1>11, <2>9, <2>10, Deal
  <2> QED BY <1>8, <2>11
<1> QED BY <1>1, <1>10, <1>11

(* updaterex *)
LEMMA UpdateDeals ==
  ASSUME RexInv, NEW a \in Users, updaterex(a)
  PROVE  \E f \in Int : Deals(a, f)
<1> DEFINE s == runrex(Tables, 2)
           b == s.bal[a]
           v == IF s.pool.total_rex > 0 THEN ValueOf(s.pool, b.rex) ELSE 0
           b1 == [b EXCEPT !.vote_stake = v]
           c == process_rex_maturities(b1, now)
           t == [s EXCEPT !.bal[a] = c]
<1>0. now \in Int /\ now \in Times /\ Books(Tables, now)
  BY InvFacts
<1>1. /\ pool # None /\ rexbal[a] # None /\ update_rex_account(t, a, 0, v - b.vote_stake, TRUE)
      /\ Elsewhere /\ UNCHANGED <<delband, history>>
  BY DEF updaterex
<1>2. /\ Books(s, now) /\ s.pool # None /\ s \in TableSet /\ Step(Tables, s, a, 0) /\ s.bal[a] # None
  BY <1>1, FirstRun
<1> HIDE DEF s
<1>3. b \in Balances /\ rex_in_sell_order(s.orders[a]) \in Nat /\ s.pool \in Pools /\ RowOK(b)
      /\ (IsOpen(s.orders[a]) => s.orders[a].requested <= b.matured)
  BY <1>2, OrderFacts, TableFields
<1>4. /\ b.vote_stake \in Int /\ b.rex \in Nat /\ b.matured \in Nat /\ b.buckets \in [Maturities -> Nat] /\ b.savings \in Nat
      /\ b # None /\ s.pool.lendable \in Nat /\ s.pool.total_rex \in Nat
  BY <1>3, RowFields, PoolFields
<1>5. v \in Int /\ (b.rex = 0 => v = 0)
  <2>1. CASE s.pool.total_rex > 0
    <3> DEFINE y == b.rex * s.pool.lendable
    <3>1. y \in Nat /\ (b.rex = 0 => y = 0)
      BY <1>4
    <3>2. v = y \div s.pool.total_rex
      BY <2>1 DEF ValueOf
    <3> HIDE DEF y, v
    <3>3. y \div s.pool.total_rex \in Nat /\ (y \div s.pool.total_rex) * s.pool.total_rex <= y
      <4> DEFINE r == s.pool.total_rex
      <4>1. r \in Nat \ {0}
        BY <1>4, <2>1
      <4> HIDE DEF r
      <4>2. y \div r \in Nat
        BY <3>1, <4>1, DivNat
      <4>3. (y \div r) * r <= y
        BY <3>1, <4>1, DivBounds
      <4> QED BY <4>2, <4>3 DEF r
    <3>4. b.rex = 0 => y \div s.pool.total_rex = 0
      <4> DEFINE g == y \div s.pool.total_rex
      <4>1. SUFFICES ASSUME b.rex = 0, g # 0 PROVE FALSE
        OBVIOUS
      <4>2. g \in Nat /\ g * s.pool.total_rex <= 0
        BY <3>1, <3>3, <4>1
      <4> HIDE DEF g
      <4>3. 0 * s.pool.total_rex < g * s.pool.total_rex
        BY <1>4, <2>1, <4>1, <4>2, Times_
      <4> QED BY <1>4, <4>2, <4>3
    <3> QED BY <3>2, <3>3, <3>4
  <2>2. CASE ~(s.pool.total_rex > 0)
    BY <2>2
  <2> QED BY <2>1, <2>2
<1> HIDE DEF v
<1>6. b1 = [vote_stake |-> v, rex |-> b.rex, matured |-> b.matured, buckets |-> b.buckets, savings |-> b.savings]
  BY <1>3 DEF Balances
<1>7. b1 \in Balances
  BY <1>4, <1>5, <1>6 DEF Balances
<1> HIDE DEF b, b1
<1>8. RowOK(b1) /\ Keeps(b, b1) /\ b1 # None
  <2>1. b1 # None /\ b1.buckets = b.buckets
    BY <1>6, <1>7, RowFields
  <2>2. SumFunctionOnSet(b1.buckets, Maturities) = SumFunctionOnSet(b.buckets, Maturities)
    BY <2>1, Zenon
  <2>3. SavingsIn(b1) = SavingsIn(b) /\ BucketsIn(b1) = BucketsIn(b)
    BY <1>4, <1>6, <2>1 DEF SavingsIn, BucketsIn
  <2> QED BY <1>3, <1>4, <1>6, <2>1, <2>2, <2>3, KeepsSame DEF RowOK
<1>9. Rearranged(b1, c, 0) /\ Keeps(b1, c) /\ c \in Balances /\ c.matured >= b1.matured
  BY <1>0, <1>7, MaturedRow
<1> HIDE DEF c
<1>10. c.rex = b.rex /\ c.vote_stake = v /\ RowOK(c) /\ c.matured >= b.matured
  BY <1>6, <1>8, <1>9 DEF Rearranged
<1>11. Keeps(b, c)
  BY <1>8, <1>9 DEF Keeps
<1>12. rex_in_sell_order(s.orders[a]) <= c.matured
  BY <1>3, <1>4, <1>9, <1>10, RowFields DEF rex_in_sell_order
<1>13. NoIdleStake(c)
  <2>1. c # None
    BY <1>9, RowFields
  <2> QED BY <1>5, <1>10, <2>1 DEF NoIdleStake, RexIn, VoteStake
<1>14. Step(s, t, a, v - b.vote_stake)
  <2>1. Step(s, t, a, c.vote_stake - s.bal[a].vote_stake)
    BY <1>0, <1>2, <1>9, <1>10, <1>11, <1>12, <1>13, RowStep DEF b
  <2> QED BY <1>10, <2>1 DEF b
<1> HIDE DEF t
<1> DEFINE d == v - b.vote_stake
<1>15. d \in Int /\ Step(s, t, a, d) /\ update_rex_account(t, a, 0, d, TRUE)
  <2>1. d \in Int
    BY <1>4, <1>5
  <2> QED BY <1>1, <1>14, <2>1, Zenon
<1> HIDE DEF d
<1>16. Step(Tables, t, a, 0 + d) /\ 0 + d = d
  BY <1>0, <1>2, <1>15, StepTrans
<1>17. Step(Tables, t, a, d)
  BY <1>16
<1> QED BY <1>1, <1>15, <1>17, CollectDeals

(* closerex *)
LEMMA CloseDeals ==
  ASSUME RexInv, NEW a \in Users, closerex(a)
  PROVE  \E f \in Int : Deals(a, f)
<1> DEFINE s == IF pool = None THEN Tables ELSE runrex(Tables, 2)
           t == [s EXCEPT !.bal[a] = None]
           d == -VoteStake(s.bal[a])
<1>0. now \in Int /\ Books(Tables, now) /\ Tables \in TableSet
  BY InvFacts
<1>1. /\ s.bal[a] # None => s.bal[a].rex = 0
      /\ update_rex_account(t, a, 0, 0, FALSE) /\ Elsewhere /\ UNCHANGED <<delband, history>>
  BY DEF closerex
<1>2. Step(Tables, s, a, 0) /\ Books(s, now)
  <2>1. CASE pool = None
    <3>1. s = Tables
      BY <2>1
    <3>2. \A b \in Users \ {a} : Tables.bal[b] = Tables.bal[b] /\ Tables.orders[b] = Tables.orders[b]
      OBVIOUS
    <3>3. StakeIn(Tables, a) = StakeIn(Tables, a) + 0 /\ Keeps(Tables.bal[a], Tables.bal[a])
      BY <1>0, StakeType, KeepsSame
    <3>4. Price(Tables, Tables)
      BY <2>1, TablesAre DEF Price, TotalRex
    <3>5. Step(Tables, Tables, a, 0)
      BY <1>0, <3>2, <3>3, <3>4, AccountStep
    <3> QED BY <1>0, <3>1, <3>5
  <2>2. CASE pool # None
    <3>1. s = runrex(Tables, 2)
      BY <2>2
    <3> HIDE DEF s
    <3> QED BY <2>2, <3>1, FirstRun
  <2> QED BY <2>1, <2>2
<1> HIDE DEF s
<1>3. Step(s, t, a, d)
  BY <1>0, <1>1, <1>2, ErasedStep
<1>4. d \in Int
  <2>1. s \in TableSet
    BY <1>2 DEF Books
  <2> QED BY <2>1, StakeType
<1>5. NobodyIdle => 0 = d
  <2>1. SUFFICES ASSUME NoIdleStake(rexbal[a]) PROVE VoteStake(s.bal[a]) = 0
    BY DEF NobodyIdle
  <2>2. NoIdleStake(s.bal[a])
    BY <1>2, <2>1, TablesAre DEF Step
  <2> QED BY <1>1, <2>2 DEF NoIdleStake, RexIn, VoteStake
<1> HIDE DEF t, d
<1>6. Step(Tables, t, a, 0 + d) /\ 0 + d = d
  BY <1>0, <1>2, <1>3, <1>4, StepTrans
<1>7. Step(Tables, t, a, d)
  BY <1>6
<1> DEFINE z == 0
           no == FALSE
<1>8. z \in Int
  OBVIOUS
<1>9. no \in BOOLEAN /\ update_rex_account(t, a, 0, z, no) /\ (NobodyIdle => z = d)
  BY <1>1, <1>5, Zenon
<1> HIDE DEF z, no
<1> QED BY <1>1, <1>4, <1>7, <1>8, <1>9, CollectDeals

(* rentcpu and rentnet *)
LEMMA RentDeals ==
  ASSUME RexInv, NEW k \in Kinds, NEW a \in Users, NEW to \in Accounts, NEW x \in Int, NEW y \in Int,
         rent_rex(k, a, to, x, y)
  PROVE  Deals(a, 0)
<1> DEFINE s == runrex(Tables, 2)
           rented == get_bancor_output(s.pool.rent, s.pool.unlent, x)
           p == add_loan_to_rex_pool(s.pool, x, rented, 1)
           loan == [num |-> p.loan_num, from |-> a, receiver |-> to, payment |-> x,
                    balance |-> y, staked |-> rented, expiration |-> now + LoanTerm]
           t == [s EXCEPT !.pool = p, !.fund[a] = @ - x - y, !.loans[k] = @ \cup {loan}, !.res[k][to] = @ + rented]
<1>0. now \in Int /\ Books(Tables, now)
  BY InvFacts
<1>1. /\ pool # None /\ rex_loans_available(s) /\ 0 < x /\ 0 <= y /\ Covers(s.fund, a, x + y) /\ x < rented
      /\ Commit(t) /\ VotesUnchanged /\ Elsewhere /\ UNCHANGED <<delband, history>>
  BY DEF rent_rex
<1>2. Books(s, now) /\ s.pool # None /\ s \in TableSet /\ Step(Tables, s, a, 0)
  BY <1>1, FirstRun
<1> HIDE DEF s
<1>3. x \in Nat \ {0} /\ y \in Nat /\ x + y <= s.fund[a]
  <2>1. s.fund[a] \in Nat
    BY <1>2, TableFields
  <2> QED BY <1>1, <2>1 DEF Covers
<1> HIDE DEF rented
<1>4. rented = get_bancor_output(s.pool.rent, s.pool.unlent, x) /\ x < rented
  BY <1>1 DEF rented
<1> HIDE DEF p
<1>5. p = add_loan_to_rex_pool(s.pool, x, rented, 1)
  BY DEF p
<1> HIDE DEF loan
<1>6. loan = [num |-> p.loan_num, from |-> a, receiver |-> to, payment |-> x,
              balance |-> y, staked |-> rented, expiration |-> now + LoanTerm]
  BY DEF loan
<1>7. Step(s, t, a, 0)
  BY <1>0, <1>1, <1>2, <1>3, <1>4, <1>5, <1>6, RentStep
<1> HIDE DEF t
<1>8. Step(Tables, t, a, 0 + 0)
  BY <1>0, <1>2, <1>7, StepTrans
<1>9. Step(Tables, t, a, 0)
  BY <1>8
<1>10. Adds(a, 0)
  BY <1>1, VotesKept DEF VotesUnchanged
<1> QED BY <1>1, <1>9, <1>10, Deal

(* fund_rex_loan and defund_rex_loan *)
LEMMA LoanFundDeals ==
  ASSUME RexInv, NEW k \in Kinds, NEW loan \in loans[k], NEW x \in Int,
         fund_rex_loan(k, loan, x) \/ defund_rex_loan(k, loan, x)
  PROVE  Deals(loan.from, 0)
<1>0. now \in Int /\ Books(Tables, now) /\ Tables \in TableSet /\ loan \in Tables.loans[k] /\ loan \in Loans
  <2>1. now \in Int /\ Books(Tables, now) /\ Tables \in TableSet /\ loan \in Tables.loans[k]
    BY InvFacts, TablesAre
  <2> QED BY <2>1, TableFields
<1>1. loan.from \in Users /\ loan.balance \in Nat /\ Tables.fund[loan.from] \in Nat
  BY <1>0, TableFields DEF Loans
<1>2. ASSUME NEW f \in Nat, NEW w \in Nat, f + w = Tables.fund[loan.from] + loan.balance,
             NEW t, t = [Tables EXCEPT !.fund[loan.from] = f,
                                       !.loans[k] = (@ \ {loan}) \cup {[loan EXCEPT !.balance = w]}],
             Commit(t), VotesUnchanged, Elsewhere, UNCHANGED <<delband, history>>
      PROVE  Deals(loan.from, 0)
  <2>1. Step(Tables, t, loan.from, 0)
    BY <1>0, <1>2, LoanFundStep
  <2>2. Adds(loan.from, 0)
    BY <1>2, VotesKept DEF VotesUnchanged
  <2> QED BY <1>1, <1>2, <2>1, <2>2, Deal
<1>3. CASE fund_rex_loan(k, loan, x)
  <2> DEFINE f == Tables.fund[loan.from] - x
             w == loan.balance + x
             t == [Tables EXCEPT !.fund[loan.from] = f,
                                 !.loans[k] = (@ \ {loan}) \cup {[loan EXCEPT !.balance = w]}]
  <2>1. x > 0 /\ Covers(fund, loan.from, x) /\ Commit(t) /\ VotesUnchanged /\ Elsewhere /\ UNCHANGED <<delband, history>>
    BY <1>3 DEF fund_rex_loan
  <2>2. x <= Tables.fund[loan.from]
    BY <1>1, <2>1, TablesAre DEF Covers
  <2>3. f \in Nat /\ w \in Nat /\ f + w = Tables.fund[loan.from] + loan.balance
    BY <1>1, <2>1, <2>2
  <2> HIDE DEF f, w
  <2> QED BY <1>2, <2>1, <2>3
<1>4. CASE defund_rex_loan(k, loan, x)
  <2> DEFINE f == Tables.fund[loan.from] + x
             w == loan.balance - x
             t == [Tables EXCEPT !.fund[loan.from] = f,
                                 !.loans[k] = (@ \ {loan}) \cup {[loan EXCEPT !.balance = w]}]
  <2>1. x > 0 /\ loan.balance >= x /\ Commit(t) /\ VotesUnchanged /\ Elsewhere /\ UNCHANGED <<delband, history>>
    BY <1>4 DEF defund_rex_loan
  <2>2. f \in Nat /\ w \in Nat /\ f + w = Tables.fund[loan.from] + loan.balance
    BY <1>1, <2>1
  <2> HIDE DEF f, w
  <2> QED BY <1>2, <2>1, <2>2
<1> QED BY <1>3, <1>4

(* rexexec *)
LEMMA ExecDeals ==
  ASSUME RexInv, NEW max \in Nat, rexexec(max)
  PROVE  Deals(None, 0)
<1> DEFINE t == runrex(Tables, max)
<1>1. pool # None /\ Commit(t) /\ VotesUnchanged /\ Elsewhere /\ UNCHANGED <<delband, history>>
  BY DEF rexexec
<1>2. Leads(Tables, t) /\ Books(Tables, now) /\ Tables.pool # None
  BY <1>1, FirstRun, InvFacts, TablesAre
<1> HIDE DEF t
<1>3. Goes(Tables, t, None, 0)
  BY <1>2, LeadsGoes
<1> QED BY <1>1, <1>3, PoolDeal

(* setrex *)
LEMMA SetrexDeals ==
  ASSUME RexInv, NEW x \in Int, setrex(x)
  PROVE  Deals(None, 0)
<1> DEFINE p == [pool EXCEPT !.rent = x]
           t == [Tables EXCEPT !.pool = p]
<1>0. now \in Int /\ Books(Tables, now) /\ Tables \in TableSet
  BY InvFacts
<1>1. x > 0 /\ pool # None /\ Commit(t) /\ VotesUnchanged /\ Elsewhere /\ UNCHANGED <<delband, history>>
  BY TablesAre DEF setrex, Tables
<1>2. pool \in Pools /\ pool = Tables.pool
  BY <1>0, <1>1, TableFields, TablesAre
<1>3. p = [lent |-> pool.lent, unlent |-> pool.unlent, rent |-> x, lendable |-> pool.lendable,
           total_rex |-> pool.total_rex, proceeds |-> pool.proceeds, loan_num |-> pool.loan_num]
  BY <1>2 DEF Pools
<1> HIDE DEF p
<1>4. p \in Pools /\ x \in Nat
  BY <1>1, <1>2, <1>3, PoolFields DEF Pools
<1>5. t = [pool |-> p, fund |-> fund, bal |-> rexbal, loans |-> loans, orders |-> orders, held |-> held,
           res |-> userres]
  BY DEF Tables
<1>6. t \in TableSet
  BY <1>0, <1>4, <1>5, TableFields, TablesAre DEF TableSet
<1> HIDE DEF t
<1>7. Lendable(t) = Lendable(Tables) /\ Lendable(t) \in Nat /\ Waiting(t) = Waiting(Tables) /\ Tables.held.rex \in Int
  BY <1>0, <1>1, <1>2, <1>3, <1>4, <1>5, PoolFields, TableFields, TablesAre DEF Lendable, Waiting
<1>8. /\ t.pool.lendable = t.pool.unlent + t.pool.lent /\ t.pool.lent = Tables.pool.lent
      /\ t.pool.total_rex = Tables.pool.total_rex
      /\ t.pool.lendable >= Tables.pool.lendable
      /\ t.pool.total_rex = 0 => t.pool.lendable = Tables.pool.lendable
      /\ t.pool.proceeds > 0 => t.pool.total_rex > 0
      /\ t.pool.loan_num = Tables.pool.loan_num
  BY <1>0, <1>1, <1>2, <1>3, <1>5, PoolFields DEF Books, PoolOK
<1>9. /\ t.loans = Tables.loans /\ t.bal = Tables.bal /\ t.orders = Tables.orders /\ t.fund = Tables.fund
      /\ t.res = Tables.res /\ t.pool # None /\ Tables.pool # None
      /\ t.held.rex = Tables.held.rex + (Lendable(t) - Lendable(Tables))
  BY <1>1, <1>2, <1>4, <1>5, <1>7, PoolFields, TablesAre
<1>10. Goes(Tables, t, None, 0)
  BY <1>0, <1>6, <1>7, <1>8, <1>9, PoolGoes
<1> QED BY <1>1, <1>10, PoolDeal

(* buyram and sellram: the fee reaches the pool, or stays in eosio.ramfee. *)
LEMMA RamFeeDeals ==
  ASSUME RexInv, NEW x \in Nat, RamFee(x)
  PROVE  Deals(None, 0)
<1> DEFINE h1 == [held EXCEPT !.ramfee = @ + x]
           s == [Tables EXCEPT !.held = h1]
           t == channel_to_rex(s, "ramfee", x)
<1>0. now \in Int /\ Books(Tables, now) /\ Tables \in TableSet
  BY InvFacts
<1>1. Commit(t) /\ VotesUnchanged /\ Elsewhere /\ UNCHANGED <<delband, history>>
  BY DEF RamFee, Tables
<1>2. held \in [rex : Int, names : Int, ramfee : Int] /\ pool \in Pools \cup {None}
  BY <1>0, TableFields, TablesAre
<1>3. h1 = [rex |-> held.rex, names |-> held.names, ramfee |-> held.ramfee + x] /\ held.ramfee + x \in Int
  BY <1>2
<1>4. s = [pool |-> pool, fund |-> fund, bal |-> rexbal, loans |-> loans, orders |-> orders, held |-> h1,
           res |-> userres]
  BY DEF Tables
<1> HIDE DEF h1
<1>5. h1 \in [rex : Int, names : Int, ramfee : Int]
  BY <1>2, <1>3
<1> HIDE DEF s
<1>6. CASE ~rex_available(pool)
  <2>1. t = s
    BY <1>4, <1>6 DEF channel_to_rex
  <2> HIDE DEF t
  <2>2. t \in TableSet
    BY <1>0, <1>4, <1>5, <2>1, TableFields, TablesAre DEF TableSet
  <2>3. /\ t.loans = Tables.loans /\ t.bal = Tables.bal /\ t.orders = Tables.orders /\ t.fund = Tables.fund
        /\ t.res = Tables.res /\ t.pool = Tables.pool /\ t.held.rex = Tables.held.rex /\ t.held.names = Tables.held.names
    BY <1>3, <1>4, <2>1, TablesAre
  <2>4. /\ t.held.rex = Tables.held.rex + (Lendable(t) - Lendable(Tables)) /\ Waiting(t) = Waiting(Tables)
    <3>1. Lendable(t) = Lendable(Tables) /\ Lendable(t) \in Nat /\ Tables.held.rex \in Int
      BY <1>0, <2>3, PoolFields, TableFields DEF Lendable
    <3> QED BY <2>3, <3>1 DEF Waiting
  <2>5. t.pool # None =>
          /\ t.pool.lendable = t.pool.unlent + t.pool.lent /\ t.pool.lent = Tables.pool.lent
          /\ t.pool.total_rex = Tables.pool.total_rex
          /\ t.pool.lendable >= Tables.pool.lendable
          /\ t.pool.total_rex = 0 => t.pool.lendable = Tables.pool.lendable
          /\ t.pool.proceeds > 0 => t.pool.total_rex > 0
          /\ t.pool.loan_num = Tables.pool.loan_num
    BY <1>0, <1>2, <2>3, PoolFields, TablesAre DEF Books, PoolOK
  <2>6. t.pool = None <=> Tables.pool = None
    BY <2>3
  <2>7. Goes(Tables, t, None, 0)
    BY <1>0, <2>2, <2>3, <2>4, <2>5, <2>6, PoolGoes
  <2> QED BY <1>1, <2>7, PoolDeal
<1>7. CASE rex_available(pool)
  <2> DEFINE ul == pool.unlent + x
             le == pool.lendable + x
             p == [pool EXCEPT !.unlent = ul, !.lendable = le]
             hr == h1.rex + x
             hf == h1.ramfee - x
             h == [h1 EXCEPT !.rex = hr, !.ramfee = hf]
  <2>0. pool \in Pools /\ pool # None /\ pool.total_rex > 0
    BY <1>2, <1>7 DEF rex_available
  <2>1. pool.unlent \in Nat /\ pool.lendable \in Nat /\ pool.total_rex \in Nat /\ pool.lent \in Nat
    BY <2>0, PoolFields
  <2>2. ul \in Nat /\ le \in Nat /\ hr \in Int /\ hf \in Int
    BY <1>3, <1>2, <2>1
  <2>3. t = [s EXCEPT !.pool = p, !.held = h]
    BY <1>4, <1>5, <1>7, <2>0 DEF channel_to_rex, Pools
  <2>14. p = [pool EXCEPT !.unlent = ul, !.lendable = le] /\ h = [h1 EXCEPT !.rex = hr, !.ramfee = hf]
    OBVIOUS
  <2> HIDE DEF ul, le, hr, hf, p, h
  <2>4. p = [lent |-> pool.lent, unlent |-> ul, rent |-> pool.rent, lendable |-> le,
             total_rex |-> pool.total_rex, proceeds |-> pool.proceeds, loan_num |-> pool.loan_num]
    BY <2>0, <2>14 DEF Pools
  <2>5. h = [rex |-> hr, names |-> h1.names, ramfee |-> hf]
    BY <1>5, <2>14
  <2> HIDE DEF t
  <2>6. p \in Pools /\ h \in [rex : Int, names : Int, ramfee : Int]
    BY <1>5, <2>0, <2>2, <2>4, <2>5, PoolFields DEF Pools
  <2>7. t = [pool |-> p, fund |-> fund, bal |-> rexbal, loans |-> loans, orders |-> orders, held |-> h,
             res |-> userres]
    BY <1>4, <2>3
  <2>8. t \in TableSet
    BY <1>0, <2>6, <2>7, TableFields, TablesAre DEF TableSet
  <2>9. /\ t.loans = Tables.loans /\ t.bal = Tables.bal /\ t.orders = Tables.orders /\ t.fund = Tables.fund
        /\ t.res = Tables.res /\ t.pool # None /\ Tables.pool # None
    BY <2>0, <2>6, <2>7, PoolFields, TablesAre
  <2>10. t.held.rex = Tables.held.rex + (Lendable(t) - Lendable(Tables)) /\ Waiting(t) = Waiting(Tables)
    <3>1. Lendable(t) = le /\ Lendable(Tables) = pool.lendable /\ t.held.rex = held.rex + x /\ t.held.names = held.names
      BY <1>3, <2>4, <2>5, <2>7, <2>9, TablesAre DEF Lendable, hr
    <3>2. held.rex \in Int
      BY <1>2
    <3> QED BY <2>1, <2>4, <2>7, <2>9, <3>1, <3>2, TablesAre DEF le, Waiting
  <2>11. /\ t.pool.lendable = t.pool.unlent + t.pool.lent /\ t.pool.lent = Tables.pool.lent
         /\ t.pool.total_rex = Tables.pool.total_rex
         /\ t.pool.lendable >= Tables.pool.lendable
         /\ t.pool.total_rex = 0 => t.pool.lendable = Tables.pool.lendable
         /\ t.pool.proceeds > 0 => t.pool.total_rex > 0
         /\ t.pool.loan_num = Tables.pool.loan_num
    <3>1. pool.lendable = pool.unlent + pool.lent
      BY <1>0, <2>9, TablesAre DEF Books, PoolOK
    <3> QED BY <2>0, <2>1, <2>4, <2>7, <3>1, TablesAre DEF ul, le
  <2>12. Goes(Tables, t, None, 0)
    BY <1>0, <2>8, <2>9, <2>10, <2>11, PoolGoes
  <2>13. Commit(t)
    BY <1>1 DEF t
  <2> QED BY <1>1, <2>12, <2>13, PoolDeal
<1> QED BY <1>6, <1>7

(* A purchase, its runrex and what its buyer collects *)
LEMMA BuyKept ==
  ASSUME RexInv, NEW a \in Users, NEW s, Buys(Tables, s, a), NEW r, r = runrex(s, 2), Commit(Collected(r, a, 0)),
         Ripens(a, s), UNCHANGED <<now, idle>>, swapped' \subseteq Users
  PROVE  /\ Kept
         /\ Affordable(pool) => Revalued(a, StakeGained(s, a) + PendingStake(r.orders[a]))
         /\ StakeGained(s, a) \in Int /\ PendingStake(r.orders[a]) \in Int
         /\ \A k \in Kinds, c \in Accounts : Delegations(Tables', k, c) = Delegations(s, k, c)
<1> DEFINE t == Collected(r, a, 0)
           p == PendingStake(r.orders[a])
           w == [m \in Maturities |-> IF m <= now THEN 0
                  ELSE unripe[a][m] + IF m = get_rex_maturity(now)
                                      THEN s.bal[a].rex - RexIn(rexbal[a]) ELSE 0]
<1>0. /\ now \in Int /\ now \in Times /\ Books(Tables, now) /\ Tables \in TableSet
      /\ unripe \in [Users -> [Maturities -> Nat]] /\ idle \in Nat /\ Waiting(Tables) \in Int
      /\ \A b \in Users : RipensIn(rexbal[b], unripe[b], now)
  BY InvFacts
<1>1. /\ Books(s, now) /\ Waiting(s) = Waiting(Tables) /\ Dearer(Tables, s) /\ TotalRex(s) > 0 /\ s.pool # None
      /\ s.loans = loans /\ s.orders = orders /\ \A b \in Users \ {a} : s.bal[b] = rexbal[b]
      /\ s.bal[a] \in Balances /\ s.bal[a].rex >= RexIn(rexbal[a]) /\ (Affordable(pool) => s.bal[a].rex > 0)
      /\ \A u \in [Maturities -> Nat], v \in [Maturities -> Nat] :
           RipensIn(rexbal[a], u, now) /\ Later(u, v, now, s.bal[a].rex - RexIn(rexbal[a])) => RipensIn(s.bal[a], v, now)
  BY TablesAre DEF Buys
<1>2. Leads(s, r)
  BY <1>0, <1>1, RunRex
<1>3. Step(s, r, a, 0) /\ Books(r, now)
  BY <1>1, <1>2, LeadsStep DEF Leads
<1>4. Step(r, t, a, p) /\ p \in Int
  <2>1. r \in TableSet
    BY <1>3 DEF Books
  <2> QED BY <1>0, <1>3, <2>1, CollectedStep, StakeType
<1> HIDE DEF p
<1>5. Step(s, t, a, p)
  <2>1. Step(s, t, a, 0 + p) /\ 0 + p = p
    BY <1>0, <1>1, <1>3, <1>4, StepTrans
  <2> QED BY <2>1
<1>6. Books(t, now) /\ Waiting(t) = Waiting(s) /\ Price(s, t) /\ t \in TableSet /\ s \in TableSet
  BY <1>1, <1>5 DEF Step, Books
<1>7. Tables' = t /\ rexbal' = t.bal /\ now' = now /\ idle' = idle
  BY <1>6, Committed DEF Commit
<1> HIDE DEF t
<1>8. Dearer(Tables, t)
  <2>1. SUFFICES ASSUME TotalRex(Tables) > 0, TotalRex(t) > 0
                 PROVE  Cheaper(Lendable(Tables), TotalRex(Tables), Lendable(t), TotalRex(t))
    BY DEF Dearer
  <2>2. /\ TotalRex(Tables) \in Nat /\ Lendable(Tables) \in Nat /\ TotalRex(s) \in Nat /\ Lendable(s) \in Nat
        /\ TotalRex(t) \in Nat /\ Lendable(t) \in Nat
    BY <1>0, <1>1, <1>6, Totals
  <2>3. Cheaper(Lendable(Tables), TotalRex(Tables), Lendable(s), TotalRex(s))
    BY <1>1, <2>1 DEF Dearer
  <2>4. Cheaper(Lendable(s), TotalRex(s), Lendable(t), TotalRex(t))
    BY <1>6, <2>1 DEF Price
  <2> QED BY <1>1, <2>2, <2>3, <2>4, CheaperTrans
<1>9. w \in [Maturities -> Nat] /\ Later(unripe[a], w, now, s.bal[a].rex - RexIn(rexbal[a]))
  <2>1. RexIn(rexbal[a]) \in Nat /\ s.bal[a].rex \in Nat
    BY <1>0, <1>1, OrderFacts, RowFields, TablesAre
  <2>2. s.bal[a].rex - RexIn(rexbal[a]) \in Nat
    BY <1>1, <2>1
  <2>3. unripe[a] \in [Maturities -> Nat]
    BY <1>0
  <2> QED BY <2>2, <2>3 DEF Later
<1>10. unripe' = [unripe EXCEPT ![a] = w]
  BY DEF Ripens, RexIn
<1> HIDE DEF w
<1>11. /\ unripe' \in [Users -> [Maturities -> Nat]] /\ unripe'[a] = w
       /\ \A b \in Users \ {a} : unripe'[b] = unripe[b]
  BY <1>0, <1>9, <1>10
<1>12. \A b \in Users : RipensIn(t.bal[b], unripe'[b], now)
  <2> TAKE b \in Users
  <2>1. unripe[b] \in [Maturities -> Nat] /\ RipensIn(rexbal[b], unripe[b], now)
    BY <1>0
  <2>2. CASE b = a
    <3>1. RipensIn(s.bal[a], w, now)
      BY <1>1, <1>9, <2>1, <2>2
    <3>2. Keeps(s.bal[a], t.bal[a])
      BY <1>5 DEF Step
    <3> QED BY <1>9, <1>11, <2>2, <3>1, <3>2 DEF Keeps
  <2>3. CASE b # a
    <3>1. Same(s, t, b) /\ s.bal[b] = rexbal[b]
      BY <1>1, <1>5, <2>3 DEF Step
    <3>2. Keeps(s.bal[b], t.bal[b])
      BY <3>1, KeepsSame DEF Same
    <3> QED BY <1>11, <2>1, <2>3, <3>1, <3>2 DEF Keeps
  <2> QED BY <2>2, <2>3
<1>13. Kept
  BY <1>0, <1>1, <1>6, <1>7, <1>8, <1>11, <1>12 DEF Kept
<1>14. /\ VoteStake(s.bal[a]) \in Int /\ VoteStake(rexbal[a]) \in Int /\ PendingStake(orders[a]) \in Int
       /\ StakeGained(s, a) = VoteStake(s.bal[a]) - VoteStake(rexbal[a])
  <2>1. s.bal[a] # None
    BY <1>1, RowFields
  <2> QED BY <1>0, <1>6, <2>1, StakeType, TablesAre DEF StakeGained, VoteStake
<1>15. ASSUME Affordable(pool), NEW b \in Users
       PROVE  /\ StakeIn(Tables', b) = StakeIn(Tables, b) + IF b = a THEN StakeGained(s, a) + p ELSE 0
              /\ NoIdleStake(rexbal[b]) => NoIdleStake(rexbal'[b])
  <2>1. CASE b = a
    <3>1. StakeIn(t, a) = StakeIn(s, a) + p
      BY <1>5 DEF Step
    <3>2. StakeIn(s, a) = VoteStake(s.bal[a]) - PendingStake(orders[a])
          /\ StakeIn(Tables, a) = VoteStake(rexbal[a]) - PendingStake(orders[a])
      BY <1>1, TablesAre DEF StakeIn
    <3>3. NoIdleStake(s.bal[a])
      <4>1. s.bal[a] # None /\ s.bal[a].rex > 0
        BY <1>1, <1>15, RowFields
      <4> QED BY <4>1 DEF NoIdleStake, RexIn
    <3>4. NoIdleStake(t.bal[a])
      BY <1>5, <3>3 DEF Step
    <3> QED BY <1>4, <1>7, <1>14, <2>1, <3>1, <3>2, <3>4
  <2>2. CASE b # a
    <3>1. Same(s, t, b) /\ s.bal[b] = rexbal[b] /\ s.orders = orders
      BY <1>1, <1>5, <2>2 DEF Step
    <3>2. StakeIn(s, b) = StakeIn(Tables, b) /\ StakeIn(Tables, b) \in Int
      BY <1>0, <3>1, StakeType, TablesAre DEF StakeIn
    <3> QED BY <1>7, <2>2, <3>1, <3>2 DEF Same
  <2> QED BY <2>1, <2>2
<1>16. Affordable(pool) => Revalued(a, StakeGained(s, a) + p)
  BY <1>15 DEF Revalued
<1>17. \A k \in Kinds, c \in Accounts : Delegations(Tables', k, c) = Delegations(s, k, c)
  BY <1>5, <1>7 DEF Step
<1>18. StakeGained(s, a) \in Int
  BY <1>14
<1> QED BY <1>4, <1>13, <1>16, <1>17, <1>18 DEF p

(* buyrex *)
LEMMA BuyDeals ==
  ASSUME RexInv, NEW a \in Users, NEW x \in Int, buyrex(a, x)
  PROVE  \E f \in Int : Deals(a, f)
<1> DEFINE f == Tables.fund[a] - x
           s1 == [Tables EXCEPT !.fund[a] = f]
           s == Bought(s1, a, x)
           r == runrex(s, 2)
           d == StakeGained(s, a) + PendingStake(r.orders[a])
<1>0. now \in Times /\ Books(Tables, now) /\ Tables \in TableSet /\ a \in Accounts /\ swapped \subseteq Users
  BY InvFacts, UsersFinite
<1>1. /\ x > 0 /\ Covers(fund, a, x) /\ update_rex_account(r, a, 0, StakeGained(s, a), FALSE)
      /\ Ripens(a, s) /\ Elsewhere /\ UNCHANGED <<delband, swapped, idle>>
  BY DEF buyrex
<1>2. Tables.fund[a] \in Nat /\ Tables.held.rex \in Int /\ Tables.fund[a] >= x
  BY <1>0, <1>1, TableFields, TablesAre DEF Covers
<1>3. f \in Nat /\ x \in Nat \ {0}
  BY <1>1, <1>2
<1>4. /\ s1 \in TableSet /\ s1.fund[a] = f /\ \A b \in Users \ {a} : s1.fund[b] = Tables.fund[b]
      /\ s1.pool = Tables.pool /\ s1.orders = Tables.orders /\ s1.loans = Tables.loans /\ s1.bal = Tables.bal
      /\ s1.held = Tables.held /\ s1.res = Tables.res
  <2> HIDE DEF f
  <2> QED BY <1>0, <1>3, TablesAt
<1>5. s1.held.rex = (Tables.held.rex + (s1.fund[a] - Tables.fund[a])) + x
  BY <1>2, <1>3, <1>4
<1> HIDE DEF s1
<1>6. Buys(Tables, s, a) /\ s.res = s1.res
  <2>1. s1.held.names = Tables.held.names
    BY <1>4
  <2>2. x \in Nat \ {0} /\ s1 \in TableSet
    BY <1>3, <1>4
  <2>3. /\ s1.pool = Tables.pool /\ s1.orders = Tables.orders /\ s1.loans = Tables.loans /\ s1.bal = Tables.bal
        /\ \A b \in Users \ {a} : s1.fund[b] = Tables.fund[b]
    BY <1>4
  <2> QED BY <1>0, <1>5, <2>1, <2>2, <2>3, BoughtIs
<1> HIDE DEF s
<1>7. Commit(Collected(r, a, 0)) /\ ChangeVotes(a, d, FALSE)
  BY <1>1 DEF update_rex_account
<1>8. now' = now /\ idle' = idle /\ swapped' = swapped /\ managed' = managed
  BY <1>1 DEF Elsewhere
<1> HIDE DEF r
<1>9. /\ Kept /\ (Affordable(pool) => Revalued(a, d))
      /\ StakeGained(s, a) \in Int /\ PendingStake(r.orders[a]) \in Int
      /\ \A k \in Kinds, c \in Accounts : Delegations(Tables', k, c) = Delegations(s, k, c)
  BY <1>0, <1>1, <1>6, <1>7, <1>8, BuyKept DEF r
<1>10. d \in Int
  BY <1>9
<1> HIDE DEF d
<1>11. Adds(a, d)
  BY <1>0, <1>7, <1>10, VotesAdd
<1>12. BandwidthKept
  BY <1>4, <1>6, <1>9 DEF BandwidthKept, Delegations, Buys
<1>13. LimitsMove
  BY <1>7, <1>8, LimitsCommitted
<1>14. Deals(a, d)
  BY <1>1, <1>9, <1>11, <1>12, <1>13 DEF Deals
<1> QED BY <1>10, <1>14

(* The bandwidth that is not rented changes by d for one account. *)
Reroutes(s, t, to, d) ==
  \A k \in Kinds, c \in Accounts : Delegations(t, k, c) = Delegations(s, k, c) + IF c = to THEN d[k] ELSE 0

(* A change of what is delegated from one account to another: d of both kinds *)
Delegated(from, to, d) ==
  /\ d \in [Kinds -> Int] /\ delband' = Added(delband, <<from, to>>, d) /\ Sufficient(delband', <<from, to>>)
  /\ Reroutes(Tables, Tables', to, d)

(* The entries of a table of both kinds of which one was changed *)
LEMMA AddedTable ==
  ASSUME NEW D, NEW table \in [Kinds -> [D -> Int]], NEW i \in D, NEW d \in [Kinds -> Int],
         NEW new, new = Added(table, i, d)
  PROVE  /\ new \in [Kinds -> [D -> Int]]
         /\ \A k \in Kinds, j \in D : new[k][j] = table[k][j] + IF j = i THEN d[k] ELSE 0
<1>1. ASSUME NEW k \in Kinds
      PROVE  /\ new[k] \in [D -> Int]
             /\ \A j \in D : new[k][j] = table[k][j] + IF j = i THEN d[k] ELSE 0
  <2>1. new[k] = [table[k] EXCEPT ![i] = table[k][i] + d[k]]
    BY DEF Added
  <2> QED BY <2>1
<1>2. new = [k \in Kinds |-> new[k]]
  BY DEF Added
<1> QED BY <1>1, <1>2

(* Bandwidth that was added to one account *)
LEMMA DelegationsMove ==
  ASSUME NEW n, NEW s, Books(s, n), NEW t, NEW to \in Accounts, NEW d \in [Kinds -> Int],
         t.loans = s.loans, t.res = Added(s.res, to, d)
  PROVE  Reroutes(s, t, to, d)
<1>0. /\ s.res \in [Kinds -> [Accounts -> Int]]
      /\ \A k \in Kinds : s.loans[k] \in SUBSET Loans /\ IsFiniteSet(s.loans[k])
  BY TableFields DEF Books, LoansOK
<1> SUFFICES ASSUME NEW k \in Kinds, NEW c \in Accounts
             PROVE  Delegations(t, k, c) = Delegations(s, k, c) + IF c = to THEN d[k] ELSE 0
  BY DEF Reroutes
<1>1. t.res[k][c] = s.res[k][c] + IF c = to THEN d[k] ELSE 0
  <2> DEFINE old == s.res
             new == t.res
  <2>1. old \in [Kinds -> [Accounts -> Int]] /\ new = Added(old, to, d)
    BY <1>0
  <2> HIDE DEF old, new
  <2>2. new[k] = [old[k] EXCEPT ![to] = old[k][to] + d[k]] /\ old[k] \in [Accounts -> Int]
    BY <2>1 DEF Added
  <2> QED BY <2>2 DEF old, new
<1>2. s.res[k][c] \in Int /\ d[k] \in Int /\ SumFunctionOnSet(StakedFor(c), s.loans[k]) \in Int
  <2>1. StakedFor(c) \in [Loans -> Int]
    BY LoanAmounts
  <2> QED BY <1>0, <2>1, SumType
<1> QED BY <1>1, <1>2 DEF Delegations

(* unstaketorex: what was delegated is the payment. *)
LEMMA UnstakeKept ==
  ASSUME RexInv, NEW a \in Users, NEW to \in Accounts, NEW d \in [Kinds -> Int], unstaketorex(a, to, d)
  PROVE  LET less == [k \in Kinds |-> -d[k]]
         IN  /\ Kept /\ Delegated(a, to, less) /\ LimitsMove /\ swapped' = swapped \cup {a}
             /\ \E f \in Int, g \in Int : (Affordable(pool) => Revalued(a, f)) /\ Adds(a, g)
<1> DEFINE less == [k \in Kinds |-> -d[k]]
           x == Sum(d)
           ur == Added(Tables.res, to, less)
           h == Tables.held.rex + x
           hl == [Tables.held EXCEPT !.rex = h]
           s1 == [Tables EXCEPT !.res = ur, !.held = hl]
           s == Bought(s1, a, x)
           r == runrex(s, 2)
           f == StakeGained(s, a) + PendingStake(r.orders[a])
           g == 0 + PendingStake(r.orders[a])
<1>0. /\ now \in Times /\ Books(Tables, now) /\ Tables \in TableSet /\ a \in Accounts /\ swapped \subseteq Users
      /\ Tables.held \in [rex : Int, names : Int, ramfee : Int] /\ Tables.res \in [Kinds -> [Accounts -> Int]]
  BY InvFacts, UsersFinite, TableFields
<1>1. /\ ValidStake(d) /\ update_rex_account(r, a, 0, 0, TRUE) /\ Ripens(a, s) /\ Elsewhere /\ idle' = idle
      /\ swapped' = swapped \cup {a} /\ delband' = Added(delband, <<a, to>>, less) /\ Sufficient(delband', <<a, to>>)
  <2>1. s1 = [Tables EXCEPT !.res = Added(@, to, less), !.held.rex = @ + Sum(d)]
    BY <1>0 DEF Tables
  <2> HIDE DEF s1
  <2> QED BY <2>1, Zenon DEF unstaketorex
<1>2. d["net"] \in Int /\ d["cpu"] \in Int /\ less \in [Kinds -> Int] /\ x > 0
  BY <1>1, KindsAre DEF ValidStake
<1>3. x \in Nat \ {0} /\ Tables.held.rex \in Int /\ h \in Int
  BY <1>0, <1>2 DEF Sum
<1> HIDE DEF less, x
<1>4. ur \in [Kinds -> [Accounts -> Int]]
  BY <1>0, <1>2, AddedTable
<1>19. hl = [Tables.held EXCEPT !.rex = h] /\ s1 = [Tables EXCEPT !.res = ur, !.held = hl]
  OBVIOUS
<1> HIDE DEF ur, h, hl, s1
<1>5. hl = [rex |-> h, names |-> Tables.held.names, ramfee |-> Tables.held.ramfee]
  BY <1>0, <1>19
<1>6. s1 = [pool |-> Tables.pool, fund |-> Tables.fund, bal |-> Tables.bal, loans |-> Tables.loans,
            orders |-> Tables.orders, held |-> hl, res |-> ur]
  BY <1>19 DEF Tables
<1>7. hl \in [rex : Int, names : Int, ramfee : Int]
  BY <1>0, <1>3, <1>5
<1>8. s1 \in TableSet
  BY <1>0, <1>4, <1>6, <1>7, TableFields DEF TableSet
<1>9. /\ s1.pool = Tables.pool /\ s1.orders = Tables.orders /\ s1.loans = Tables.loans /\ s1.bal = Tables.bal
      /\ s1.fund = Tables.fund /\ s1.res = ur /\ s1.held.names = Tables.held.names /\ s1.held.rex = h
  BY <1>5, <1>6
<1>10. s1.held.rex = (Tables.held.rex + (s1.fund[a] - Tables.fund[a])) + x
  <2>1. Tables.fund[a] \in Nat
    BY <1>0, TableFields
  <2> QED BY <1>3, <1>9, <2>1 DEF h
<1>11. Buys(Tables, s, a) /\ s.res = s1.res
  BY <1>0, <1>3, <1>8, <1>9, <1>10, BoughtIs
<1> HIDE DEF s
<1>12. Commit(Collected(r, a, 0)) /\ ChangeVotes(a, g, TRUE)
  BY <1>1 DEF update_rex_account
<1>13. now' = now /\ idle' = idle /\ managed' = managed /\ swapped' \subseteq Users
  BY <1>0, <1>1 DEF Elsewhere
<1> HIDE DEF r
<1>14. /\ Kept /\ (Affordable(pool) => Revalued(a, f))
       /\ StakeGained(s, a) \in Int /\ PendingStake(r.orders[a]) \in Int
       /\ \A k \in Kinds, c \in Accounts : Delegations(Tables', k, c) = Delegations(s, k, c)
  BY <1>1, <1>11, <1>12, <1>13, BuyKept DEF r
<1>15. f \in Int /\ g \in Int
  BY <1>14
<1> HIDE DEF f, g
<1>16. Adds(a, g)
  BY <1>0, <1>12, <1>15, VotesAdd
<1>17. Delegated(a, to, less)
  <2>1. s.loans = Tables.loans /\ s.res = Added(Tables.res, to, less)
    BY <1>9, <1>11 DEF Buys, ur
  <2>2. Reroutes(Tables, s, to, less)
    BY <1>0, <1>2, <2>1, DelegationsMove
  <2>3. Reroutes(Tables, Tables', to, less)
    BY <1>14, <2>2 DEF Reroutes
  <2> QED BY <1>1, <1>2, <2>3 DEF Delegated
<1>18. LimitsMove
  BY <1>12, <1>13, LimitsCommitted
<1> QED BY <1>1, <1>14, <1>15, <1>16, <1>17, <1>18 DEF less

-----------------------------------------------------------------------------
(* What other parts of the contract do *)

(* A row that differs in its vote_stake only *)
Valued(b, c) ==
  /\ b = None => c = None
  /\ b # None => /\ c \in Balances /\ c.rex = b.rex /\ c.matured = b.matured
                 /\ c.buckets = b.buckets /\ c.savings = b.savings

(* The books do not depend on vote_stake, and not on what is delegated. *)
LEMMA ValuedBooks ==
  ASSUME NEW n, NEW s, Books(s, n), NEW t \in TableSet, t.pool = s.pool, t.fund = s.fund, t.loans = s.loans,
         t.orders = s.orders, t.held = s.held, \A b \in Users : Valued(s.bal[b], t.bal[b])
  PROVE  Books(t, n)
<1>1. \A b \in Users : RexIn(t.bal[b]) = RexIn(s.bal[b]) /\ (t.bal[b] = None <=> s.bal[b] = None)
  BY RowFields DEF Valued, RexIn
<1>2. RexHeld(t) = RexHeld(s)
  <2>1. [b \in Users |-> RexIn(t.bal[b])] = [b \in Users |-> RexIn(s.bal[b])]
    BY <1>1
  <2> QED BY <2>1 DEF RexHeld
<1>3. /\ Over(StakedOf, t) = Over(StakedOf, s) /\ Over(BalanceOf, t) = Over(BalanceOf, s)
      /\ Uncollected(t) = Uncollected(s) /\ Funds(t) = Funds(s) /\ Lendable(t) = Lendable(s)
  BY DEF Over, Uncollected, Funds, Lendable
<1>4. PoolOK(t) /\ BackedOK(t)
  BY <1>2, <1>3 DEF Books, PoolOK, BackedOK
<1>5. UnusedOK(t)
  BY <1>1 DEF Books, UnusedOK
<1>6. \A b \in Users : RowOK(t.bal[b])
  BY <1>1 DEF Books, RowOK, Valued
<1>7. LoansOK(t, n)
  BY DEF Books, LoansOK
<1>8. OrdersOK(t, n)
  BY <1>1 DEF Books, OrdersOK, Valued
<1> QED BY <1>4, <1>5, <1>6, <1>7, <1>8 DEF Books

(* update_rex_stake *)
LEMMA RowValued ==
  ASSUME RexInv, NEW a \in Accounts, update_rex_stake(a)
  PROVE  /\ Growth(a) \in Int /\ rexbal' \in [Users -> Balances \cup {None}]
         /\ \A b \in Users :
              /\ Valued(rexbal[b], rexbal'[b])
              /\ VoteStake(rexbal'[b]) = VoteStake(rexbal[b]) + IF b = a THEN Growth(a) ELSE 0
              /\ NoIdleStake(rexbal[b]) => NoIdleStake(rexbal'[b])
<1> DEFINE g == Growth(a)
<1>0. /\ rexbal \in [Users -> Balances \cup {None}] /\ pool \in Pools \cup {None}
      /\ \A b \in Users : VoteStake(rexbal[b]) \in Int
  BY InvFacts, TableFields, TablesAre, StakeType
<1>1. CASE a \in Users /\ rexbal[a] # None /\ rex_available(pool)
  <2> DEFINE v == rexbal[a].vote_stake + g
             row == [rexbal[a] EXCEPT !.vote_stake = v]
  <2>1. /\ rexbal[a] \in Balances /\ rexbal[a].rex \in Nat /\ rexbal[a].vote_stake \in Int
        /\ pool.lendable \in Nat /\ pool.total_rex \in Nat \ {0}
    BY <1>0, <1>1, RowFields, PoolFields DEF rex_available
  <2>2. ValueOf(pool, rexbal[a].rex) \in Nat /\ (rexbal[a].rex = 0 => ValueOf(pool, rexbal[a].rex) = 0)
    <3>1. rexbal[a].rex * pool.lendable \in Nat /\ (rexbal[a].rex = 0 => rexbal[a].rex * pool.lendable = 0)
      BY <2>1
    <3>2. (rexbal[a].rex * pool.lendable) \div pool.total_rex \in Nat
      BY <2>1, <3>1, DivNat
    <3>3. 0 \div pool.total_rex = 0
      BY <2>1
    <3> QED BY <3>1, <3>2, <3>3 DEF ValueOf
  <2>3. g = ValueOf(pool, rexbal[a].rex) - rexbal[a].vote_stake
    BY <1>1 DEF Growth
  <2>4. g \in Int /\ v \in Int /\ (rexbal[a].rex = 0 => v = 0)
    BY <2>1, <2>2, <2>3
  <2>5. rexbal' = [rexbal EXCEPT ![a] = row]
    <3>1. CASE g = 0
      <4>1. v = rexbal[a].vote_stake
        BY <2>1, <3>1
      <4>2. row = rexbal[a]
        BY <2>1, <4>1 DEF Balances
      <4> QED BY <1>0, <3>1, <4>2 DEF update_rex_stake
    <3>2. CASE g # 0
      BY <1>0, <1>1, <3>2 DEF update_rex_stake
    <3> QED BY <3>1, <3>2
  <2> HIDE DEF v, g
  <2>6. row = [vote_stake |-> v, rex |-> rexbal[a].rex, matured |-> rexbal[a].matured,
               buckets |-> rexbal[a].buckets, savings |-> rexbal[a].savings]
    BY <2>1 DEF Balances
  <2> HIDE DEF row
  <2>7. row \in Balances
    BY <2>1, <2>4, <2>6, RowFields DEF Balances
  <2>8. Valued(rexbal[a], row) /\ row # None
    BY <1>1, <2>6, <2>7, RowFields DEF Valued
  <2>9. VoteStake(row) = VoteStake(rexbal[a]) + g /\ NoIdleStake(row)
    BY <1>1, <2>1, <2>4, <2>6, <2>8 DEF VoteStake, NoIdleStake, RexIn, v
  <2>10. rexbal'[a] = row /\ \A b \in Users \ {a} : rexbal'[b] = rexbal[b]
    BY <1>0, <1>1, <2>5
  <2>11. rexbal' \in [Users -> Balances \cup {None}]
    BY <1>0, <2>5, <2>7
  <2>12. \A b \in Users \ {a} : Valued(rexbal[b], rexbal[b])
    BY <1>0 DEF Valued
  <2> QED BY <1>0, <2>4, <2>8, <2>9, <2>10, <2>11, <2>12 DEF g
<1>2. CASE ~(a \in Users /\ rexbal[a] # None /\ rex_available(pool))
  <2>1. g = 0
    BY <1>2 DEF Growth
  <2>2. rexbal' = rexbal
    BY <2>1 DEF update_rex_stake
  <2>3. \A b \in Users : Valued(rexbal[b], rexbal[b])
    BY <1>0 DEF Valued
  <2> QED BY <1>0, <2>1, <2>2, <2>3
<1> QED BY <1>1, <1>2

(* It keeps the books, whatever happens to delegations at the same time. *)
LEMMA ValuedKept ==
  ASSUME RexInv, NEW a \in Accounts, update_rex_stake(a), UNCHANGED <<pool, fund, loans, orders, held>>,
         UNCHANGED <<now, history>>, userres' \in [Kinds -> [Accounts -> Int]]
  PROVE  /\ Kept /\ Growth(a) \in Int /\ Revalued(a, Growth(a))
         /\ Tables' \in TableSet /\ Tables'.loans = loans /\ Tables'.res = userres' /\ swapped' = swapped
<1> DEFINE t == Tables'
           g == Growth(a)
<1>0. /\ now \in Times /\ Books(Tables, now) /\ Tables \in TableSet /\ Waiting(Tables) \in Int
      /\ unripe \in [Users -> [Maturities -> Nat]] /\ swapped \subseteq Users /\ idle \in Nat
      /\ \A b \in Users : RipensIn(rexbal[b], unripe[b], now)
  BY InvFacts
<1>1. /\ g \in Int /\ rexbal' \in [Users -> Balances \cup {None}]
      /\ \A b \in Users :
           /\ Valued(rexbal[b], rexbal'[b])
           /\ VoteStake(rexbal'[b]) = VoteStake(rexbal[b]) + IF b = a THEN g ELSE 0
           /\ NoIdleStake(rexbal[b]) => NoIdleStake(rexbal'[b])
  BY RowValued
<1>2. t = [pool |-> pool, fund |-> fund, bal |-> rexbal', loans |-> loans, orders |-> orders, held |-> held,
           res |-> userres']
  BY DEF Tables
<1> HIDE DEF t, g
<1>3. t \in TableSet
  BY <1>0, <1>1, <1>2, TableFields, TablesAre DEF TableSet
<1>4. /\ t.pool = Tables.pool /\ t.fund = Tables.fund /\ t.loans = Tables.loans /\ t.orders = Tables.orders
      /\ t.held = Tables.held /\ t.bal = rexbal'
  BY <1>2, TablesAre
<1>5. Books(t, now)
  BY <1>0, <1>1, <1>3, <1>4, ValuedBooks, TablesAre
<1>6. Dearer(Tables, t) /\ Waiting(t) = Waiting(Tables)
  <2>1. Lendable(t) = Lendable(Tables) /\ TotalRex(t) = TotalRex(Tables)
    BY <1>4 DEF Lendable, TotalRex
  <2>2. Lendable(Tables) \in Nat /\ TotalRex(Tables) \in Nat
    BY <1>0, InvFacts, Totals
  <2> QED BY <1>4, <2>1, <2>2 DEF Dearer, Cheaper, Waiting
<1>7. now' = now /\ unripe' = unripe /\ swapped' = swapped /\ idle' = idle
  BY DEF history
<1>8. \A b \in Users : RipensIn(rexbal'[b], unripe'[b], now')
  <2> TAKE b \in Users
  <2>1. unripe[b] \in [Maturities -> Nat] /\ RipensIn(rexbal[b], unripe[b], now) /\ Valued(rexbal[b], rexbal'[b])
    BY <1>0, <1>1
  <2>2. SavingsIn(rexbal'[b]) = SavingsIn(rexbal[b]) /\ BucketsIn(rexbal'[b]) = BucketsIn(rexbal[b])
    BY <2>1, RowFields DEF Valued, SavingsIn, BucketsIn
  <2>3. Keeps(rexbal[b], rexbal'[b])
    BY <2>2, KeepsSame
  <2> QED BY <1>7, <2>1, <2>3 DEF Keeps
<1>9. Kept
  BY <1>0, <1>5, <1>6, <1>7, <1>8 DEF Kept, t
<1>10. Revalued(a, g)
  <2>1. ASSUME NEW b \in Users
        PROVE  StakeIn(t, b) = StakeIn(Tables, b) + IF b = a THEN g ELSE 0
    <3>1. VoteStake(rexbal[b]) \in Int /\ PendingStake(orders[b]) \in Int
      BY <1>0, StakeType, TablesAre
    <3>2. VoteStake(t.bal[b]) = VoteStake(rexbal[b]) + IF b = a THEN g ELSE 0
      BY <1>1, <1>4
    <3> QED BY <1>1, <1>4, <3>1, <3>2, TablesAre DEF StakeIn
  <2> QED BY <1>1, <2>1 DEF Revalued, t
<1>11. t.loans = loans /\ t.res = userres'
  BY <1>2
<1> QED BY <1>1, <1>3, <1>7, <1>9, <1>10, <1>11 DEF t, g

(* voteproducer of an owner of REX, or of another account *)
LEMMA VoteDeals ==
  ASSUME RexInv, NEW a \in Users, NEW px, NEW ps, VoteWithRex(a, px, ps)
  PROVE  \E f \in Int : Deals(a, f)
<1> DEFINE g == Growth(a)
<1>0. a \in Accounts /\ Tables \in TableSet /\ userres \in [Kinds -> [Accounts -> Int]]
  BY UsersFinite, InvFacts, TableFields, TablesAre
<1>1. /\ voteproducer(a, px, ps, g) /\ update_rex_stake(a)
      /\ UNCHANGED <<stakeVars, pool, fund, loans, orders, held, history>>
  BY DEF VoteWithRex
<1>2. now' = now /\ staked' = [staked EXCEPT ![a] = staked[a] + g]
  BY <1>1 DEF voteproducer
<1>3. userres' = userres /\ delband' = delband /\ managed' = managed /\ limit' = limit
  BY <1>1 DEF stakeVars
<1>4. /\ Kept /\ g \in Int /\ Revalued(a, g)
      /\ Tables' \in TableSet /\ Tables'.loans = loans /\ Tables'.res = userres' /\ swapped' = swapped
  BY <1>0, <1>1, <1>2, <1>3, ValuedKept
<1>5. BandwidthKept
  BY <1>3, <1>4, TablesAre DEF BandwidthKept, Delegations
<1> HIDE DEF g
<1>6. Adds(a, g)
  <2>1. SUFFICES ASSUME staked \in [Accounts -> Int]
                 PROVE  /\ staked' \in [Accounts -> Int]
                        /\ \A b \in Accounts : staked'[b] = staked[b] + IF b = a THEN g ELSE 0
    BY DEF Adds
  <2> QED BY <1>0, <1>2, <1>4, <2>1
<1>7. LimitsMove
  BY <1>3 DEF LimitsMove, LimitsOK
<1>8. Deals(a, g)
  BY <1>3, <1>4, <1>5, <1>6, <1>7 DEF Deals
<1> QED BY <1>4, <1>8

-----------------------------------------------------------------------------
(* What leaves REX alone *)

(* Time passes: the books stay true. *)
LEMMA LaterBooks ==
  ASSUME NEW n \in Times, NEW m \in Times, n <= m, NEW s, Books(s, n)
  PROVE  Books(s, m)
<1>0. /\ n \in Int /\ m \in Int /\ LoanTerm \in Nat
      /\ s.loans \in [Kinds -> SUBSET Loans] /\ \A a \in Users : s.orders[a] \in Orders \cup {None}
  BY TimeAssumption, RexAssumption, TableFields DEF Times, Books
<1>1. LoansOK(s, m)
  <2>1. ASSUME NEW k \in Kinds, NEW l \in s.loans[k]
        PROVE  l.expiration <= m + LoanTerm
    <3>1. l.expiration <= n + LoanTerm
      BY DEF Books, LoansOK
    <3>2. l.expiration \in Int
      BY <1>0 DEF Loans
    <3> QED BY <1>0, <3>1, <3>2
  <2> QED BY <2>1 DEF Books, LoansOK
<1>2. OrdersOK(s, m)
  <2>1. ASSUME NEW a \in Users, IsOpen(s.orders[a])
        PROVE  s.orders[a].time <= m
    <3>1. s.orders[a].time <= n
      BY <2>1 DEF Books, OrdersOK
    <3>2. s.orders[a].time \in Int
      BY <1>0, <2>1 DEF IsOpen, Orders
    <3> QED BY <1>0, <3>1, <3>2
  <2> QED BY <2>1 DEF Books, OrdersOK
<1> QED BY <1>1, <1>2 DEF Books

(* What has not matured is no more than it was. *)
LEMMA LaterRipens ==
  ASSUME NEW n \in Times, NEW m \in Times, n <= m, NEW b, NEW u, RipensIn(b, u, n)
  PROVE  RipensIn(b, u, m)
<1>0. n \in Int /\ m \in Int
  BY TimeAssumption DEF Times
<1>1. /\ get_rex_maturity(n) \in Int /\ get_rex_maturity(m) \in Int /\ get_rex_maturity(n) <= get_rex_maturity(m)
      /\ \A t \in Maturities : t \in Int
  <2>1. \A t \in Maturities : t \in Int
    BY MaturitiesFinite
  <2>2. get_rex_maturity(n) \in Maturities /\ get_rex_maturity(m) \in Maturities
    BY MaturityIs
  <2> QED BY <2>1, <2>2, MaturityGrows
<1>2. \A t \in Maturities : t > get_rex_maturity(m) => t > get_rex_maturity(n)
  BY <1>1
<1>3. \A t \in Maturities : t >= m => t >= n
  BY <1>0, <1>1
<1> QED BY <1>2, <1>3 DEF RipensIn

(* An action that changes nothing in REX, nor in what counts there *)
LEMMA QuietDeals ==
  ASSUME RexInv, now' \in Times, now <= now', UNCHANGED <<rexVars, history>>, UNCHANGED <<userres, delband, staked>>,
         LimitsMove
  PROVE  Deals(None, 0)
<1>0. /\ now \in Times /\ Books(Tables, now) /\ Waiting(Tables) \in Int
      /\ unripe \in [Users -> [Maturities -> Nat]] /\ swapped \subseteq Users /\ idle \in Nat
      /\ \A b \in Users : RipensIn(rexbal[b], unripe[b], now)
  BY InvFacts
<1>1. Tables' = Tables /\ rexbal' = rexbal /\ unripe' = unripe /\ swapped' = swapped /\ idle' = idle
  BY DEF Tables, rexVars, history
<1>2. Books(Tables', now')
  BY <1>0, <1>1, LaterBooks
<1>3. \A b \in Users : RipensIn(rexbal'[b], unripe'[b], now')
  BY <1>0, <1>1, LaterRipens
<1>4. Dearer(Tables, Tables')
  <2>1. Lendable(Tables) \in Nat /\ TotalRex(Tables) \in Nat
    BY <1>0, InvFacts, Totals
  <2> QED BY <1>1, <2>1 DEF Dearer, Cheaper
<1>5. Kept
  BY <1>0, <1>1, <1>2, <1>3, <1>4 DEF Kept
<1>6. Revalued(None, 0)
  <2>1. \A b \in Users : StakeIn(Tables, b) \in Int
    BY InvFacts, StakeType
  <2> QED BY <1>1, <2>1 DEF Revalued
<1>7. BandwidthKept
  BY <1>1 DEF BandwidthKept
<1>8. Adds(None, 0)
  BY VotesKept
<1> QED BY <1>1, <1>5, <1>6, <1>7, <1>8 DEF Deals

(* The clock *)
LEMMA TickDeals ==
  ASSUME RexInv, RexTick
  PROVE  Deals(None, 0)
<1>1. now \in Times /\ MaxTime \in Nat
  BY InvFacts, TimeAssumption
<1>2. now' \in Times /\ now <= now'
  BY <1>1 DEF RexTick, VotingTick, Times
<1>3. UNCHANGED <<rexVars, history>> /\ UNCHANGED <<userres, delband, staked>>
  BY DEF RexTick, VotingTick, stakeVars
<1>4. LimitsMove
  BY DEF RexTick, stakeVars, LimitsMove, LimitsOK
<1> QED BY <1>2, <1>3, <1>4, QuietDeals

(* setacctnet and setacctcpu *)
LEMMA SetacctDeals ==
  ASSUME RexInv, NEW k \in Kinds, NEW a \in Accounts, NEW w \in Managed \cup {None}, setacct(k, a, w),
         UNCHANGED <<rexVars, history>>
  PROVE  Deals(None, 0)
<1>1. now' = now /\ now \in Times /\ now \in Int
  BY InvFacts DEF setacct
<1>2. UNCHANGED <<userres, delband, staked>>
  BY DEF setacct
<1>3. LimitsMove
  <2> SUFFICES ASSUME LimitsOK
               PROVE  LimitsOK'
    BY DEF LimitsMove
  <2> DEFINE v == IF w = None THEN userres[k][a] ELSE w
             row == [limit[k] EXCEPT ![a] = v]
  <2>1. /\ managed \in [Kinds -> SUBSET Accounts] /\ limit = [j \in Kinds |-> [b \in Accounts |-> limit[j][b]]]
        /\ \A j \in Kinds, b \in Accounts : b \notin managed[j] => limit[j][b] = userres[j][b]
    BY DEF LimitsOK
  <2>2. limit' = [limit EXCEPT ![k] = row]
    BY DEF setacct, LimitRestored
  <2>3. managed' \in [Kinds -> SUBSET Accounts]
    BY <2>1 DEF setacct
  <2>4. limit[k] = [b \in Accounts |-> limit[k][b]]
    BY <2>1
  <2>5. row[a] = v /\ (\A b \in Accounts \ {a} : row[b] = limit[k][b]) /\ row = [b \in Accounts |-> row[b]]
    BY <2>4
  <2> HIDE DEF row
  <2>6. limit'[k] = row /\ (\A j \in Kinds \ {k} : limit'[j] = limit[j]) /\ limit' = [j \in Kinds |-> limit'[j]]
    BY <2>1, <2>2
  <2>7. \A j \in Kinds : limit'[j] = [b \in Accounts |-> limit'[j][b]]
    BY <2>1, <2>5, <2>6
  <2>8. limit' = [j \in Kinds |-> [b \in Accounts |-> limit'[j][b]]]
    BY <2>6, <2>7
  <2>9. /\ \A j \in Kinds, b \in Accounts : j # k \/ b # a => (b \in managed'[j] <=> b \in managed[j])
        /\ w # None => a \in managed'[k]
    BY <2>1 DEF setacct
  <2>10. \A j \in Kinds, b \in Accounts : b \notin managed'[j] => limit'[j][b] = userres[j][b]
    BY <2>1, <2>5, <2>6, <2>9
  <2> QED BY <1>2, <2>3, <2>8, <2>10 DEF LimitsOK
<1> QED BY <1>1, <1>2, <1>3, QuietDeals

(* Refunds, proxies and producers *)
LEMMA OtherDeals ==
  ASSUME RexInv, UNCHANGED <<rexVars, history>>,
         \/ \E a \in Accounts : refund(a) \/ RunDeferred(a) \/ DropDeferred(a)
         \/ /\ \/ \E a \in Accounts, isp \in BOOLEAN : regproxy(a, isp)
               \/ \E p \in Producers : regproducer(p) \/ unregprod(p)
            /\ UNCHANGED stakeVars
  PROVE  Deals(None, 0)
<1>0. now \in Times /\ now \in Int
  BY InvFacts
<1>1. now' = now /\ UNCHANGED <<userres, delband, staked, limit, managed>>
  <2>1. CASE \E a \in Accounts : refund(a) \/ RunDeferred(a) \/ DropDeferred(a)
    BY <2>1 DEF refund, RunDeferred, DropDeferred, votingVars
  <2>2. CASE /\ \/ \E a \in Accounts, isp \in BOOLEAN : regproxy(a, isp)
                \/ \E p \in Producers : regproducer(p) \/ unregprod(p)
             /\ UNCHANGED stakeVars
    BY <2>2 DEF regproxy, regproducer, unregprod, stakeVars
  <2> QED BY <2>1, <2>2
<1>2. LimitsMove
  BY <1>1 DEF LimitsMove, LimitsOK
<1> QED BY <1>0, <1>1, <1>2, QuietDeals

(* channel_namebid_to_rex: the bid waits for runrex, or stays when there is no
   REX. *)
LEMMA AuctionDeals ==
  ASSUME RexInv, NEW x \in Nat, CloseAuction(x)
  PROVE  Deals(None, 0)
<1> DEFINE t == Tables'
           hn == held.names + x
<1>0. /\ now \in Times /\ now \in Int /\ Books(Tables, now) /\ Tables \in TableSet /\ idle \in Nat
      /\ Waiting(Tables) \in Int /\ unripe \in [Users -> [Maturities -> Nat]] /\ swapped \subseteq Users
      /\ \A b \in Users : RipensIn(rexbal[b], unripe[b], now)
  BY InvFacts
<1>1. /\ UNCHANGED <<vars, fund, rexbal, loans, orders, unripe, swapped>> /\ held' = [held EXCEPT !.names = hn]
      /\ \/ rex_available(pool) /\ pool' = [pool EXCEPT !.proceeds = @ + x] /\ idle' = idle
         \/ ~rex_available(pool) /\ idle' = idle + x /\ pool' = pool
  BY DEF CloseAuction
<1>2. now' = now /\ UNCHANGED <<userres, delband, staked, limit, managed>>
  BY <1>1 DEF vars, votingVars, stakeVars
<1>3. held \in [rex : Int, names : Int, ramfee : Int] /\ pool \in Pools \cup {None}
  BY <1>0, TableFields, TablesAre
<1>4. held' = [rex |-> held.rex, names |-> hn, ramfee |-> held.ramfee] /\ hn \in Int /\ held.rex \in Int
  BY <1>1, <1>3
<1>5. /\ pool' \in Pools \cup {None} /\ (pool' = None <=> pool = None) /\ idle' \in Nat
      /\ pool # None => /\ pool'.lendable = pool.lendable /\ pool'.unlent = pool.unlent /\ pool'.lent = pool.lent
                        /\ pool'.total_rex = pool.total_rex /\ pool'.loan_num = pool.loan_num
                        /\ pool'.proceeds > 0 => pool.proceeds > 0 \/ pool.total_rex > 0
                        /\ (hn - pool'.proceeds) - idle' = (held.names - pool.proceeds) - idle
      /\ pool = None => hn - idle' = held.names - idle
  <2>1. CASE rex_available(pool) /\ pool' = [pool EXCEPT !.proceeds = @ + x] /\ idle' = idle
    <3> DEFINE y == pool.proceeds + x
    <3>1. pool \in Pools /\ pool # None /\ pool.total_rex > 0 /\ pool' = [pool EXCEPT !.proceeds = y]
      BY <1>3, <2>1 DEF rex_available
    <3>2. pool.proceeds \in Nat /\ y \in Nat
      BY <3>1, PoolFields
    <3> HIDE DEF y
    <3>3. pool' = [lent |-> pool.lent, unlent |-> pool.unlent, rent |-> pool.rent, lendable |-> pool.lendable,
                   total_rex |-> pool.total_rex, proceeds |-> y, loan_num |-> pool.loan_num]
      BY <3>1 DEF Pools
    <3>4. pool' \in Pools
      BY <3>1, <3>2, <3>3, PoolFields DEF Pools
    <3>5. pool' # None
      BY <3>4, NoRowAssumption
    <3>6. held.names \in Int /\ (hn - y) - idle = (held.names - pool.proceeds) - idle
      BY <1>0, <1>3, <3>2 DEF y
    <3> QED BY <1>0, <2>1, <3>1, <3>3, <3>4, <3>5, <3>6
  <2>2. CASE idle' = idle + x /\ pool' = pool
    <3>1. held.names \in Int /\ (pool # None => pool.proceeds \in Nat)
      BY <1>3, PoolFields
    <3> QED BY <1>0, <1>3, <2>2, <3>1
  <2> QED BY <1>1, <2>1, <2>2
<1>6. t = [pool |-> pool', fund |-> fund, bal |-> rexbal, loans |-> loans, orders |-> orders, held |-> held',
           res |-> userres]
  BY <1>1, <1>2 DEF Tables
<1>15. held' \in [rex : Int, names : Int, ramfee : Int] /\ held'.rex = held.rex /\ held'.names = hn
  BY <1>3, <1>4
<1> HIDE DEF t, hn
<1>7. t \in TableSet
  BY <1>0, <1>5, <1>6, <1>15, TableFields, TablesAre DEF TableSet
<1>8. /\ t.loans = Tables.loans /\ t.bal = Tables.bal /\ t.orders = Tables.orders /\ t.fund = Tables.fund
      /\ t.res = Tables.res /\ t.pool = pool' /\ t.held.rex = Tables.held.rex /\ t.held.names = hn
  BY <1>6, <1>15, TablesAre
<1>9. Lendable(t) = Lendable(Tables) /\ TotalRex(t) = TotalRex(Tables) /\ Lendable(Tables) \in Nat /\ TotalRex(Tables) \in Nat
  <2>1. Lendable(Tables) \in Nat /\ TotalRex(Tables) \in Nat
    BY <1>0, Totals
  <2> QED BY <1>5, <1>8, <2>1, TablesAre DEF Lendable, TotalRex
<1>10. Books(t, now)
  <2>1. t.pool # None =>
           /\ t.pool.lendable = t.pool.unlent + t.pool.lent /\ t.pool.lent = LentOf(Tables)
           /\ t.pool.total_rex = TotalRex(Tables)
           /\ t.pool.total_rex = 0 <=> t.pool.lendable = 0
           /\ t.pool.proceeds > 0 => t.pool.total_rex > 0
           /\ t.pool.loan_num = Tables.pool.loan_num
    BY <1>0, <1>5, <1>8, TablesAre DEF Books, PoolOK, LentOf, TotalRex
  <2>2. t.held.rex = Tables.held.rex + (Lendable(t) - Lendable(Tables)) /\ (t.pool = None <=> Tables.pool = None)
    BY <1>4, <1>5, <1>8, <1>9, TablesAre
  <2> QED BY <1>0, <1>7, <1>8, <2>1, <2>2, PoolBooks
<1>11. Waiting(t) - idle' = Waiting(Tables) - idle
  <2>1. held.names \in Int /\ hn \in Int /\ Tables.held.names = held.names /\ Tables.pool = pool
    BY <1>3, <1>4, TablesAre
  <2>2. CASE pool = None
    BY <1>5, <1>8, <2>1, <2>2 DEF Waiting
  <2>3. CASE pool # None
    BY <1>5, <1>8, <2>1, <2>3 DEF Waiting
  <2> QED BY <2>2, <2>3
<1>12. Kept
  <2>1. Dearer(Tables, t)
    BY <1>9 DEF Dearer, Cheaper
  <2>2. unripe' = unripe /\ swapped' = swapped /\ rexbal' = rexbal
    BY <1>1
  <2> QED BY <1>0, <1>2, <1>5, <1>10, <1>11, <2>1, <2>2 DEF Kept, t
<1>13. Revalued(None, 0) /\ BandwidthKept
  <2>1. \A b \in Users : StakeIn(Tables, b) \in Int /\ StakeIn(t, b) = StakeIn(Tables, b)
    BY <1>0, <1>8, StakeType DEF StakeIn
  <2>2. rexbal' = rexbal
    BY <1>1
  <2>3. BandwidthKept
    BY <1>8 DEF BandwidthKept, Delegations, t
  <2> QED BY <2>1, <2>2, <2>3 DEF Revalued, t
<1>14. Adds(None, 0) /\ LimitsMove
  <2>1. LimitsMove
    BY <1>2 DEF LimitsMove, LimitsOK
  <2> QED BY <1>2, <2>1, VotesKept
<1> QED BY <1>1, <1>2, <1>12, <1>13, <1>14 DEF Deals

(* What the actions do that move stakes: from delegates d more to to.  The stake
   in its votes changes by as much, besides what its REX counts for, unless it
   buys REX for it. *)
Restakes(from, to, d) ==
  /\ from \in Accounts /\ to \in Accounts /\ Kept /\ Delegated(from, to, d) /\ LimitsMove /\ swapped \subseteq swapped'
  /\ \E f \in Int, g \in Int : /\ Affordable(pool) => Revalued(from, f)
                               /\ Adds(from, g)
                               /\ from \in swapped' \/ g = f + Sum(d)

(* changebw with the growth of REX *)
LEMMA ChangeRestakes ==
  ASSUME RexInv, NEW source \in Accounts, NEW to \in Accounts, NEW d \in [Kinds -> Int], NEW transfer \in BOOLEAN,
         Sum(d) # 0, NEW from, from = (IF transfer THEN to ELSE source),
         changebw(source, to, d, transfer, Growth(from)), update_rex_stake(from),
         UNCHANGED <<pool, fund, loans, orders, held, history>>
  PROVE  Restakes(from, to, d)
<1> DEFINE g == Growth(from)
           c == Sum(d) + g
<1>0. /\ from \in Accounts /\ userres \in [Kinds -> [Accounts -> Int]] /\ Books(Tables, now)
      /\ d["net"] \in Int /\ d["cpu"] \in Int /\ Sum(d) \in Int
  BY InvFacts, TableFields, TablesAre, KindsAre DEF Sum
<1>1. /\ delband' = Added(delband, <<from, to>>, d) /\ userres' = Added(userres, to, d)
      /\ Sufficient(delband', <<from, to>>) /\ limit' = LimitsAfter(to, userres')
      /\ update_voting_power(from, c) /\ now' = now /\ managed' = managed
  BY DEF changebw
<1>2. /\ userres' \in [Kinds -> [Accounts -> Int]]
      /\ \A k \in Kinds, b \in Accounts : userres'[k][b] = userres[k][b] + IF b = to THEN d[k] ELSE 0
  <2>1. ASSUME NEW k \in Kinds
        PROVE  /\ userres'[k] \in [Accounts -> Int]
               /\ \A b \in Accounts : userres'[k][b] = userres[k][b] + IF b = to THEN d[k] ELSE 0
    <3> DEFINE old == userres[k]
               v == old[to] + d[k]
    <3>1. userres'[k] = [old EXCEPT ![to] = v] /\ old \in [Accounts -> Int] /\ d[k] \in Int
      BY <1>0, <1>1 DEF Added
    <3>2. v \in Int
      BY <3>1
    <3> QED BY <3>1, <3>2
  <2>2. userres' = [k \in Kinds |-> userres'[k]]
    BY <1>1 DEF Added
  <2> QED BY <2>1, <2>2
<1>3. /\ Kept /\ g \in Int /\ Revalued(from, g)
      /\ Tables' \in TableSet /\ Tables'.loans = loans /\ Tables'.res = userres' /\ swapped' = swapped
  BY <1>0, <1>1, <1>2, ValuedKept
<1>4. Delegated(from, to, d)
  <2>1. Reroutes(Tables, Tables', to, d)
    BY <1>0, <1>1, <1>3, DelegationsMove, TablesAre
  <2> QED BY <1>1, <2>1 DEF Delegated
<1>5. c \in Int /\ c = g + Sum(d)
  BY <1>0, <1>3
<1> HIDE DEF c
<1>6. Adds(from, c)
  <2> DEFINE force == TRUE
  <2>1. ChangeVotes(from, c, force)
    BY <1>1 DEF ChangeVotes
  <2>2. force \in BOOLEAN
    OBVIOUS
  <2> HIDE DEF force
  <2> QED BY <1>0, <1>5, <2>1, <2>2, VotesAdd
<1>7. LimitsMove
  <2> SUFFICES ASSUME LimitsOK
               PROVE  LimitsOK'
    BY DEF LimitsMove
  <2>1. /\ limit = [k \in Kinds |-> [b \in Accounts |-> limit[k][b]]]
        /\ \A k \in Kinds, b \in Accounts : b \notin managed[k] => limit[k][b] = userres[k][b]
    BY DEF LimitsOK
  <2>2. ASSUME NEW k \in Kinds
        PROVE  /\ limit'[k] = [b \in Accounts |-> limit'[k][b]]
               /\ \A b \in Accounts : b \notin managed[k] => limit'[k][b] = userres'[k][b]
    <3> DEFINE old == limit[k]
               v == IF to \in managed[k] THEN old[to] ELSE userres'[k][to]
    <3>1. limit'[k] = [old EXCEPT ![to] = v] /\ old = [b \in Accounts |-> old[b]]
      BY <1>1, <2>1 DEF LimitsAfter
    <3>2. \A b \in Accounts \ {to} : userres'[k][b] = userres[k][b]
      BY <1>0, <1>2
    <3> HIDE DEF old, v
    <3>3. /\ limit'[k] = [b \in Accounts |-> limit'[k][b]] /\ limit'[k][to] = v
          /\ \A b \in Accounts \ {to} : limit'[k][b] = old[b]
      BY <3>1
    <3> QED BY <2>1, <3>2, <3>3 DEF old, v
  <2>3. limit' = [k \in Kinds |-> limit'[k]]
    BY <1>1 DEF LimitsAfter
  <2>4. limit' = [k \in Kinds |-> [b \in Accounts |-> limit'[k][b]]]
    BY <2>2, <2>3
  <2> QED BY <1>1, <2>2, <2>4 DEF LimitsOK
<1> HIDE DEF g
<1>8. \E f \in Int, e \in Int : /\ Affordable(pool) => Revalued(from, f)
                                /\ Adds(from, e)
                                /\ from \in swapped' \/ e = f + Sum(d)
  BY <1>3, <1>5, <1>6
<1> QED BY <1>0, <1>3, <1>4, <1>7, <1>8 DEF Restakes

(* delegatebw *)
LEMMA DelegateRestakes ==
  ASSUME RexInv, NEW source \in Accounts, NEW to \in Accounts, NEW d \in [Kinds -> Int], NEW transfer \in BOOLEAN,
         Delegate(source, to, d, transfer)
  PROVE  \E from : Restakes(from, to, d)
<1> DEFINE from == IF transfer THEN to ELSE source
<1>1. /\ ValidStake(d) /\ changebw(source, to, d, transfer, Growth(from)) /\ update_rex_stake(from)
      /\ UNCHANGED <<pool, fund, loans, orders, held, history>>
  BY DEF Delegate, delegatebw
<1>2. Sum(d) # 0
  BY <1>1 DEF ValidStake
<1>3. from = (IF transfer THEN to ELSE source)
  OBVIOUS
<1> HIDE DEF from
<1> QED BY <1>1, <1>2, <1>3, ChangeRestakes

(* undelegatebw *)
LEMMA UndelegateRestakes ==
  ASSUME RexInv, NEW from \in Accounts, NEW to \in Accounts, NEW d \in [Kinds -> Int], Undelegate(from, to, d)
  PROVE  \E less : Restakes(from, to, less)
<1> DEFINE less == [k \in Kinds |-> -d[k]]
           no == FALSE
<1>1. /\ ValidStake(d) /\ changebw(from, to, less, no, Growth(from)) /\ update_rex_stake(from)
      /\ UNCHANGED <<pool, fund, loans, orders, held, history>>
  BY DEF Undelegate, undelegatebw
<1>2. d["net"] \in Int /\ d["cpu"] \in Int /\ less \in [Kinds -> Int] /\ less["net"] = -d["net"] /\ less["cpu"] = -d["cpu"]
  BY KindsAre
<1>3. Sum(less) # 0
  BY <1>1, <1>2 DEF ValidStake, Sum
<1>4. no \in BOOLEAN /\ from = (IF no THEN to ELSE from)
  OBVIOUS
<1> HIDE DEF less, no
<1> QED BY <1>1, <1>2, <1>3, <1>4, ChangeRestakes

(* unstaketorex *)
LEMMA UnstakeRestakes ==
  ASSUME RexInv, NEW a \in Users, NEW to \in Accounts, NEW d \in [Kinds -> Int], unstaketorex(a, to, d)
  PROVE  \E less : Restakes(a, to, less)
<1> DEFINE less == [k \in Kinds |-> -d[k]]
<1>1. /\ Kept /\ Delegated(a, to, less) /\ LimitsMove /\ swapped' = swapped \cup {a}
      /\ \E f \in Int, g \in Int : (Affordable(pool) => Revalued(a, f)) /\ Adds(a, g)
  BY UnstakeKept
<1>2. a \in Accounts /\ a \in swapped' /\ swapped \subseteq swapped'
  BY <1>1, UsersFinite
<1> HIDE DEF less
<1>3. Restakes(a, to, less)
  BY <1>1, <1>2 DEF Restakes
<1> QED BY <1>3

-----------------------------------------------------------------------------
(* Every step *)

SomeDeal == \E a : \E f \in Int : Deals(a, f)
SomeRestake == \E from, to, d : Restakes(from, to, d)

(* buyrex, sellrex, cnclrexorder, updaterex, closerex and rexexec *)
LEMMA TradeDeals == RexInv /\ Trade => SomeDeal
<1> SUFFICES ASSUME RexInv, Trade
             PROVE  SomeDeal
  OBVIOUS
<1>0. 0 \in Int /\ \A a \in Users : Payments[a] \subseteq Int /\ RexAmounts[a] \subseteq Int
  BY RexAssumption
<1>1. ASSUME NEW a \in Users, NEW x \in Payments[a], buyrex(a, x)
      PROVE  SomeDeal
  BY <1>0, <1>1, BuyDeals DEF SomeDeal
<1>2. ASSUME NEW a \in Users, NEW x \in RexAmounts[a], sellrex(a, x)
      PROVE  SomeDeal
  BY <1>0, <1>2, SellDeals DEF SomeDeal
<1>3. ASSUME NEW a \in Users, cnclrexorder(a)
      PROVE  SomeDeal
  BY <1>0, <1>3, CancelDeals DEF SomeDeal
<1>4. ASSUME NEW a \in Users, updaterex(a) \/ closerex(a)
      PROVE  SomeDeal
  BY <1>4, UpdateDeals, CloseDeals DEF SomeDeal
<1>5. ASSUME NEW max \in 1 .. 2, rexexec(max)
      PROVE  SomeDeal
  <2>1. max \in Nat
    OBVIOUS
  <2> QED BY <1>0, <1>5, <2>1, ExecDeals DEF SomeDeal
<1> QED BY <1>1, <1>2, <1>3, <1>4, <1>5 DEF Trade

(* rentcpu, rentnet and the balances of loans *)
LEMMA LendDeals == RexInv /\ Lend => SomeDeal
<1> SUFFICES ASSUME RexInv, Lend
             PROVE  SomeDeal
  OBVIOUS
<1>0. 0 \in Int /\ (\A a \in Users : Payments[a] \subseteq Int) /\ Receivers \subseteq Accounts
  BY RexAssumption
<1>1. ASSUME NEW k \in Kinds, NEW a \in Users, NEW to \in Receivers, NEW x \in Payments[a],
             NEW y \in Payments[a] \cup {0}, rent_rex(k, a, to, x, y)
      PROVE  SomeDeal
  <2>1. to \in Accounts /\ x \in Int /\ y \in Int
    BY <1>0
  <2>2. Deals(a, 0)
    BY <1>1, <2>1, RentDeals
  <2> QED BY <1>0, <2>2 DEF SomeDeal
<1>2. ASSUME NEW k \in Kinds, NEW loan \in loans[k], NEW x \in Payments[loan.from],
             fund_rex_loan(k, loan, x) \/ defund_rex_loan(k, loan, x)
      PROVE  SomeDeal
  <2>1. loan \in Loans
    BY InvFacts, TableFields, TablesAre
  <2>2. loan.from \in Users
    BY <2>1 DEF Loans
  <2>3. x \in Int
    BY <1>0, <2>2
  <2>4. Deals(loan.from, 0)
    BY <1>2, <2>3, LoanFundDeals
  <2> QED BY <1>0, <2>4 DEF SomeDeal
<1> QED BY <1>1, <1>2 DEF Lend

(* Savings and buckets *)
LEMMA SaveDeals == RexInv /\ Save => SomeDeal
<1> SUFFICES ASSUME RexInv, Save
             PROVE  SomeDeal
  OBVIOUS
<1>0. \A a \in Users : RexAmounts[a] \subseteq Int
  BY RexAssumption
<1>1. ASSUME NEW a \in Users, NEW x \in RexAmounts[a], mvtosavings(a, x) \/ mvfrsavings(a, x)
      PROVE  SomeDeal
  <2>1. x \in Int
    BY <1>0
  <2> QED BY <1>1, <2>1, SavingDeals, UnsavingDeals DEF SomeDeal
<1>2. ASSUME NEW a \in Users, consolidate(a)
      PROVE  SomeDeal
  BY <1>2, ConsolidateDeals DEF SomeDeal
<1> QED BY <1>1, <1>2 DEF Save

(* What accounts do with their tokens, stakes and votes *)
LEMMA StakeSteps == RexInv /\ Stake => SomeDeal \/ SomeRestake
<1> SUFFICES ASSUME RexInv, Stake
             PROVE  SomeDeal \/ SomeRestake
  OBVIOUS
<1>0. /\ 0 \in Int /\ (\A a \in Users : Payments[a] \subseteq Int) /\ Stakers \subseteq Users /\ Users \subseteq Accounts
      /\ Stakes \subseteq [Kinds -> Int]
  BY RexAssumption, UsersFinite
<1>1. ASSUME NEW a \in Stakers, NEW x \in Payments[a], deposit(a, x)
      PROVE  SomeDeal
  BY <1>0, <1>1, DepositDeals DEF SomeDeal
<1>2. ASSUME NEW a \in Stakers, NEW x \in Payments[a], withdraw(a, x)
      PROVE  SomeDeal
  BY <1>0, <1>2, WithdrawDeals DEF SomeDeal
<1>3. ASSUME NEW a \in Stakers, NEW to \in Stakers, NEW d \in Stakes, unstaketorex(a, to, d)
      PROVE  SomeRestake
  <2>1. a \in Users /\ to \in Accounts /\ d \in [Kinds -> Int]
    BY <1>0
  <2> QED BY <1>3, <2>1, UnstakeRestakes DEF SomeRestake
<1>4. ASSUME NEW a \in Stakers, NEW to \in Stakers, NEW d \in Stakes, Undelegate(a, to, d)
      PROVE  SomeRestake
  <2>1. a \in Accounts /\ to \in Accounts /\ d \in [Kinds -> Int]
    BY <1>0
  <2> QED BY <1>4, <2>1, UndelegateRestakes DEF SomeRestake
<1>5. ASSUME NEW a \in Stakers, NEW to \in Stakers, NEW d \in Stakes, NEW transfer \in BOOLEAN,
             Delegate(a, to, d, transfer)
      PROVE  SomeRestake
  <2>1. a \in Accounts /\ to \in Accounts /\ d \in [Kinds -> Int]
    BY <1>0
  <2> QED BY <1>5, <2>1, DelegateRestakes DEF SomeRestake
<1>6. ASSUME NEW a \in Stakers, NEW ps \in SUBSET Producers, VoteWithRex(a, None, ps)
      PROVE  SomeDeal
  BY <1>0, <1>6, VoteDeals DEF SomeDeal
<1>7. ASSUME NEW a \in Stakers, NEW k \in Kinds, NEW w \in Managed \cup {None}, setacct(k, a, w),
             UNCHANGED <<rexVars, history>>
      PROVE  SomeDeal
  <2>1. a \in Accounts
    BY <1>0
  <2> QED BY <1>0, <1>7, <2>1, SetacctDeals DEF SomeDeal
<1> QED BY <1>1, <1>2, <1>3, <1>4, <1>5, <1>6, <1>7 DEF Stake

(* Auctions, fees and setrex *)
LEMMA OutsideDeals == RexInv /\ Outside => SomeDeal
<1> SUFFICES ASSUME RexInv, Outside
             PROVE  SomeDeal
  OBVIOUS
<1>0. 0 \in Int /\ Fees \subseteq Nat /\ Rents \subseteq Int
  BY RexAssumption
<1>1. ASSUME NEW x \in Fees, CloseAuction(x) \/ RamFee(x)
      PROVE  SomeDeal
  <2>1. Deals(None, 0)
    BY <1>0, <1>1, AuctionDeals, RamFeeDeals
  <2> QED BY <1>0, <2>1 DEF SomeDeal
<1>2. ASSUME NEW x \in Rents, setrex(x)
      PROVE  SomeDeal
  <2>1. Deals(None, 0)
    BY <1>0, <1>2, SetrexDeals
  <2> QED BY <1>0, <2>1 DEF SomeDeal
<1> QED BY <1>1, <1>2 DEF Outside

(* What else happens on the chain *)
LEMMA OthersSteps == RexInv /\ Others => SomeDeal \/ SomeRestake
<1> SUFFICES ASSUME RexInv, Others
             PROVE  SomeDeal \/ SomeRestake
  OBVIOUS
<1>0. 0 \in Int /\ StakeAccount \in Accounts /\ Stakes \subseteq [Kinds -> Int]
  BY RexAssumption, StakeAssumption
<1>1. ASSUME NEW a \in Users, NEW px \in Accounts, VoteWithRex(a, px, {})
      PROVE  SomeDeal
  BY <1>1, VoteDeals DEF SomeDeal
<1>2. ASSUME NEW to \in Accounts, NEW d \in Stakes, NEW transfer \in BOOLEAN, Delegate(StakeAccount, to, d, transfer)
      PROVE  SomeRestake
  <2>1. d \in [Kinds -> Int]
    BY <1>0
  <2> QED BY <1>0, <1>2, <2>1, DelegateRestakes DEF SomeRestake
<1>3. ASSUME NEW to \in Accounts, NEW d \in Stakes, Undelegate(StakeAccount, to, d)
      PROVE  SomeRestake
  <2>1. d \in [Kinds -> Int]
    BY <1>0
  <2> QED BY <1>0, <1>3, <2>1, UndelegateRestakes DEF SomeRestake
<1>4. ASSUME UNCHANGED <<rexVars, history>>,
             \/ \E a \in Accounts : refund(a) \/ RunDeferred(a) \/ DropDeferred(a)
             \/ /\ \/ \E a \in Accounts, isp \in BOOLEAN : regproxy(a, isp)
                   \/ \E p \in Producers : regproducer(p) \/ unregprod(p)
                /\ UNCHANGED stakeVars
      PROVE  SomeDeal
  <2>1. Deals(None, 0)
    BY <1>4, OtherDeals
  <2> QED BY <1>0, <2>1 DEF SomeDeal
<1> QED BY <1>1, <1>2, <1>3, <1>4 DEF Others

(* Every step is one of the two kinds. *)
LEMMA RexSteps == RexInv /\ [RexNext]_allVars => SomeDeal \/ SomeRestake
<1> SUFFICES ASSUME RexInv, [RexNext]_allVars
             PROVE  SomeDeal \/ SomeRestake
  OBVIOUS
<1>1. CASE RexTick
  <2>1. Deals(None, 0) /\ 0 \in Int
    BY <1>1, TickDeals
  <2> QED BY <2>1 DEF SomeDeal
<1>2. CASE UNCHANGED allVars
  <2>1. /\ UNCHANGED <<rexVars, history>> /\ UNCHANGED <<userres, delband, staked>> /\ now' = now /\ limit' = limit
        /\ managed' = managed
    BY <1>2 DEF allVars, vars, votingVars, stakeVars
  <2>2. now' \in Times /\ now <= now' /\ 0 \in Int
    BY <2>1, InvFacts
  <2>3. LimitsMove
    BY <2>1 DEF LimitsMove, LimitsOK
  <2>4. Deals(None, 0)
    BY <2>1, <2>2, <2>3, QuietDeals
  <2> QED BY <2>2, <2>4 DEF SomeDeal
<1> QED BY <1>1, <1>2, TradeDeals, LendDeals, SaveDeals, StakeSteps, OutsideDeals, OthersSteps DEF RexNext

(* The invariant after a step *)
LEMMA KeptInv == RexInv /\ Kept => RexInv'
<1> SUFFICES ASSUME RexInv, Kept
             PROVE  RexInv'
  OBVIOUS
<1> DEFINE t == Tables'
<1>1. /\ now' \in Times /\ Books(t, now') /\ Waiting(t) - idle' = Waiting(Tables) - idle
      /\ unripe' \in [Users -> [Maturities -> Nat]] /\ swapped' \subseteq Users /\ idle' \in Nat
      /\ \A b \in Users : RipensIn(rexbal'[b], unripe'[b], now')
  BY DEF Kept
<1>2. Waiting(Tables) = idle /\ idle \in Nat
  BY InvFacts
<1>3. t \in TableSet
  BY <1>1 DEF Books
<1>4. /\ t.pool \in Pools \cup {None} /\ t.held.names \in Int /\ t.pool = pool' /\ t.held = held'
      /\ t.pool # None => t.pool.proceeds \in Nat /\ t.pool.total_rex \in Nat
  BY <1>3, TableFields, TablesAreNext, PoolFields
<1>5. Books(Tables, now)'
  BY <1>1
<1> HIDE DEF t
<1>6. ProceedsReachPool'
  <2>1. Waiting(t) \in Int /\ Waiting(t) = idle'
    BY <1>1, <1>2, <1>4 DEF Waiting
  <2>2. held'.names = idle' + IF pool' = None THEN 0 ELSE pool'.proceeds
    BY <1>1, <1>4, <2>1 DEF Waiting
  <2>3. pool' # None => (pool'.proceeds > 0 => pool'.total_rex > 0)
    BY <1>1, <1>4 DEF Books, PoolOK
  <2> QED BY <2>2, <2>3 DEF ProceedsReachPool, rex_available
<1>7. RexTypeOK'
  BY <1>1, <1>3 DEF RexTypeOK, t
<1>8. (\A a \in Users : RipensIn(rexbal[a], unripe[a], now))'
  BY <1>1 DEF RipensIn
<1> QED BY <1>1, <1>5, <1>6, <1>7, <1>8 DEF RexInv

(* RexInv is inductive. *)
LEMMA RexInductive == RexInv /\ [RexNext]_allVars => RexInv' /\ Kept
<1> SUFFICES ASSUME RexInv, [RexNext]_allVars
             PROVE  Kept
  BY KeptInv
<1>1. SomeDeal \/ SomeRestake
  BY RexSteps
<1> QED BY <1>1 DEF SomeDeal, SomeRestake, Deals, Restakes

(* On a chain that starts nobody has REX. *)
LEMMA RexStart == Init /\ RexInit => RexInv
<1> SUFFICES ASSUME Init, RexInit
             PROVE  RexInv
  OBVIOUS
<1> DEFINE s == Tables
           z == [a \in Accounts |-> 0]
           nil == [m \in Maturities |-> 0]
           h == held.rex
<1>0. now = 0 /\ userres = [k \in Kinds |-> z] /\ now \in Times /\ now \in Int
  BY TimeAssumption DEF Init, VotingInit, Times
<1>1. /\ pool = None /\ fund = Deposits /\ rexbal = [a \in Users |-> None] /\ loans = [k \in Kinds |-> {}]
      /\ orders = [a \in Users |-> None] /\ held = [rex |-> SumFunction(Deposits), names |-> 0, ramfee |-> 0]
      /\ unripe = [a \in Users |-> nil] /\ swapped = {} /\ idle = 0
  BY DEF RexInit
<1>2. Deposits \in [Users -> Nat] /\ Deposits \in [Users -> Int] /\ DOMAIN Deposits = Users
  BY RexAssumption
<1>3. h = SumFunctionOnSet(Deposits, Users) /\ h \in Int
  <2>1. h = SumFunctionOnSet(Deposits, Users)
    BY <1>1, <1>2 DEF SumFunction
  <2>2. SumFunctionOnSet(Deposits, Users) \in Int
    BY <1>2, UsersFinite, SumType
  <2> QED BY <2>1, <2>2
<1>4. held = [rex |-> h, names |-> 0, ramfee |-> 0] /\ 0 \in Int
  BY <1>1
<1>5. s = [pool |-> pool, fund |-> fund, bal |-> rexbal, loans |-> loans, orders |-> orders, held |-> held,
           res |-> userres]
  BY DEF Tables
<1> HIDE DEF s, h
<1>6. held \in [rex : Int, names : Int, ramfee : Int] /\ userres \in [Kinds -> [Accounts -> Int]]
  BY <1>0, <1>3, <1>4
<1>7. s \in TableSet
  BY <1>1, <1>2, <1>5, <1>6 DEF TableSet
<1>8. /\ s.pool = None /\ s.fund = Deposits /\ s.held.rex = h /\ \A a \in Users : s.bal[a] = None /\ s.orders[a] = None
      /\ \A k \in Kinds : s.loans[k] = {}
  BY <1>1, <1>4, <1>5
<1>9. BackedOK(s)
  <2>1. Over(BalanceOf, s) = 0
    <3>1. s.loans["net"] = {} /\ s.loans["cpu"] = {}
      BY <1>8, KindsAre
    <3>2. SumFunctionOnSet(BalanceOf, {}) = 0
      BY SumEmpty, LoanAmounts
    <3>3. Over(BalanceOf, s) = 0 + 0
      BY <3>1, <3>2, Zenon DEF Over
    <3> QED BY <3>3
  <2>2. Uncollected(s) = 0
    <3> DEFINE f == [a \in Users |-> Owing(s.orders[a])]
    <3>1. f \in [Users -> Int] /\ \A a \in Users : f[a] = 0
      BY <1>8 DEF Owing, IsFilled
    <3>2. Uncollected(s) = SumFunctionOnSet(f, Users)
      BY DEF Uncollected
    <3> HIDE DEF f
    <3> QED BY <3>1, <3>2, SumOfZeros, UsersFinite
  <2>3. Funds(s) = h /\ Lendable(s) = 0
    BY <1>3, <1>8 DEF Funds, Lendable
  <2> QED BY <1>3, <1>8, <2>1, <2>2, <2>3 DEF BackedOK
<1>10. PoolOK(s) /\ UnusedOK(s) /\ \A a \in Users : RowOK(s.bal[a])
  BY <1>8 DEF PoolOK, UnusedOK, RowOK
<1>11. LoansOK(s, now) /\ OrdersOK(s, now)
  BY <1>8, FS_EmptySet DEF LoansOK, OrdersOK, IsOpen
<1>12. Books(s, now)
  BY <1>7, <1>9, <1>10, <1>11 DEF Books
<1>13. \A a \in Users : RipensIn(rexbal[a], unripe[a], now)
  <2> TAKE a \in Users
  <2>1. rexbal[a] = None /\ unripe[a] = nil /\ nil \in [Maturities -> Int] /\ \A m \in Maturities : nil[m] = 0
    BY <1>1
  <2> HIDE DEF nil
  <2>2. ASSUME NEW t PROVE SumFunctionOnSet(nil, After(t)) = 0
    <3> DEFINE S == After(t)
    <3>1. S \in SUBSET Maturities /\ IsFiniteSet(S)
      BY MaturitiesFinite
    <3> HIDE DEF S
    <3>2. SumFunctionOnSet(nil, S) = 0
      BY <2>1, <3>1, SumOfZeros
    <3> QED BY <3>2 DEF S
  <2>3. BucketsIn(rexbal[a]) = nil /\ SavingsIn(rexbal[a]) = 0
    BY <2>1 DEF BucketsIn, SavingsIn, nil
  <2> QED BY <2>1, <2>2, <2>3 DEF RipensIn
<1>14. RexTypeOK
  BY <1>1, <1>7 DEF RexTypeOK, s
<1>15. ProceedsReachPool
  BY <1>1, <1>4 DEF ProceedsReachPool
<1> QED BY <1>0, <1>12, <1>13, <1>14, <1>15 DEF RexInv, s

-----------------------------------------------------------------------------
(* What the invariant says *)

(* The sums of the properties are those of the books. *)
LEMMA LoanSums ==
  ASSUME NEW L \in SUBSET Loans, IsFiniteSet(L)
  PROVE  /\ SumOver(L, LAMBDA l : l.staked) = SumFunctionOnSet(StakedOf, L)
         /\ SumOver(L, LAMBDA l : l.balance) = SumFunctionOnSet(BalanceOf, L)
<1> DEFINE f == [l \in L |-> l.staked]
           g == [l \in L |-> l.balance]
<1>1. /\ f \in [L -> Int] /\ g \in [L -> Int] /\ DOMAIN f = L /\ DOMAIN g = L
      /\ \A l \in L : f[l] = StakedOf[l] /\ g[l] = BalanceOf[l]
  BY LoanAmounts
<1>2. SumOver(L, LAMBDA l : l.staked) = SumFunction(f) /\ SumOver(L, LAMBDA l : l.balance) = SumFunction(g)
  BY DEF SumOver
<1> HIDE DEF f, g
<1>3. SumFunction(f) = SumFunctionOnSet(f, L) /\ SumFunction(g) = SumFunctionOnSet(g, L)
  BY <1>1 DEF SumFunction
<1>4. SumFunctionOnSet(f, L) = SumFunctionOnSet(StakedOf, L)
  <2>1. L \in SUBSET L /\ L \subseteq Loans /\ StakedOf \in [Loans -> Int]
    BY LoanAmounts
  <2> QED BY <1>1, <2>1, SumSame
<1>5. SumFunctionOnSet(g, L) = SumFunctionOnSet(BalanceOf, L)
  <2>1. L \in SUBSET L /\ L \subseteq Loans /\ BalanceOf \in [Loans -> Int]
    BY LoanAmounts
  <2> QED BY <1>1, <2>1, SumSame
<1> QED BY <1>2, <1>3, <1>4, <1>5

(* A sum over both kinds *)
LEMMA KindsSum ==
  ASSUME NEW f \in [Kinds -> Int]
  PROVE  SumFunction(f) = f["net"] + f["cpu"]
<1>1. Kinds = {"net"} \cup {"cpu"} /\ "net" \in Kinds /\ "cpu" \in Kinds /\ "cpu" \notin {"net"} /\ {"net"} \in SUBSET Kinds
  BY DEF Kinds
<1>2. IsFiniteSet({"net"}) /\ {"net"} = {} \cup {"net"} /\ IsFiniteSet({}) /\ {} \in SUBSET Kinds /\ "net" \notin {}
  BY FS_Singleton, FS_EmptySet
<1>3. SumFunctionOnSet(f, {"net"}) = f["net"]
  <2>1. SumFunctionOnSet(f, {} \cup {"net"}) = SumFunctionOnSet(f, {}) + f["net"]
    BY <1>1, <1>2, SumInsert
  <2>2. SumFunctionOnSet(f, {}) = 0 /\ f["net"] \in Int
    BY <1>1, SumEmpty
  <2> QED BY <1>2, <2>1, <2>2
<1>4. SumFunctionOnSet(f, {"net"} \cup {"cpu"}) = SumFunctionOnSet(f, {"net"}) + f["cpu"]
  BY <1>1, <1>2, SumInsert
<1>5. SumFunction(f) = SumFunctionOnSet(f, Kinds)
  BY DEF SumFunction
<1> QED BY <1>1, <1>3, <1>4, <1>5

(* The sums over all loans *)
LEMMA AllLoans ==
  ASSUME RexInv
  PROVE  /\ SumOver(Kinds, LAMBDA k : SumOver(loans[k], LAMBDA l : l.staked)) = Over(StakedOf, Tables)
         /\ SumOver(Kinds, LAMBDA k : SumOver(loans[k], LAMBDA l : l.balance)) = Over(BalanceOf, Tables)
<1> DEFINE f == [k \in Kinds |-> SumOver(loans[k], LAMBDA l : l.staked)]
           g == [k \in Kinds |-> SumOver(loans[k], LAMBDA l : l.balance)]
<1>1. \A k \in Kinds : loans[k] \in SUBSET Loans /\ IsFiniteSet(loans[k])
  BY InvFacts, TableFields, TablesAre DEF Books, LoansOK
<1>2. ASSUME NEW k \in Kinds
      PROVE  /\ f[k] = SumFunctionOnSet(StakedOf, loans[k]) /\ g[k] = SumFunctionOnSet(BalanceOf, loans[k])
             /\ f[k] \in Int /\ g[k] \in Int
  <2>1. f[k] = SumFunctionOnSet(StakedOf, loans[k]) /\ g[k] = SumFunctionOnSet(BalanceOf, loans[k])
    BY <1>1, LoanSums
  <2>2. SumFunctionOnSet(StakedOf, loans[k]) \in Int /\ SumFunctionOnSet(BalanceOf, loans[k]) \in Int
    BY <1>1, LoanAmounts, SumType
  <2> QED BY <2>1, <2>2
<1>3. f = [k \in Kinds |-> f[k]] /\ g = [k \in Kinds |-> g[k]]
  OBVIOUS
<1>4. /\ SumOver(Kinds, LAMBDA k : SumOver(loans[k], LAMBDA l : l.staked)) = SumFunction(f)
      /\ SumOver(Kinds, LAMBDA k : SumOver(loans[k], LAMBDA l : l.balance)) = SumFunction(g)
  BY DEF SumOver
<1> HIDE DEF f, g
<1>5. f \in [Kinds -> Int] /\ g \in [Kinds -> Int]
  BY <1>2, <1>3
<1>6. SumFunction(f) = f["net"] + f["cpu"] /\ SumFunction(g) = g["net"] + g["cpu"]
  BY <1>5, KindsSum
<1> QED BY <1>2, <1>4, <1>6, KindsAre, TablesAre DEF Over

(* A sum over some users, when it is zero for the others *)
LEMMA PartOfUsers ==
  ASSUME NEW f \in [Users -> Int], NEW S \in SUBSET Users, \A a \in Users \ S : f[a] = 0,
         NEW g \in [S -> Int], \A a \in S : g[a] = f[a]
  PROVE  SumFunction(g) = SumFunctionOnSet(f, Users)
<1>1. IsFiniteSet(S) /\ S \in SUBSET S /\ S \subseteq Users
  BY UsersFinite, FS_Subset
<1>2. SumFunctionOnSet(f, Users) = SumFunctionOnSet(f, S)
  BY UsersFinite, SumZeros
<1>3. SumFunctionOnSet(g, S) = SumFunctionOnSet(f, S)
  BY <1>1, SumSame
<1> QED BY <1>2, <1>3 DEF SumFunction

(* The totals of the pool *)
LEMMA PoolIs == RexInv => PoolAddsUp
<1> SUFFICES ASSUME RexInv
             PROVE  PoolAddsUp
  OBVIOUS
<1>0. /\ Tables \in TableSet /\ Books(Tables, now) /\ pool \in Pools \cup {None}
      /\ rexbal \in [Users -> Balances \cup {None}]
  BY InvFacts, TableFields, TablesAre
<1>1. Holdings = RexHeld(Tables)
  <2> DEFINE S == {a \in Users : rexbal[a] # None}
             f == [a \in Users |-> RexIn(Tables.bal[a])]
             g == [a \in S |-> rexbal[a].rex]
  <2>1. f \in [Users -> Int] /\ g \in [S -> Int] /\ S \in SUBSET Users
    BY <1>0, RowFields, TablesAre DEF RexIn
  <2>2. (\A a \in Users \ S : f[a] = 0) /\ (\A a \in S : g[a] = f[a])
    BY TablesAre DEF RexIn
  <2>3. Holdings = SumFunction(g) /\ RexHeld(Tables) = SumFunctionOnSet(f, Users)
    BY DEF Holdings, SumOver, RexHeld
  <2> HIDE DEF S, f, g
  <2> QED BY <2>1, <2>2, <2>3, PartOfUsers
<1>2. pool # None =>
        /\ pool.lendable = pool.unlent + pool.lent /\ pool.unlent >= 0
        /\ pool.lent = SumOver(Kinds, LAMBDA k : SumOver(loans[k], LAMBDA l : l.staked))
        /\ pool.total_rex = Holdings
        /\ pool.total_rex = 0 <=> pool.lendable = 0
  <2> SUFFICES ASSUME pool # None
               PROVE  /\ pool.lendable = pool.unlent + pool.lent /\ pool.unlent >= 0
                      /\ pool.lent = SumOver(Kinds, LAMBDA k : SumOver(loans[k], LAMBDA l : l.staked))
                      /\ pool.total_rex = Holdings
                      /\ pool.total_rex = 0 <=> pool.lendable = 0
    OBVIOUS
  <2>1. pool.unlent >= 0
    BY <1>0, PoolFields
  <2>2. /\ pool.lendable = pool.unlent + pool.lent /\ pool.lent = Over(StakedOf, Tables)
        /\ pool.total_rex = RexHeld(Tables)
        /\ pool.total_rex = 0 <=> pool.lendable = 0
    BY <1>0, TablesAre DEF Books, PoolOK
  <2>3. Over(StakedOf, Tables) = SumOver(Kinds, LAMBDA k : SumOver(loans[k], LAMBDA l : l.staked))
    BY AllLoans
  <2> QED BY <1>1, <2>1, <2>2, <2>3
<1>3. ASSUME NEW a \in Users, rexbal[a] # None
      PROVE  rexbal[a].rex = rexbal[a].matured + SumFunction(rexbal[a].buckets) + rexbal[a].savings
  <2>1. DOMAIN rexbal[a].buckets = Maturities
    BY <1>0, <1>3, RowFields
  <2>2. SumFunction(rexbal[a].buckets) = SumFunctionOnSet(rexbal[a].buckets, Maturities)
    BY <2>1 DEF SumFunction
  <2> QED BY <1>0, <1>3, <2>2, TablesAre DEF Books, RowOK
<1> QED BY <1>2, <1>3 DEF PoolAddsUp

(* The tokens of eosio.rex *)
LEMMA BackingIs == RexInv => RexIsBacked
<1> SUFFICES ASSUME RexInv
             PROVE  RexIsBacked
  OBVIOUS
<1>0. /\ Tables \in TableSet /\ Books(Tables, now) /\ fund \in [Users -> Nat]
      /\ orders \in [Users -> Orders \cup {None}]
  BY InvFacts, TableFields, TablesAre
<1>1. SumOver({a \in Users : IsFilled(orders[a])}, LAMBDA a : orders[a].proceeds) = Uncollected(Tables)
  <2> DEFINE S == {a \in Users : IsFilled(orders[a])}
             f == [a \in Users |-> Owing(Tables.orders[a])]
             g == [a \in S |-> orders[a].proceeds]
  <2>1. f \in [Users -> Int] /\ g \in [S -> Int] /\ S \in SUBSET Users
    BY <1>0, TablesAre DEF Owing, IsFilled, Orders
  <2>2. (\A a \in Users \ S : f[a] = 0) /\ (\A a \in S : g[a] = f[a])
    BY TablesAre DEF Owing
  <2>3. SumOver(S, LAMBDA a : orders[a].proceeds) = SumFunction(g) /\ Uncollected(Tables) = SumFunctionOnSet(f, Users)
    BY DEF SumOver, Uncollected
  <2>4. SumFunction(g) = SumFunctionOnSet(f, Users)
    <3> HIDE DEF S, f, g
    <3> QED BY <2>1, <2>2, PartOfUsers
  <2> QED BY <2>3, <2>4
<1>2. SumFunction(fund) = Funds(Tables)
  BY <1>0, TablesAre DEF SumFunction, Funds
<1>3. Lendable(Tables) = IF pool = None THEN 0 ELSE pool.lendable
  BY TablesAre DEF Lendable
<1>4. SumOver(Kinds, LAMBDA k : SumOver(loans[k], LAMBDA l : l.balance)) = Over(BalanceOf, Tables)
  BY AllLoans
<1>5. held.rex = ((Funds(Tables) + Lendable(Tables)) + Over(BalanceOf, Tables)) + Uncollected(Tables)
  BY <1>0, TablesAre DEF Books, BackedOK
<1> QED BY <1>1, <1>2, <1>3, <1>4, <1>5 DEF RexIsBacked

(* The queued orders *)
LEMMA OrdersAre == RexInv => OrdersAreCovered
<1> SUFFICES ASSUME RexInv
             PROVE  OrdersAreCovered
  OBVIOUS
<1>1. OrdersOK(Tables, now)
  BY InvFacts DEF Books
<1> QED BY <1>1, TablesAre DEF OrdersOK, OrdersAreCovered

(* What was bought recently *)
LEMMA RipeningIs == RexInv => NoEarlySale
<1> SUFFICES ASSUME RexInv, NEW a \in Users
             PROVE  SumFunctionOnSet(unripe[a], {m \in Maturities : m > now})
                      <= (IF rexbal[a] = None THEN 0 ELSE rexbal[a].rex) - rex_in_sell_order(orders[a])
  BY DEF NoEarlySale
<1> DEFINE b == rexbal[a]
           bought == SumFunctionOnSet(unripe[a], After(now))
           later == SumFunctionOnSet(BucketsIn(b), After(now))
           all == SumFunctionOnSet(BucketsIn(b), Maturities)
<1>0. /\ now \in Int /\ Books(Tables, now) /\ b \in Balances \cup {None} /\ unripe[a] \in [Maturities -> Nat]
      /\ RipensIn(b, unripe[a], now) /\ orders[a] \in Orders \cup {None}
  BY InvFacts, TableFields, TablesAre
<1>1. now \in Maturities
  <2>1. now \in Nat /\ now <= MaxTime /\ MaxTime \in Nat /\ LastMaturity \in Nat
    BY InvFacts, TimeAssumption, BalanceAssumption DEF Times
  <2>2. get_rex_maturity(now) \in Maturities /\ get_rex_maturity(now) > now
    BY InvFacts, MaturityIs
  <2> QED BY <2>1, <2>2 DEF Maturities
<1>2. bought <= SavingsIn(b) + later
  BY <1>0, <1>1 DEF RipensIn
<1>3. BucketsIn(b) \in [Maturities -> Nat] /\ SavingsIn(b) \in Nat
  BY <1>0, RowFields DEF BucketsIn, SavingsIn
<1>4. later \in Nat /\ all \in Nat /\ later <= all
  <2> DEFINE f == BucketsIn(b)
  <2>1. f \in [Maturities -> Nat]
    BY <1>3
  <2> HIDE DEF f
  <2>2. /\ SumFunctionOnSet(f, After(now)) \in Nat /\ SumFunctionOnSet(f, Maturities) \in Nat
        /\ SumFunctionOnSet(f, After(now)) <= SumFunctionOnSet(f, Maturities)
    BY <1>0, <2>1, AfterSums
  <2> QED BY <2>2 DEF f
<1>5. bought \in Nat
  BY <1>0, AfterSums
<1>6. bought = SumFunctionOnSet(unripe[a], {m \in Maturities : m > now})
  BY DEF After
<1>7. CASE b = None
  <2>1. BucketsIn(b) = [m \in Maturities |-> 0] /\ SavingsIn(b) = 0
    BY <1>7 DEF BucketsIn, SavingsIn
  <2>2. later = 0
    <3> DEFINE f == BucketsIn(b)
               S == After(now)
    <3>1. f \in [Maturities -> Int] /\ \A m \in Maturities : f[m] = 0
      BY <2>1
    <3>2. S \in SUBSET Maturities /\ IsFiniteSet(S)
      BY MaturitiesFinite
    <3> HIDE DEF f, S
    <3>3. SumFunctionOnSet(f, S) = 0
      BY <3>1, <3>2, SumOfZeros
    <3> QED BY <3>3 DEF f, S
  <2>3. rex_in_sell_order(orders[a]) = 0
    BY <1>0, <1>7, TablesAre DEF Books, OrdersOK, rex_in_sell_order
  <2> HIDE DEF bought, later, all
  <2> QED BY <1>2, <1>5, <1>6, <1>7, <2>1, <2>2, <2>3
<1>8. CASE b # None
  <2>1. b.rex = b.matured + all + b.savings /\ b.rex \in Nat /\ b.matured \in Nat /\ b.savings \in Nat /\ SavingsIn(b) = b.savings
    BY <1>0, <1>8, RowFields, TablesAre DEF Books, RowOK, BucketsIn, SavingsIn
  <2>2. rex_in_sell_order(orders[a]) \in Nat /\ rex_in_sell_order(orders[a]) <= b.matured
    <3>1. CASE IsOpen(orders[a])
      <4>1. orders[a].requested <= b.matured
        BY <1>0, <3>1, TablesAre DEF Books, OrdersOK
      <4>2. orders[a].requested \in Nat
        BY <1>0, <3>1 DEF IsOpen, Orders
      <4> QED BY <3>1, <4>1, <4>2 DEF rex_in_sell_order
    <3>2. CASE ~IsOpen(orders[a])
      BY <2>1, <3>2 DEF rex_in_sell_order
    <3> QED BY <3>1, <3>2
  <2> HIDE DEF bought, later, all
  <2> QED BY <1>2, <1>4, <1>5, <1>6, <1>8, <2>1, <2>2
<1> QED BY <1>7, <1>8

-----------------------------------------------------------------------------
(* Theorems *)

(* RexInv, the strengthening that the theorems below rest on, always holds. *)
THEOREM RexInvariant == RexSpec => []RexInv
BY RexStart, RexInductive, PTL DEF RexSpec

(* The tables of rex.cpp have rows of the right types: no amount of tokens or
   REX that a row holds is ever negative, whatever runrex does on the way. *)
THEOREM RexTypesKept == RexSpec => []RexTypeOK
<1>1. RexInv => RexTypeOK
  BY DEF RexInv
<1> QED BY <1>1, RexInvariant, PTL

(* eosio.rex always holds exactly what it owes: funds, the pool, the balances of
   loans and uncollected proceeds. *)
THEOREM RexStaysBacked == RexSpec => []RexIsBacked
BY BackingIs, RexInvariant, PTL

(* The totals of the rexpool row are the sums over loans and owners, there are
   tokens as long as there is REX and no loans when there is none. *)
THEOREM PoolStaysInStep == RexSpec => []PoolAddsUp
BY PoolIs, RexInvariant, PTL

(* Queued orders are covered by matured REX, and by loans that end in time. *)
THEOREM OrdersStayCovered == RexSpec => []OrdersAreCovered
BY OrdersAre, RexInvariant, PTL

(* The proceeds of name auctions reach the pool before the last REX is sold. *)
THEOREM ProceedsArrive == RexSpec => []ProceedsReachPool
<1>1. RexInv => ProceedsReachPool
  BY DEF RexInv
<1> QED BY <1>1, RexInvariant, PTL

(* REX that was bought is not sold before it matures. *)
THEOREM PurchasesRipen == RexSpec => []NoEarlySale
BY RipeningIs, RexInvariant, PTL

(* No action makes a unit of REX worth less. *)
THEOREM PriceHolds == RexSpec => PriceNeverFalls
<1> DEFINE Holds == rex_available(pool) /\ rex_available(pool') =>
                      pool.lendable * pool'.total_rex <= pool'.lendable * pool.total_rex
<1>1. RexInv /\ [RexNext]_allVars => [Holds]_allVars
  <2> SUFFICES ASSUME RexInv, [RexNext]_allVars, rex_available(pool), rex_available(pool')
               PROVE  pool.lendable * pool'.total_rex <= pool'.lendable * pool.total_rex
    OBVIOUS
  <2>1. Dearer(Tables, Tables')
    BY RexInductive DEF Kept
  <2>2. /\ TotalRex(Tables) = pool.total_rex /\ TotalRex(Tables') = pool'.total_rex
        /\ Lendable(Tables) = pool.lendable /\ Lendable(Tables') = pool'.lendable
        /\ pool.total_rex > 0 /\ pool'.total_rex > 0
    BY TablesAre, TablesAreNext DEF TotalRex, Lendable, rex_available
  <2> QED BY <2>1, <2>2 DEF Dearer, Cheaper
<1> QED BY <1>1, RexInvariant, PTL DEF RexSpec, PriceNeverFalls

-----------------------------------------------------------------------------
(* Bandwidth *)

(* The bandwidth of an account that it does not rent is delegated to it. *)
BandwidthInv ==
  /\ RexInv /\ LimitsOK
  /\ delband \in [Kinds -> [Pairs -> Nat]]
  /\ \A k \in Kinds, a \in Accounts : Delegations(Tables, k, a) = Total(DelegatedTo(k, a))

(* What from delegates to to changes by d. *)
DelbandMoves(from, to, d) ==
  /\ d \in [Kinds -> Int] /\ delband \in [Kinds -> [Pairs -> Nat]] /\ delband' \in [Kinds -> [Pairs -> Nat]]
  /\ \A k \in Kinds : /\ delband'[k][<<from, to>>] = delband[k][<<from, to>>] + d[k]
                      /\ \A j \in Pairs \ {<<from, to>>} : delband'[k][j] = delband[k][j]

(* That is what Delegated says of the table. *)
LEMMA DelbandChange ==
  ASSUME delband \in [Kinds -> [Pairs -> Nat]], NEW from \in Accounts, NEW to \in Accounts, NEW d, Delegated(from, to, d)
  PROVE  DelbandMoves(from, to, d)
<1> DEFINE i == <<from, to>>
           new == delband'
<1>1. d \in [Kinds -> Int] /\ new = Added(delband, i, d) /\ Sufficient(new, i) /\ i \in Pairs /\ IsFiniteSet(Pairs)
  BY PairsFinite DEF Delegated, Pairs
<1> HIDE DEF i, new
<1>2. /\ new \in [Kinds -> [Pairs -> Nat]]
      /\ \A k \in Kinds : /\ new[k][i] = delband[k][i] + d[k]
                          /\ \A j \in Pairs \ {i} : new[k][j] = delband[k][j]
  BY <1>1, AddedEntry
<1> QED BY <1>1, <1>2 DEF i, new, DelbandMoves

(* The sum of what is delegated to an account changes by as much. *)
LEMMA DelegatedToChange ==
  ASSUME NEW from \in Accounts, NEW to \in Accounts, NEW d, DelbandMoves(from, to, d), NEW k \in Kinds, NEW a \in Accounts
  PROVE  Total(DelegatedTo(k, a))' = Total(DelegatedTo(k, a)) + IF a = to THEN d[k] ELSE 0
<1> DEFINE D == Accounts \X {a}
           f == DelegatedTo(k, a)
           g == DelegatedTo(k, a)'
           i == <<from, to>>
           x == d[k]
<1>1. f \in [D -> Nat] /\ g \in [D -> Nat] /\ x \in Int
  BY DEF DelbandMoves, DelegatedTo, Pairs
<1>2. \A j \in D : j \in Pairs /\ f[j] = delband[k][j] /\ g[j] = delband'[k][j]
  BY DEF DelegatedTo, Pairs
<1>3. i \in D => g[i] = f[i] + x
  BY <1>2 DEF DelbandMoves
<1>4. \A j \in D \ {i} : g[j] = f[j]
  BY <1>2 DEF DelbandMoves
<1>5. i \in D <=> a = to
  OBVIOUS
<1>6. IsFiniteSet(D)
  BY VotingSetsAssumption, FS_Singleton, FS_Product
<1>7. Total(DelegatedTo(k, a))' = Total(g)
  BY DEF Total, Units, UnitsOf
<1> HIDE DEF D, f, g, i, x
<1>8. Total(g) = Total(f) + IF i \in D THEN x ELSE 0
  BY <1>1, <1>3, <1>4, <1>6, TotalMoves
<1> QED BY <1>5, <1>7, <1>8 DEF f, x

(* And that of what an account delegates *)
LEMMA DelegatedByChange ==
  ASSUME NEW from \in Accounts, NEW to \in Accounts, NEW d, DelbandMoves(from, to, d), NEW a \in Accounts
  PROVE  Total(DelegatedBy(a)) \in Nat /\ Total(DelegatedBy(a))' = Total(DelegatedBy(a)) + IF a = from THEN Sum(d) ELSE 0
<1> DEFINE D == {a} \X Accounts
           f == DelegatedBy(a)
           g == DelegatedBy(a)'
           i == <<from, to>>
           x == Sum(d)
<1>0. "net" \in Kinds /\ "cpu" \in Kinds
  BY KindsAre
<1>1. /\ \A j \in Pairs : /\ delband["net"][j] \in Nat /\ delband["cpu"][j] \in Nat
                         /\ delband'["net"][j] \in Nat /\ delband'["cpu"][j] \in Nat
      /\ d["net"] \in Int /\ d["cpu"] \in Int /\ x \in Int
  BY <1>0 DEF DelbandMoves, Sum
<1>2. \A j \in D : /\ j \in Pairs /\ f[j] = delband["net"][j] + delband["cpu"][j]
                  /\ g[j] = delband'["net"][j] + delband'["cpu"][j]
  BY DEF DelegatedBy, Pairs
<1>3. f \in [D -> Nat] /\ g \in [D -> Nat]
  <2>1. f = [j \in D |-> f[j]] /\ g = [j \in D |-> g[j]]
    BY DEF DelegatedBy
  <2>2. \A j \in D : f[j] \in Nat /\ g[j] \in Nat
    BY <1>1, <1>2
  <2> HIDE DEF f, g, D
  <2> QED BY <2>1, <2>2
<1>4. i \in D => g[i] = f[i] + x
  <2> SUFFICES ASSUME i \in D PROVE g[i] = f[i] + x
    OBVIOUS
  <2>1. /\ f[i] = delband["net"][i] + delband["cpu"][i] /\ g[i] = delband'["net"][i] + delband'["cpu"][i]
        /\ delband["net"][i] \in Nat /\ delband["cpu"][i] \in Nat
    BY <1>1, <1>2
  <2>2. delband'["net"][i] = delband["net"][i] + d["net"] /\ delband'["cpu"][i] = delband["cpu"][i] + d["cpu"]
    BY <1>0 DEF DelbandMoves
  <2> HIDE DEF f, g, i
  <2> QED BY <1>1, <2>1, <2>2 DEF Sum
<1>5. \A j \in D \ {i} : g[j] = f[j]
  BY <1>0, <1>2 DEF DelbandMoves
<1>6. i \in D <=> a = from
  OBVIOUS
<1>7. IsFiniteSet(D)
  BY PairsFinite
<1>8. Total(DelegatedBy(a))' = Total(g)
  BY DEF Total, Units, UnitsOf
<1> HIDE DEF D, f, g, i
<1>9. Total(f) \in Nat /\ Total(g) = Total(f) + IF i \in D THEN x ELSE 0
  <2>1. x \in Int
    BY <1>1
  <2> HIDE DEF x
  <2> QED BY <1>3, <1>4, <1>5, <1>7, <2>1, TotalMoves
<1> QED BY <1>6, <1>8, <1>9 DEF f

(* Without a change of delegations the sums stay. *)
LEMMA DelegationsSame ==
  ASSUME delband' = delband
  PROVE  /\ \A k, a : Total(DelegatedTo(k, a))' = Total(DelegatedTo(k, a))
         /\ \A a : Total(DelegatedBy(a))' = Total(DelegatedBy(a))
BY DEF DelegatedTo, DelegatedBy, Total, Units, UnitsOf

(* BandwidthInv is inductive. *)
LEMMA BandwidthInductive == BandwidthInv /\ [RexNext]_allVars => BandwidthInv'
<1> SUFFICES ASSUME BandwidthInv, [RexNext]_allVars
             PROVE  BandwidthInv'
  OBVIOUS
<1>0. /\ RexInv /\ LimitsOK /\ delband \in [Kinds -> [Pairs -> Nat]]
      /\ \A k \in Kinds, a \in Accounts : Delegations(Tables, k, a) = Total(DelegatedTo(k, a))
  BY DEF BandwidthInv
<1>1. RexInv' /\ (SomeDeal \/ SomeRestake)
  BY <1>0, RexInductive, RexSteps
<1>2. CASE SomeDeal
  <2>1. BandwidthKept /\ LimitsMove /\ delband' = delband
    BY <1>2 DEF SomeDeal, Deals
  <2>2. LimitsOK'
    BY <1>0, <2>1 DEF LimitsMove
  <2>3. \A k \in Kinds, a \in Accounts : Delegations(Tables', k, a) = Total(DelegatedTo(k, a))'
    BY <1>0, <2>1, DelegationsSame DEF BandwidthKept
  <2>4. (\A k \in Kinds, a \in Accounts : Delegations(Tables, k, a) = Total(DelegatedTo(k, a)))'
    BY <2>3 DEF Delegations
  <2>5. delband' \in [Kinds -> [Pairs -> Nat]]
    BY <1>0, <2>1
  <2> QED BY <1>1, <2>2, <2>4, <2>5 DEF BandwidthInv
<1>3. CASE SomeRestake
  <2>1. PICK from, to, d : Restakes(from, to, d)
    BY <1>3 DEF SomeRestake
  <2>2. from \in Accounts /\ to \in Accounts /\ Delegated(from, to, d) /\ LimitsMove /\ Reroutes(Tables, Tables', to, d)
    BY <2>1 DEF Restakes, Delegated
  <2>3. LimitsOK'
    BY <1>0, <2>2 DEF LimitsMove
  <2>4. DelbandMoves(from, to, d) /\ delband' \in [Kinds -> [Pairs -> Nat]]
    <3>1. DelbandMoves(from, to, d)
      BY <1>0, <2>2, DelbandChange
    <3> QED BY <3>1 DEF DelbandMoves
  <2>5. ASSUME NEW k \in Kinds, NEW a \in Accounts
        PROVE  Delegations(Tables', k, a) = Total(DelegatedTo(k, a))'
    <3>1. Delegations(Tables', k, a) = Delegations(Tables, k, a) + IF a = to THEN d[k] ELSE 0
      BY <2>2 DEF Reroutes
    <3>2. Total(DelegatedTo(k, a))' = Total(DelegatedTo(k, a)) + IF a = to THEN d[k] ELSE 0
      BY <2>2, <2>4, DelegatedToChange
    <3>3. Delegations(Tables, k, a) = Total(DelegatedTo(k, a))
      BY <1>0
    <3> QED BY <3>1, <3>2, <3>3
  <2>6. (\A k \in Kinds, a \in Accounts : Delegations(Tables, k, a) = Total(DelegatedTo(k, a)))'
    BY <2>5 DEF Delegations
  <2> QED BY <1>1, <2>3, <2>4, <2>6 DEF BandwidthInv
<1> QED BY <1>1, <1>2, <1>3

(* At first nothing is delegated. *)
LEMMA BandwidthStart == Init /\ RexInit => BandwidthInv
<1> SUFFICES ASSUME Init, RexInit
             PROVE  BandwidthInv
  OBVIOUS
<1>1. /\ delband = [k \in Kinds |-> [pair \in Pairs |-> 0]] /\ userres = [k \in Kinds |-> [a \in Accounts |-> 0]]
      /\ limit = [k \in Kinds |-> [a \in Accounts |-> 0]] /\ managed = [k \in Kinds |-> {}]
      /\ loans = [k \in Kinds |-> {}]
  BY DEF Init, RexInit
<1>2. LimitsOK
  BY <1>1 DEF LimitsOK
<1>3. ASSUME NEW k \in Kinds, NEW a \in Accounts
      PROVE  Delegations(Tables, k, a) = Total(DelegatedTo(k, a))
  <2> DEFINE D == Accounts \X {a}
  <2>1. DelegatedTo(k, a) = [pair \in D |-> 0]
    BY <1>1 DEF DelegatedTo, Pairs
  <2>2. Total(DelegatedTo(k, a)) = 0
    <3> HIDE DEF D
    <3> QED BY <2>1, TotalZero
  <2>3. SumFunctionOnSet(StakedFor(a), {}) = 0
    BY SumEmpty, LoanAmounts
  <2>4. Tables.res[k][a] = 0 /\ Tables.loans[k] = {}
    BY <1>1, TablesAre
  <2> QED BY <2>2, <2>3, <2>4 DEF Delegations
<1>4. delband \in [Kinds -> [Pairs -> Nat]]
  BY <1>1
<1> QED BY <1>2, <1>3, <1>4, RexStart DEF BandwidthInv

(* What is rented for an account *)
LEMMA LentIs ==
  ASSUME RexInv, NEW k \in Kinds, NEW a \in Accounts
  PROVE  Lent(k, a) = SumFunctionOnSet(StakedFor(a), loans[k]) /\ Lent(k, a) \in Int
<1> DEFINE L == loans[k]
           S == {l \in L : l.receiver = a}
           f == [l \in L |-> StakedFor(a)[l]]
           g == [l \in S |-> l.staked]
<1>1. L \in SUBSET Loans /\ IsFiniteSet(L) /\ S \in SUBSET L
  BY InvFacts, TableFields, TablesAre DEF Books, LoansOK
<1>2. IsFiniteSet(S)
  BY <1>1, FS_Subset
<1>3. StakedFor(a) \in [Loans -> Int]
  BY LoanAmounts
<1>4. f \in [L -> Int] /\ \A l \in L : f[l] = StakedFor(a)[l]
  BY <1>1, <1>3
<1>5. \A l \in L : /\ l \in S <=> l.receiver = a
                   /\ StakedFor(a)[l] = IF l.receiver = a THEN l.staked ELSE 0
                   /\ l.staked \in Int
  BY <1>1, LoanAmounts
<1>6. g \in [S -> Int] /\ (\A l \in S : g[l] = f[l]) /\ (\A l \in L \ S : f[l] = 0) /\ DOMAIN g = S
  BY <1>1, <1>4, <1>5
<1>7. Lent(k, a) = SumFunction(g)
  BY DEF Lent, SumOver
<1> HIDE DEF L, S, f, g
<1>8. SumFunctionOnSet(f, L) = SumFunctionOnSet(StakedFor(a), L)
  <2>1. L \in SUBSET L /\ L \subseteq Loans
    BY <1>1
  <2> QED BY <1>1, <1>3, <1>4, <2>1, SumSame
<1>9. SumFunctionOnSet(f, L) = SumFunctionOnSet(f, S)
  BY <1>1, <1>4, <1>6, SumZeros
<1>10. SumFunctionOnSet(g, S) = SumFunctionOnSet(f, S)
  <2>1. S \in SUBSET S /\ S \subseteq L
    BY <1>1
  <2> QED BY <1>2, <1>4, <1>6, <2>1, SumSame
<1>11. SumFunction(g) = SumFunctionOnSet(g, S)
  BY <1>6 DEF SumFunction
<1>12. SumFunctionOnSet(StakedFor(a), L) \in Int
  BY <1>1, <1>3, SumType
<1> QED BY <1>7, <1>8, <1>9, <1>10, <1>11, <1>12 DEF L

(* The bandwidth of an account is always what is delegated to it and what it
   rents, and its limits follow unless they are managed by hand. *)
THEOREM ResourcesStayInStep == RexSpec => []ResourcesIncludeLoans
<1>1. BandwidthInv => ResourcesIncludeLoans
  <2> SUFFICES ASSUME BandwidthInv, NEW k \in Kinds, NEW a \in Users
               PROVE  /\ userres[k][a] = Total(DelegatedTo(k, a)) + Lent(k, a)
                      /\ a \notin managed[k] => limit[k][a] = userres[k][a]
    BY DEF ResourcesIncludeLoans
  <2>1. RexInv /\ a \in Accounts /\ LimitsOK /\ Delegations(Tables, k, a) = Total(DelegatedTo(k, a))
    BY UsersFinite DEF BandwidthInv
  <2>2. Lent(k, a) = SumFunctionOnSet(StakedFor(a), loans[k]) /\ Lent(k, a) \in Int
    BY <2>1, LentIs
  <2>3. userres[k][a] \in Int
    BY <2>1, InvFacts, TableFields, TablesAre
  <2>4. Delegations(Tables, k, a) = userres[k][a] - Lent(k, a)
    BY <2>2, TablesAre DEF Delegations
  <2>5. userres[k][a] = Total(DelegatedTo(k, a)) + Lent(k, a)
    BY <2>1, <2>2, <2>3, <2>4
  <2> QED BY <2>1, <2>5 DEF LimitsOK
<1> QED BY <1>1, BandwidthStart, BandwidthInductive, PTL DEF RexSpec

-----------------------------------------------------------------------------
(* Stakes in votes *)

(* The stake of an account that did not buy REX with staked tokens is what it
   delegates and what its REX counts for; and nobody counts REX it has not. *)
StakesInv ==
  /\ staked \in [Accounts -> Int] /\ NobodyIdle
  /\ \A a \in Users \ swapped : staked[a] = Total(DelegatedBy(a)) + StakeIn(Tables, a)

(* StakesInv is inductive as long as REX can be bought for one token. *)
LEMMA StakesInductive == BandwidthInv /\ StakesInv /\ Affordable(pool) /\ [RexNext]_allVars => StakesInv'
<1> SUFFICES ASSUME BandwidthInv, StakesInv, Affordable(pool), [RexNext]_allVars
             PROVE  StakesInv'
  OBVIOUS
<1>0. /\ RexInv /\ delband \in [Kinds -> [Pairs -> Nat]] /\ staked \in [Accounts -> Int] /\ NobodyIdle
      /\ \A a \in Users \ swapped : staked[a] = Total(DelegatedBy(a)) + StakeIn(Tables, a)
  BY DEF BandwidthInv, StakesInv
<1>1. SomeDeal \/ SomeRestake
  BY <1>0, RexSteps
<1>2. /\ Users \subseteq Accounts /\ \A b \in Users : StakeIn(Tables, b) \in Int
  BY <1>0, UsersFinite, InvFacts, StakeType
<1>3. ASSUME NEW a, NEW f \in Int, NEW g \in Int, Revalued(a, f), Adds(a, g), swapped \subseteq swapped',
             NEW x \in Int, a \in swapped' \/ g = f + x,
             \A b \in Users : /\ Total(DelegatedBy(b)) \in Nat
                              /\ Total(DelegatedBy(b))' = Total(DelegatedBy(b)) + IF b = a THEN x ELSE 0
      PROVE  StakesInv'
  <2>1. staked' \in [Accounts -> Int] /\ \A b \in Accounts : staked'[b] = staked[b] + IF b = a THEN g ELSE 0
    BY <1>0, <1>3 DEF Adds
  <2>2. NobodyIdle'
    <3>1. \A b \in Users : NoIdleStake(rexbal'[b])
      BY <1>0, <1>3 DEF Revalued, NobodyIdle
    <3> QED BY <3>1 DEF NobodyIdle, NoIdleStake, RexIn, VoteStake
  <2>3. ASSUME NEW b \in Users, b \notin swapped'
        PROVE  staked'[b] = Total(DelegatedBy(b))' + StakeIn(Tables', b)
    <3>1. staked[b] = Total(DelegatedBy(b)) + StakeIn(Tables, b) /\ StakeIn(Tables, b) \in Int
      BY <1>0, <1>2, <1>3, <2>3
    <3>2. StakeIn(Tables', b) = StakeIn(Tables, b) + IF b = a THEN f ELSE 0
      BY <1>3 DEF Revalued
    <3>3. /\ Total(DelegatedBy(b)) \in Nat
          /\ Total(DelegatedBy(b))' = Total(DelegatedBy(b)) + IF b = a THEN x ELSE 0
      BY <1>3
    <3>4. staked'[b] = staked[b] + IF b = a THEN g ELSE 0
      BY <1>2, <2>1
    <3>5. b = a => g = f + x
      BY <1>3, <2>3
    <3> QED BY <1>3, <3>1, <3>2, <3>3, <3>4, <3>5
  <2>4. (\A b \in Users \ swapped : staked[b] = Total(DelegatedBy(b)) + StakeIn(Tables, b))'
    BY <2>3 DEF StakeIn
  <2> QED BY <2>1, <2>2, <2>4 DEF StakesInv
<1>4. CASE SomeDeal
  <2> DEFINE x == 0
  <2>5. PICK a : \E e \in Int : Deals(a, e)
    BY <1>4 DEF SomeDeal
  <2>1. PICK f \in Int : Deals(a, f)
    BY <2>5
  <2>2. Revalued(a, f) /\ Adds(a, f) /\ swapped' = swapped /\ delband' = delband
    BY <1>0, <2>1 DEF Deals
  <2>3. x \in Int /\ f = f + x
    OBVIOUS
  <2>4. ASSUME NEW b \in Users
        PROVE  /\ Total(DelegatedBy(b)) \in Nat
               /\ Total(DelegatedBy(b))' = Total(DelegatedBy(b)) + IF b = a THEN x ELSE 0
    <3>1. DelegatedBy(b) \in [{b} \X Accounts -> Nat] /\ IsFiniteSet({b} \X Accounts)
      BY <1>0, <1>2, KindsAre, PairsFinite DEF DelegatedBy, Pairs
    <3>2. Total(DelegatedBy(b)) \in Nat
      BY <3>1, TotalType
    <3>3. Total(DelegatedBy(b))' = Total(DelegatedBy(b))
      BY <2>2, DelegationsSame
    <3> QED BY <3>2, <3>3
  <2> HIDE DEF x
  <2> QED BY <1>3, <2>2, <2>3, <2>4
<1>5. CASE SomeRestake
  <2>1. PICK from, to, d : Restakes(from, to, d)
    BY <1>5 DEF SomeRestake
  <2>2. PICK f \in Int, g \in Int : Revalued(from, f) /\ Adds(from, g) /\ (from \in swapped' \/ g = f + Sum(d))
    BY <2>1 DEF Restakes
  <2>3. from \in Accounts /\ to \in Accounts /\ Delegated(from, to, d) /\ swapped \subseteq swapped'
    BY <2>1 DEF Restakes
  <2>4. DelbandMoves(from, to, d)
    BY <1>0, <2>3, DelbandChange
  <2>5. Sum(d) \in Int
    BY <2>4, KindsAre DEF DelbandMoves, Sum
  <2>6. \A b \in Users : /\ Total(DelegatedBy(b)) \in Nat
                         /\ Total(DelegatedBy(b))' = Total(DelegatedBy(b)) + IF b = from THEN Sum(d) ELSE 0
    BY <1>2, <2>3, <2>4, DelegatedByChange
  <2> QED BY <1>3, <2>2, <2>3, <2>5, <2>6
<1> QED BY <1>1, <1>4, <1>5

(* At first nobody has a stake. *)
LEMMA StakesStart == Init /\ RexInit => StakesInv
<1> SUFFICES ASSUME Init, RexInit
             PROVE  StakesInv
  OBVIOUS
<1>1. /\ staked = [v \in Accounts |-> 0] /\ delband = [k \in Kinds |-> [pair \in Pairs |-> 0]]
      /\ rexbal = [a \in Users |-> None] /\ orders = [a \in Users |-> None] /\ Users \subseteq Accounts
  BY UsersFinite DEF Init, VotingInit, RexInit
<1>2. NobodyIdle
  BY <1>1 DEF NobodyIdle, NoIdleStake, VoteStake
<1>3. ASSUME NEW a \in Users
      PROVE  staked[a] = Total(DelegatedBy(a)) + StakeIn(Tables, a)
  <2> DEFINE D == {a} \X Accounts
  <2>1. DelegatedBy(a) = [pair \in D |-> 0]
    <3>1. \A pair \in D : delband["net"][pair] + delband["cpu"][pair] = 0
      BY <1>1, KindsAre DEF Pairs
    <3> QED BY <3>1 DEF DelegatedBy
  <2>2. Total(DelegatedBy(a)) = 0
    <3> HIDE DEF D
    <3> QED BY <2>1, TotalZero
  <2>3. StakeIn(Tables, a) = 0
    BY <1>1, TablesAre DEF StakeIn, VoteStake, PendingStake, IsFilled
  <2> QED BY <1>1, <2>2, <2>3
<1>4. staked \in [Accounts -> Int]
  BY <1>1
<1> QED BY <1>2, <1>3, <1>4 DEF StakesInv

(* As long as one token buys REX, the stake an account votes with is what it
   delegates and what its REX was worth when it was valued last, less what a
   filled order takes away: through sales by runrex, in whatever order.  A
   purchase of no REX at all would count in the stake, and closerex, which asks
   for no REX, would leave it there. *)
THEOREM VotesIncludeRex == RexSpec /\ []Affordable(pool) => []VoterStakeIncludesRex
<1>1. BandwidthInv /\ StakesInv => VoterStakeIncludesRex
  <2> SUFFICES ASSUME BandwidthInv, StakesInv, NEW a \in Users, a \notin swapped
               PROVE  StakeWithRex(a)
    BY DEF VoterStakeIncludesRex
  <2>1. staked[a] = Total(DelegatedBy(a)) + (VoteStake(rexbal[a]) - PendingStake(orders[a])) /\ a \in Accounts
    BY UsersFinite, TablesAre DEF StakesInv, StakeIn
  <2>2. VoteStake(rexbal[a]) \in Int /\ PendingStake(orders[a]) \in Int
    BY InvFacts, StakeType, TablesAre DEF BandwidthInv
  <2>3. Total(DelegatedBy(a)) \in Nat
    <3>1. DelegatedBy(a) \in [{a} \X Accounts -> Nat] /\ IsFiniteSet({a} \X Accounts)
      BY <2>1, KindsAre, PairsFinite DEF BandwidthInv, DelegatedBy, Pairs
    <3> QED BY <3>1, TotalType
  <2>4. staked[a] = Total(DelegatedBy(a)) - PendingStake(orders[a]) + VoteStake(rexbal[a])
    BY <2>1, <2>2, <2>3
  <2> QED BY <2>4 DEF StakeWithRex, VoteStake
<1> QED BY <1>1, BandwidthStart, BandwidthInductive, StakesStart, StakesInductive, PTL DEF RexSpec
=============================================================================
