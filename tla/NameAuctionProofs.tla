------------------------- MODULE NameAuctionProofs --------------------------
(***************************************************************************)
(* Proofs about NameAuction for any bidders, names, suffixes and amounts.  *)
(* The account of every bidder and that of eosio.names are balanced one    *)
(* action at a time; that only the winner claims a name needs an invariant *)
(* that ties the history of all bids to the row that is kept of the last.  *)
(***************************************************************************)
EXTENDS NameAuction, SumsProofs

(* A row in namebids has a bidder: an outbid amount is somebody's refund. *)
BidsHaveBidders == \A n \in Names : bid[n].high_bid # 0 => bid[n].high_bidder \in Bidders

(* Proceeds wait for runrex only while there is REX, so that it never forgets any. *)
ProceedsHaveRex == proceeds > 0 => rex_available

(* While a name is no account, its row is the highest of all bids on it. *)
RowIsBest ==
  \A n \in Names : ~is_account(n) =>
    best[n] = [bidder |-> bid[n].high_bidder, amount |-> Amount(bid[n].high_bid)]

Inv ==
  /\ TypeOK
  /\ BidsHaveBidders
  /\ RowIsBest
  /\ ProceedsHaveRex
  /\ OutbidKeepsTokens
  /\ ProceedsAreEarned

-----------------------------------------------------------------------------
(* The amount of a bid is a natural number, whether the auction is open or closed. *)
LEMMA AmountType ==
  ASSUME NEW x \in Int
  PROVE  Amount(x) \in Nat /\ Amount(-x) = Amount(x) /\ (x > 0 => Amount(x) = x)
BY DEF Amount

(* The families whose sums the invariants speak of have natural values. *)
LEMMA FamilyTypes ==
  ASSUME TypeOK
  PROVE  /\ \A b \in Bidders : /\ Standing(b) \in [Names -> Nat]
                               /\ refunds[b] \in [Names -> Nat]
                               /\ Total(Standing(b)) \in Nat
                               /\ Total(refunds[b]) \in Nat
                               /\ liquid[b] \in Nat /\ spent[b] \in Nat
         /\ OpenBids \in [Names -> Nat] /\ Total(OpenBids) \in Nat
         /\ Owed \in [Bidders -> Nat] /\ Total(Owed) \in Nat
<1> USE NamesAssumption
<1>1. \A n \in Names : bid[n].high_bid \in Int
  BY DEF TypeOK, NameBid
<1>2. ASSUME NEW b \in Bidders
      PROVE  /\ Standing(b) \in [Names -> Nat] /\ refunds[b] \in [Names -> Nat]
             /\ liquid[b] \in Nat /\ spent[b] \in Nat
  <2>1. Standing(b) \in [Names -> Nat]
    BY <1>1, AmountType DEF Standing
  <2> QED BY <2>1 DEF TypeOK, Holders
<1>3. \A b \in Bidders : Total(Standing(b)) \in Nat /\ Total(refunds[b]) \in Nat
  BY <1>2, TotalType
<1>4. OpenBids \in [Names -> Nat]
  BY <1>1 DEF OpenBids, Open
<1>5. Owed \in [Bidders -> Nat]
  BY <1>3 DEF Owed
<1>6. Total(OpenBids) \in Nat /\ Total(Owed) \in Nat
  BY <1>4, <1>5, TotalType
<1> QED BY <1>2, <1>3, <1>4, <1>5, <1>6

(* A step that touches the bid on one name changes the sums by that entry. *)
LEMMA OneBidChanges ==
  ASSUME TypeOK, TypeOK', NEW n \in Names,
         \A m \in Names \ {n} : /\ bid'[m].high_bidder = bid[m].high_bidder
                                /\ bid'[m].high_bid = bid[m].high_bid
  PROVE  /\ \A b \in Bidders : Total(Standing(b)') = Total(Standing(b)) - Standing(b)[n] + Standing(b)'[n]
         /\ Total(OpenBids') = Total(OpenBids) - OpenBids[n] + OpenBids'[n]
<1> USE NamesAssumption
<1>1. ASSUME NEW b \in Bidders
      PROVE  Total(Standing(b)') = Total(Standing(b)) - Standing(b)[n] + Standing(b)'[n]
  <2>1. Standing(b) \in [Names -> Nat] /\ Standing(b)' \in [Names -> Nat]
    BY FamilyTypes, AmountType DEF TypeOK, NameBid, Standing
  <2>2. \A m \in Names \ {n} : Standing(b)'[m] = Standing(b)[m]
    BY DEF Standing
  <2> QED BY <2>1, <2>2, TotalDiffer
<1>2. Total(OpenBids') = Total(OpenBids) - OpenBids[n] + OpenBids'[n]
  <2>1. OpenBids \in [Names -> Nat] /\ OpenBids' \in [Names -> Nat]
    BY FamilyTypes, AmountType DEF TypeOK, NameBid, OpenBids, Open
  <2>2. \A m \in Names \ {n} : OpenBids'[m] = OpenBids[m]
    BY DEF OpenBids, Open
  <2> QED BY <2>1, <2>2, TotalDiffer
<1> QED BY <1>1, <1>2

(* A step that touches one refund changes the sums by that entry. *)
LEMMA OneRefundChanges ==
  ASSUME TypeOK, TypeOK', NEW b \in Bidders, NEW n \in Names,
         NEW v \in Nat, refunds' = [refunds EXCEPT ![b][n] = v]
  PROVE  /\ Total(refunds'[b]) = Total(refunds[b]) - refunds[b][n] + v
         /\ \A x \in Bidders \ {b} : refunds'[x] = refunds[x]
         /\ Total(Owed') = Total(Owed) - refunds[b][n] + v
<1> USE NamesAssumption
<1>1. refunds[b] \in [Names -> Nat] /\ refunds'[b] \in [Names -> Nat] /\ refunds[b][n] \in Nat
  BY DEF TypeOK
<1>2. refunds'[b][n] = v /\ \A m \in Names \ {n} : refunds'[b][m] = refunds[b][m]
  BY DEF TypeOK
<1>3. Total(refunds'[b]) = Total(refunds[b]) - refunds[b][n] + v
  BY <1>1, <1>2, TotalDiffer
<1>4. \A x \in Bidders \ {b} : refunds'[x] = refunds[x]
  BY DEF TypeOK
<1>5. Owed \in [Bidders -> Nat] /\ Total(Owed) \in Nat /\ Total(refunds[b]) \in Nat
  BY FamilyTypes
<1>6. Owed' \in [Bidders -> Nat]
  <2>1. \A x \in Bidders : refunds'[x] \in [Names -> Nat]
    BY DEF TypeOK
  <2>2. \A x \in Bidders : Total(refunds'[x]) \in Nat
    BY <2>1, TotalType
  <2> QED BY <2>2 DEF Owed
<1>7. \A x \in Bidders \ {b} : Owed'[x] = Owed[x]
  BY <1>4 DEF Owed
<1>8. Total(Owed') = Total(Owed) - Owed[b] + Owed'[b]
  BY <1>5, <1>6, <1>7, TotalDiffer
<1>9. Owed[b] = Total(refunds[b]) /\ Owed'[b] = Total(refunds'[b])
  BY DEF Owed
<1> QED BY <1>1, <1>3, <1>4, <1>5, <1>8, <1>9

-----------------------------------------------------------------------------
(* No name has been bid for at first. *)
LEMMA InitInv == Init => Inv
<1> SUFFICES ASSUME Init PROVE Inv
  OBVIOUS
<1> USE NamesAssumption DEF Init
<1>1. TypeOK
  <2>1. liquid \in [Holders -> Nat]
    OBVIOUS
  <2>2. bid \in [Names -> NameBid] /\ \A n \in Names : bid[n].high_bid = 0 <=> bid[n] = NoBid
    BY DEF NameBid, NoBid
  <2>3. /\ close_age \in 0 .. Day + 1 /\ thresh_age \in (0 .. TwoWeeks + 1) \cup {None}
        /\ rex_available \in BOOLEAN /\ proceeds \in Nat /\ idle \in Nat
    <3>1. close_age = Day + 1 /\ Day \in Nat
      OBVIOUS
    <3>2. close_age \in 0 .. Day + 1
      BY ONLY <3>1
    <3>3. thresh_age = None /\ rex_available = FALSE /\ proceeds = 0 /\ idle = 0
      OBVIOUS
    <3> QED BY ONLY <3>2, <3>3
  <2>4. /\ refunds \in [Bidders -> [Names -> Nat]] /\ deferred \subseteq Bidders \X Names
        /\ creator \in [Names -> Creators \cup {None}] /\ spent \in [Bidders -> Nat]
        /\ best \in [Names -> [bidder : Bidders \cup {None}, amount : Nat]]
    OBVIOUS
  <2> QED BY <2>1, <2>2, <2>3, <2>4 DEF TypeOK
<1>2. BidsHaveBidders /\ RowIsBest /\ ProceedsHaveRex
  BY DEF BidsHaveBidders, RowIsBest, ProceedsHaveRex, NoBid, is_account, Amount
<1>3. \A b \in Bidders : refunds[b] = [n \in Names |-> 0] /\ Standing(b) = [n \in Names |-> 0]
  BY DEF Standing, NoBid
<1>4. OpenBids = [n \in Names |-> 0]
  BY DEF OpenBids, Open, NoBid
<1>5. Owed = [b \in Bidders |-> 0]
  <2>1. \A b \in Bidders : Total(refunds[b]) = 0
    BY <1>3, TotalZero
  <2> QED BY <2>1 DEF Owed
<1>6. Total(OpenBids) = 0 /\ Total(Owed) = 0
  BY <1>4, <1>5, TotalZero
<1>7. \A b \in Bidders : Total(refunds[b]) = 0 /\ Total(Standing(b)) = 0
  BY <1>3, TotalZero
<1>8. OutbidKeepsTokens
  BY <1>7 DEF OutbidKeepsTokens, Holders
<1>9. ProceedsAreEarned
  BY <1>6 DEF ProceedsAreEarned, Holders
<1> QED BY <1>1, <1>2, <1>8, <1>9 DEF Inv

(* bidname: the tokens of the new bidder go to eosio.names, the bid that is
   topped becomes its bidder's refund. *)
LEMMA BidInv ==
  ASSUME Inv, NEW b \in Bidders, NEW n \in Names, NEW q \in Bids, bidname(b, n, q)
  PROVE  Inv'
<1> DEFINE old == bid[n].high_bidder
           hb  == bid[n].high_bid
<1>1. /\ TypeOK /\ BidsHaveBidders /\ RowIsBest /\ OutbidKeepsTokens /\ ProceedsAreEarned
      /\ q \in Nat /\ q > 0 /\ b # None /\ hb \in Int
  BY NamesAssumption DEF Inv, bidname, ValidBid, TypeOK, NameBid
<1>2. /\ bid' = [bid EXCEPT ![n] = [high_bidder |-> b, high_bid |-> q, age |-> 0]]
      /\ liquid' = moved(liquid, b, NamesAcct, q)
      /\ best' = [best EXCEPT ![n] = IF q > best[n].amount THEN [bidder |-> b, amount |-> q] ELSE best[n]]
      /\ UNCHANGED <<close_age, thresh_age, rex_available, proceeds, creator, spent, idle>>
      /\ ~is_account(n)
  BY DEF bidname, rexVars
<1>3. /\ liquid' \in [Holders -> Nat]
      /\ liquid'[b] = liquid[b] - q /\ liquid'[NamesAcct] = liquid[NamesAcct] + q
      /\ \A x \in Bidders \ {b} : liquid'[x] = liquid[x]
  <2>1. /\ liquid \in [Holders -> Nat] /\ b \in Holders /\ NamesAcct \in Holders /\ b # NamesAcct
        /\ Covers(liquid, b, q) /\ \A x \in Bidders \ {b} : x \in Holders \ {b, NamesAcct}
    BY <1>1, NamesAssumption DEF TypeOK, Holders, bidname
  <2> QED BY <1>1, <1>2, <2>1, MovedAmounts
<1>4. \/ bid[n] = NoBid /\ hb = 0 /\ old = None /\ UNCHANGED <<refunds, deferred>>
      \/ /\ hb > 0 /\ hb < q /\ old \in Bidders /\ old # b
         /\ refunds' = [refunds EXCEPT ![old][n] = refunds[old][n] + hb]
         /\ deferred' = deferred \cup {<<old, n>>}
  <2>1. CASE bid[n] = NoBid /\ UNCHANGED <<refunds, deferred>>
    BY <2>1 DEF NoBid
  <2>2. CASE /\ Open(n) /\ Raises(n, q) /\ old # b /\ refunds' = RefundOutbid(n)
             /\ deferred' = deferred \cup {<<old, n>>}
    <3>1. hb > 0 /\ old \in Bidders
      BY <1>1, <2>2 DEF Open, BidsHaveBidders
    <3>2. hb < q
      <4>1. hb \in Nat /\ hb \div 10 \in Nat /\ q - hb > hb \div 10
        BY <1>1, <2>2, <3>1 DEF Raises
      <4> QED BY <1>1, <4>1
    <3>3. refunds' = [refunds EXCEPT ![old][n] = refunds[old][n] + hb]
      BY <1>1, <2>2, <3>1 DEF RefundOutbid, TypeOK
    <3> QED BY <2>2, <3>1, <3>2, <3>3
  <2> QED BY <2>1, <2>2 DEF bidname
<1>5. TypeOK'
  <2>1. bid' \in [Names -> NameBid] /\ \A m \in Names : bid'[m].high_bid = 0 <=> bid'[m] = NoBid
    BY <1>1, <1>2, NamesAssumption DEF TypeOK, NameBid, NoBid
  <2>2. refunds' \in [Bidders -> [Names -> Nat]] /\ deferred' \subseteq Bidders \X Names
    <3>1. refunds \in [Bidders -> [Names -> Nat]] /\ deferred \subseteq Bidders \X Names
      BY <1>1 DEF TypeOK
    <3>2. CASE UNCHANGED <<refunds, deferred>>
      BY <3>1, <3>2
    <3>3. CASE /\ hb > 0 /\ old \in Bidders
               /\ refunds' = [refunds EXCEPT ![old][n] = refunds[old][n] + hb]
               /\ deferred' = deferred \cup {<<old, n>>}
      <4> DEFINE v == refunds[old][n] + hb
      <4>1. v \in Nat /\ refunds' = [refunds EXCEPT ![old][n] = v]
        BY <1>1, <3>1, <3>3
      <4> HIDE DEF v, old
      <4> QED BY <3>1, <3>3, <4>1
    <3> QED BY <1>4, <3>2, <3>3
  <2>3. best' \in [Names -> [bidder : Bidders \cup {None}, amount : Nat]]
    BY <1>1, <1>2 DEF TypeOK
  <2> QED BY <1>1, <1>2, <1>3, <2>1, <2>2, <2>3 DEF TypeOK
<1>6. bid'[n].high_bidder = b /\ bid'[n].high_bid = q /\ \A m \in Names \ {n} : bid'[m] = bid[m]
  BY <1>1, <1>2 DEF TypeOK
<1>7. BidsHaveBidders' /\ ProceedsHaveRex'
  BY <1>1, <1>2, <1>6 DEF Inv, BidsHaveBidders, ProceedsHaveRex
<1>8. RowIsBest'
  <2>1. best[n].amount < q
    <3>1. best[n].amount = Amount(hb)
      <4>1. best[n] = [bidder |-> old, amount |-> Amount(hb)]
        BY <1>1, <1>2 DEF RowIsBest
      <4> QED BY <4>1
    <3> QED BY <1>1, <1>4, <3>1 DEF Amount
  <2>2. best'[n] = [bidder |-> b, amount |-> q] /\ \A m \in Names \ {n} : best'[m] = best[m]
    BY <1>1, <1>2, <2>1 DEF TypeOK
  <2> QED BY <1>1, <1>2, <1>6, <2>2, AmountType DEF RowIsBest, is_account
<1>9. /\ \A x \in Bidders : Total(Standing(x)') = Total(Standing(x)) - Standing(x)[n] + Standing(x)'[n]
      /\ Total(OpenBids') = Total(OpenBids) - OpenBids[n] + OpenBids'[n]
  BY <1>1, <1>5, <1>6, OneBidChanges
<1>10. /\ \A x \in Bidders : Standing(x)[n] = IF old = x THEN Amount(hb) ELSE 0
       /\ \A x \in Bidders : Standing(x)'[n] = IF b = x THEN q ELSE 0
       /\ OpenBids[n] = (IF hb > 0 THEN hb ELSE 0) /\ OpenBids'[n] = q
  BY <1>1, <1>6, AmountType DEF Standing, OpenBids, Open
<1>11. \A x \in Bidders : /\ Total(Standing(x)) \in Nat /\ Total(refunds[x]) \in Nat
                           /\ liquid[x] \in Nat /\ spent[x] \in Nat
                           /\ Start[x] \in Nat /\ spent'[x] = spent[x]
                           /\ liquid[x] + Total(refunds[x]) + Total(Standing(x)) + spent[x] = Start[x]
  BY <1>1, <1>2, FamilyTypes, NamesAssumption DEF OutbidKeepsTokens
<1>12. /\ Total(OpenBids) \in Nat /\ Total(Owed) \in Nat /\ proceeds \in Nat /\ idle \in Nat
       /\ liquid[NamesAcct] = Total(OpenBids) + Total(Owed) + proceeds + idle
  BY <1>1, FamilyTypes DEF TypeOK, ProceedsAreEarned
<1>13. CASE hb = 0 /\ old = None /\ UNCHANGED <<refunds, deferred>>
  <2>1. OutbidKeepsTokens'
    <3> SUFFICES ASSUME NEW x \in Bidders
                 PROVE  liquid'[x] + Total(refunds'[x]) + Total(Standing(x)') + spent'[x] = Start[x]
      BY DEF OutbidKeepsTokens
    <3>1. x # None /\ refunds'[x] = refunds[x]
      BY <1>13, NamesAssumption
    <3>2. CASE x = b
      <4>1. Total(Standing(x)') = Total(Standing(x)) + q
        BY <1>1, <1>9, <1>10, <1>11, <1>13, <3>1, <3>2
      <4> QED BY <1>1, <1>3, <1>11, <3>1, <3>2, <4>1
    <3>3. CASE x # b
      <4>1. Total(Standing(x)') = Total(Standing(x))
        BY <1>1, <1>9, <1>10, <1>11, <1>13, <3>1, <3>3
      <4> QED BY <1>1, <1>3, <1>11, <3>1, <3>3, <4>1
    <3> QED BY <3>2, <3>3
  <2>2. ProceedsAreEarned'
    <3>1. Owed' = Owed
      BY <1>13 DEF Owed
    <3>2. Total(OpenBids') = Total(OpenBids) + q
      BY <1>1, <1>9, <1>10, <1>12, <1>13
    <3> QED BY <1>1, <1>2, <1>3, <1>12, <3>1, <3>2 DEF ProceedsAreEarned
  <2> QED BY <1>5, <1>7, <1>8, <2>1, <2>2 DEF Inv
<1>14. CASE /\ hb > 0 /\ old \in Bidders /\ old # b
            /\ refunds' = [refunds EXCEPT ![old][n] = refunds[old][n] + hb]
  <2> DEFINE v == refunds[old][n] + hb
  <2>1. refunds[old][n] \in Nat /\ v \in Nat
    BY <1>1, <1>14 DEF TypeOK
  <2>2. /\ Total(refunds'[old]) = Total(refunds[old]) - refunds[old][n] + v
        /\ \A x \in Bidders \ {old} : refunds'[x] = refunds[x]
        /\ Total(Owed') = Total(Owed) - refunds[old][n] + v
    <3>1. refunds' = [refunds EXCEPT ![old][n] = v]
      BY <1>14
    <3> HIDE DEF v, old
    <3> QED BY <1>1, <1>5, <1>14, <2>1, <3>1, OneRefundChanges
  <2>3. OutbidKeepsTokens'
    <3> SUFFICES ASSUME NEW x \in Bidders
                 PROVE  liquid'[x] + Total(refunds'[x]) + Total(Standing(x)') + spent'[x] = Start[x]
      BY DEF OutbidKeepsTokens
    <3>1. CASE x = b
      <4>1. Total(Standing(x)') = Total(Standing(x)) + q /\ refunds'[x] = refunds[x]
        BY <1>1, <1>9, <1>10, <1>11, <1>14, <2>2, <3>1
      <4> QED BY <1>1, <1>3, <1>11, <3>1, <4>1
    <3>2. CASE x = old
      <4>1. Total(Standing(x)') = Total(Standing(x)) - hb
        BY <1>1, <1>9, <1>10, <1>11, <1>14, <3>2, AmountType
      <4>2. Total(refunds'[x]) = Total(refunds[x]) + hb
        BY <1>1, <1>11, <2>1, <2>2, <3>2
      <4> QED BY <1>1, <1>3, <1>11, <1>14, <3>2, <4>1, <4>2
    <3>3. CASE x # b /\ x # old
      <4>1. Total(Standing(x)') = Total(Standing(x)) /\ refunds'[x] = refunds[x]
        BY <1>1, <1>9, <1>10, <1>11, <1>14, <2>2, <3>3
      <4> QED BY <1>1, <1>3, <1>11, <3>3, <4>1
    <3> QED BY <3>1, <3>2, <3>3
  <2>4. ProceedsAreEarned'
    <3>1. Total(Owed') = Total(Owed) + hb
      BY <1>1, <1>12, <2>1, <2>2
    <3>2. Total(OpenBids') = Total(OpenBids) - hb + q
      BY <1>1, <1>9, <1>10, <1>12, <1>14
    <3> QED BY <1>1, <1>2, <1>3, <1>12, <3>1, <3>2 DEF ProceedsAreEarned
  <2> QED BY <1>5, <1>7, <1>8, <2>3, <2>4 DEF Inv
<1> QED BY <1>4, <1>13, <1>14

(* What the invariant says of the books when no bid changes. *)
LEMMA SameBids ==
  ASSUME bid' = bid
  PROVE  (\A x \in Bidders : Standing(x)' = Standing(x)) /\ OpenBids' = OpenBids
BY DEF Standing, OpenBids, Open

(* A refund is paid once, by bidrefund or by the deferred transaction. *)
LEMMA PayRefundInv ==
  ASSUME Inv, NEW b \in Bidders, NEW n \in Names, PayRefund(b, n), deferred' \subseteq deferred,
         UNCHANGED <<bid, close_age, thresh_age, rex_available, proceeds, creator, best, spent, idle>>
  PROVE  Inv'
<1> DEFINE r == refunds[b][n]
<1>1. /\ TypeOK /\ BidsHaveBidders /\ RowIsBest /\ OutbidKeepsTokens /\ ProceedsAreEarned
      /\ r \in Nat /\ refunds' = [refunds EXCEPT ![b][n] = 0]
  BY DEF Inv, TypeOK, PayRefund
<1>2. /\ liquid' \in [Holders -> Nat]
      /\ liquid'[b] = liquid[b] + r /\ liquid'[NamesAcct] = liquid[NamesAcct] - r
      /\ \A x \in Bidders \ {b} : liquid'[x] = liquid[x]
  <2>1. /\ liquid \in [Holders -> Nat] /\ b \in Holders /\ NamesAcct \in Holders /\ b # NamesAcct
        /\ Covers(liquid, NamesAcct, r) /\ liquid' = moved(liquid, NamesAcct, b, r)
        /\ \A x \in Bidders \ {b} : x \in Holders \ {b, NamesAcct}
    BY <1>1, NamesAssumption DEF TypeOK, Holders, PayRefund
  <2> HIDE DEF r
  <2> QED BY <1>1, <2>1, MovedAmounts
<1>3. TypeOK'
  BY <1>1, <1>2 DEF TypeOK
<1>4. BidsHaveBidders' /\ RowIsBest' /\ ProceedsHaveRex'
  BY <1>1 DEF Inv, BidsHaveBidders, RowIsBest, ProceedsHaveRex, is_account
<1>5. /\ Total(refunds'[b]) = Total(refunds[b]) - r + 0
      /\ \A x \in Bidders \ {b} : refunds'[x] = refunds[x]
      /\ Total(Owed') = Total(Owed) - r + 0
  BY <1>1, <1>3, OneRefundChanges
<1>6. (\A x \in Bidders : Standing(x)' = Standing(x)) /\ OpenBids' = OpenBids
  BY SameBids
<1>7. \A x \in Bidders : /\ Total(Standing(x)) \in Nat /\ Total(refunds[x]) \in Nat
                          /\ liquid[x] \in Nat /\ spent[x] \in Nat /\ Start[x] \in Nat
                          /\ liquid[x] + Total(refunds[x]) + Total(Standing(x)) + spent[x] = Start[x]
  BY <1>1, FamilyTypes, NamesAssumption DEF OutbidKeepsTokens
<1>8. /\ Total(OpenBids) \in Nat /\ Total(Owed) \in Nat /\ proceeds \in Nat /\ idle \in Nat
      /\ liquid[NamesAcct] = Total(OpenBids) + Total(Owed) + proceeds + idle
  BY <1>1, FamilyTypes DEF TypeOK, ProceedsAreEarned
<1> HIDE DEF r
<1>9. OutbidKeepsTokens'
  <2> SUFFICES ASSUME NEW x \in Bidders
               PROVE  liquid'[x] + Total(refunds'[x]) + Total(Standing(x)') + spent'[x] = Start[x]
    BY DEF OutbidKeepsTokens
  <2>1. CASE x = b
    BY <1>1, <1>2, <1>5, <1>6, <1>7, <2>1
  <2>2. CASE x # b
    BY <1>2, <1>5, <1>6, <1>7, <2>2
  <2> QED BY <2>1, <2>2
<1>10. ProceedsAreEarned'
  BY <1>1, <1>2, <1>5, <1>6, <1>8 DEF ProceedsAreEarned
<1> QED BY <1>3, <1>4, <1>9, <1>10 DEF Inv

(* bidrefund, called by anyone. *)
LEMMA RefundInv ==
  ASSUME Inv, NEW b \in Bidders, NEW n \in Names, bidrefund(b, n)
  PROVE  Inv'
BY PayRefundInv DEF bidrefund, rexVars, histVars

(* The deferred refund, which may find the row gone. *)
LEMMA DeferredInv ==
  ASSUME Inv, NEW b \in Bidders, NEW n \in Names, RunDeferred(b, n)
  PROVE  Inv'
<1>1. CASE PayRefund(b, n)
  BY <1>1, PayRefundInv DEF RunDeferred, rexVars, histVars
<1>2. CASE UNCHANGED <<liquid, refunds>>
  <2>1. deferred' \subseteq deferred
    BY DEF RunDeferred
  <2>2. UNCHANGED <<liquid, refunds, bid, close_age, thresh_age, rex_available, proceeds, creator,
                    best, spent, idle>>
    BY <1>2 DEF RunDeferred, rexVars, histVars
  <2>3. (\A x \in Bidders : Standing(x)' = Standing(x)) /\ OpenBids' = OpenBids /\ Owed' = Owed
    BY <2>2, SameBids DEF Owed
  <2>4. TypeOK'
    BY <2>1, <2>2 DEF Inv, TypeOK
  <2>5. BidsHaveBidders' /\ RowIsBest' /\ ProceedsHaveRex'
    BY <2>2 DEF Inv, BidsHaveBidders, RowIsBest, ProceedsHaveRex, is_account
  <2>6. OutbidKeepsTokens' /\ ProceedsAreEarned'
    BY <2>2, <2>3 DEF Inv, OutbidKeepsTokens, ProceedsAreEarned
  <2> QED BY <2>4, <2>5, <2>6 DEF Inv
<1> QED BY <1>1, <1>2 DEF RunDeferred

(* onblock turns an open bid into proceeds, or leaves it idle in eosio.names;
   its bidder still stands with it. *)
LEMMA CloseInv ==
  ASSUME Inv, NEW n \in Names, onblock(n)
  PROVE  Inv'
<1> DEFINE hb == bid[n].high_bid
<1>1. /\ TypeOK /\ BidsHaveBidders /\ RowIsBest /\ OutbidKeepsTokens /\ ProceedsAreEarned
      /\ hb \in Nat /\ hb > 0 /\ bid[n] \in NameBid
  BY DEF Inv, TypeOK, NameBid, onblock, Highest, Open
<1>2. /\ close_age' = 0
      /\ proceeds' = (IF rex_available THEN proceeds + hb ELSE proceeds)
      /\ idle' = (IF rex_available THEN idle ELSE idle + hb)
      /\ UNCHANGED <<liquid, refunds, deferred, thresh_age, creator, rex_available, best, spent>>
  BY DEF onblock, histVars
<1>3. bid' = [bid EXCEPT ![n] = [bid[n] EXCEPT !.high_bid = -hb]]
  BY <1>1 DEF onblock, Negated, TypeOK, NameBid
<1>4. /\ bid'[n] \in NameBid /\ bid'[n].high_bidder = bid[n].high_bidder /\ bid'[n].high_bid = -hb
      /\ \A m \in Names \ {n} : bid'[m] = bid[m]
  <2>1. \A m \in Names \ {n} : bid'[m] = bid[m]
    BY <1>1, <1>3 DEF TypeOK
  <2>2. bid'[n] = [bid[n] EXCEPT !.high_bid = -hb]
    BY <1>1, <1>3 DEF TypeOK
  <2>3. -hb \in Int
    BY <1>1
  <2> QED BY <1>1, <2>1, <2>2, <2>3 DEF NameBid
<1>5. bid' \in [Names -> NameBid]
  BY <1>1, <1>3, <1>4 DEF TypeOK
<1>6. \A m \in Names : bid'[m].high_bid = 0 <=> bid'[m] = NoBid
  <2>1. bid'[n].high_bid # 0 /\ bid'[n] # NoBid
    BY <1>1, <1>4 DEF NoBid
  <2> QED BY <1>1, <1>4, <2>1 DEF TypeOK
<1>7. TypeOK'
  BY <1>1, <1>2, <1>5, <1>6, NamesAssumption DEF TypeOK
<1>8. BidsHaveBidders' /\ ProceedsHaveRex'
  BY <1>1, <1>2, <1>4 DEF Inv, BidsHaveBidders, ProceedsHaveRex
<1>9. RowIsBest'
  <2>1. Amount(-hb) = Amount(hb)
    BY <1>1, AmountType
  <2> SUFFICES ASSUME NEW m \in Names, creator[m] = None
               PROVE  best'[m] = [bidder |-> bid'[m].high_bidder, amount |-> Amount(bid'[m].high_bid)]
    BY <1>2 DEF RowIsBest, is_account
  <2>2. best[m] = [bidder |-> bid[m].high_bidder, amount |-> Amount(bid[m].high_bid)]
    BY <1>1 DEF RowIsBest, is_account
  <2> QED BY <1>2, <1>4, <2>1, <2>2
<1>10. /\ \A x \in Bidders : Total(Standing(x)') = Total(Standing(x)) - Standing(x)[n] + Standing(x)'[n]
       /\ Total(OpenBids') = Total(OpenBids) - OpenBids[n] + OpenBids'[n]
  BY <1>1, <1>4, <1>7, OneBidChanges
<1>11. /\ \A x \in Bidders : Standing(x)[n] = Standing(x)'[n] /\ Standing(x)[n] \in Nat
       /\ OpenBids[n] = hb /\ OpenBids'[n] = 0
  BY <1>1, <1>4, AmountType DEF Standing, OpenBids, Open
<1>12. \A x \in Bidders : Total(Standing(x)') = Total(Standing(x))
  BY <1>1, <1>10, <1>11, FamilyTypes
<1>13. OutbidKeepsTokens'
  BY <1>1, <1>2, <1>12 DEF OutbidKeepsTokens
<1>14. ProceedsAreEarned'
  <2>1. Owed' = Owed
    BY <1>2 DEF Owed
  <2>2. /\ Total(OpenBids) \in Nat /\ Total(Owed) \in Nat /\ proceeds \in Nat /\ idle \in Nat
        /\ liquid[NamesAcct] = Total(OpenBids) + Total(Owed) + proceeds + idle
    BY <1>1, FamilyTypes DEF TypeOK, ProceedsAreEarned
  <2>3. Total(OpenBids') = Total(OpenBids) - hb
    BY <1>1, <1>10, <1>11, <2>2
  <2>4. proceeds' + idle' = proceeds + idle + hb
    BY <1>1, <1>2, <2>2
  <2>5. proceeds' \in Nat /\ idle' \in Nat
    BY <1>1, <1>2, <2>2
  <2> QED BY <1>1, <1>2, <2>1, <2>2, <2>3, <2>4, <2>5 DEF ProceedsAreEarned
<1> QED BY <1>7, <1>8, <1>9, <1>13, <1>14 DEF Inv

(* newaccount: a claimed bid is spent and its row erased; otherwise only the
   account appears. *)
LEMMA NewAccountInv ==
  ASSUME Inv, NEW c \in Creators, NEW n \in Names, newaccount(c, n)
  PROVE  Inv'
<1> DEFINE amount == Amount(bid[n].high_bid)
<1>1. /\ TypeOK /\ BidsHaveBidders /\ RowIsBest /\ OutbidKeepsTokens /\ ProceedsAreEarned
      /\ amount \in Nat /\ bid[n].high_bid \in Int
  BY AmountType DEF Inv, TypeOK, NameBid
<1>2. /\ creator' = [creator EXCEPT ![n] = c] /\ c # None
      /\ UNCHANGED <<liquid, refunds, deferred, close_age, thresh_age, rex_available, proceeds, best, idle>>
  BY NamesAssumption DEF newaccount, Creators, rexVars
<1>3. /\ creator' \in [Names -> Creators \cup {None}] /\ creator'[n] # None
      /\ \A m \in Names \ {n} : creator'[m] = creator[m]
  BY <1>1, <1>2 DEF TypeOK
<1>4. Owed' = Owed
  BY <1>2 DEF Owed
<1>5. CASE UNCHANGED <<bid, spent>>
  <2>1. (\A x \in Bidders : Standing(x)' = Standing(x)) /\ OpenBids' = OpenBids
    BY <1>5, SameBids
  <2>2. TypeOK'
    BY <1>1, <1>2, <1>3, <1>5 DEF TypeOK
  <2>3. BidsHaveBidders' /\ RowIsBest' /\ ProceedsHaveRex'
    BY <1>1, <1>2, <1>3, <1>5 DEF Inv, BidsHaveBidders, RowIsBest, ProceedsHaveRex, is_account
  <2>4. OutbidKeepsTokens' /\ ProceedsAreEarned'
    BY <1>1, <1>2, <1>4, <1>5, <2>1 DEF OutbidKeepsTokens, ProceedsAreEarned
  <2> QED BY <2>2, <2>3, <2>4 DEF Inv
<1>6. CASE /\ Wins(c, n) /\ bid' = [bid EXCEPT ![n] = NoBid]
           /\ spent' = [spent EXCEPT ![c] = @ + Amount(bid[n].high_bid)]
  <2>1. bid[n].high_bidder = c /\ bid[n].high_bid < 0 /\ c \in Bidders
    BY <1>1, <1>6, NamesAssumption DEF Wins, Closed, BidsHaveBidders, TypeOK, NameBid
  <2>2. /\ bid'[n] = NoBid /\ bid'[n].high_bidder = None /\ bid'[n].high_bid = 0
        /\ \A m \in Names \ {n} : bid'[m] = bid[m]
    BY <1>1, <1>6 DEF TypeOK, NoBid
  <2>3. NoBid \in NameBid
    BY NamesAssumption DEF NoBid, NameBid
  <2>4. /\ spent' \in [Bidders -> Nat] /\ spent'[c] = spent[c] + amount
        /\ \A x \in Bidders \ {c} : spent'[x] = spent[x]
    <3> HIDE DEF amount
    <3>1. spent' = [spent EXCEPT ![c] = spent[c] + amount]
      BY <1>6 DEF amount
    <3> QED BY <1>1, <2>1, <3>1 DEF TypeOK
  <2>5. TypeOK'
    <3>1. bid' \in [Names -> NameBid] /\ \A m \in Names : bid'[m].high_bid = 0 <=> bid'[m] = NoBid
      BY <1>1, <1>6, <2>2, <2>3 DEF TypeOK
    <3> QED BY <1>1, <1>2, <1>3, <2>4, <3>1 DEF TypeOK
  <2>6. BidsHaveBidders' /\ ProceedsHaveRex'
    BY <1>1, <1>2, <2>2 DEF Inv, BidsHaveBidders, ProceedsHaveRex
  <2>7. RowIsBest'
    BY <1>1, <1>2, <1>3, <2>2 DEF RowIsBest, is_account
  <2>8. /\ \A x \in Bidders : Total(Standing(x)') = Total(Standing(x)) - Standing(x)[n] + Standing(x)'[n]
        /\ Total(OpenBids') = Total(OpenBids) - OpenBids[n] + OpenBids'[n]
    BY <1>1, <2>2, <2>5, OneBidChanges
  <2>9. /\ \A x \in Bidders : Standing(x)[n] = (IF c = x THEN amount ELSE 0) /\ Standing(x)'[n] = 0
        /\ OpenBids[n] = 0 /\ OpenBids'[n] = 0
    <3>1. None \notin Bidders /\ ~(bid[n].high_bid > 0)
      BY <1>1, <2>1, NamesAssumption
    <3> QED BY <2>1, <2>2, <3>1 DEF Standing, OpenBids, Open
  <2> HIDE DEF amount
  <2>10. OutbidKeepsTokens'
    <3> SUFFICES ASSUME NEW x \in Bidders
                 PROVE  liquid'[x] + Total(refunds'[x]) + Total(Standing(x)') + spent'[x] = Start[x]
      BY DEF OutbidKeepsTokens
    <3>1. /\ Total(Standing(x)) \in Nat /\ Total(refunds[x]) \in Nat
          /\ liquid[x] \in Nat /\ spent[x] \in Nat /\ Start[x] \in Nat
          /\ liquid[x] + Total(refunds[x]) + Total(Standing(x)) + spent[x] = Start[x]
      BY <1>1, FamilyTypes, NamesAssumption DEF OutbidKeepsTokens
    <3>2. Total(Standing(x)') = Total(Standing(x)) - (IF c = x THEN amount ELSE 0)
      BY <1>1, <2>8, <2>9, <3>1
    <3>3. spent'[x] = spent[x] + (IF c = x THEN amount ELSE 0)
      BY <1>1, <2>4, <3>1
    <3> QED BY <1>1, <1>2, <3>1, <3>2, <3>3
  <2>11. ProceedsAreEarned'
    <3>1. Total(OpenBids') = Total(OpenBids)
      BY <1>1, <2>8, <2>9, FamilyTypes
    <3> QED BY <1>1, <1>2, <1>4, <3>1 DEF ProceedsAreEarned
  <2> QED BY <2>5, <2>6, <2>7, <2>10, <2>11 DEF Inv
<1> QED BY <1>5, <1>6 DEF newaccount

(* Activation and time change no bid's amount. *)
LEMMA TimeInv ==
  ASSUME Inv, Activated \/ Tick
  PROVE  Inv'
<1>1. /\ TypeOK /\ BidsHaveBidders /\ RowIsBest /\ OutbidKeepsTokens /\ ProceedsAreEarned
      /\ UNCHANGED <<liquid, refunds, deferred, rex_available, proceeds, creator, best, spent, idle>>
  BY DEF Inv, Activated, Tick, rexVars, histVars
<1>2. /\ bid' \in [Names -> NameBid]
      /\ \A m \in Names : /\ bid'[m].high_bidder = bid[m].high_bidder
                           /\ bid'[m].high_bid = bid[m].high_bid
                           /\ (bid'[m].high_bid = 0 <=> bid'[m] = NoBid)
  <2>1. CASE Activated
    BY <1>1, <2>1 DEF Activated, TypeOK
  <2>2. CASE Tick
    <3> SUFFICES ASSUME NEW m \in Names
                 PROVE  /\ bid'[m] \in NameBid
                        /\ bid'[m].high_bidder = bid[m].high_bidder
                        /\ bid'[m].high_bid = bid[m].high_bid
                        /\ (bid'[m].high_bid = 0 <=> bid'[m] = NoBid)
      BY <2>2 DEF Tick
    <3>1. bid[m] \in NameBid /\ (bid[m].high_bid = 0 <=> bid[m] = NoBid)
      BY <1>1 DEF TypeOK
    <3>2. CASE bid[m] = NoBid
      BY <2>2, <3>1, <3>2 DEF Tick
    <3>3. CASE bid[m] # NoBid
      <4>1. bid'[m] = [bid[m] EXCEPT !.age = Older(bid[m].age, Day)]
        BY <2>2, <3>1, <3>3 DEF Tick, NameBid
      <4>2. Older(bid[m].age, Day) \in 0 .. Day + 1
        BY <3>1, NamesAssumption DEF Older, NameBid
      <4>3. bid'[m].high_bid # 0 /\ bid'[m] # NoBid
        BY <3>1, <3>3, <4>1 DEF NameBid, NoBid
      <4> HIDE DEF Older
      <4> QED BY <3>1, <4>1, <4>2, <4>3 DEF NameBid
    <3> QED BY <3>2, <3>3
  <2> QED BY <2>1, <2>2
<1>3. close_age' \in 0 .. Day + 1 /\ thresh_age' \in (0 .. TwoWeeks + 1) \cup {None}
  BY <1>1, NamesAssumption DEF TypeOK, Activated, Tick, Older
<1>4. TypeOK'
  BY <1>1, <1>2, <1>3 DEF TypeOK
<1>5. BidsHaveBidders' /\ RowIsBest' /\ ProceedsHaveRex'
  BY <1>1, <1>2 DEF Inv, BidsHaveBidders, RowIsBest, ProceedsHaveRex, is_account
<1>6. (\A x \in Bidders : Standing(x)' = Standing(x)) /\ OpenBids' = OpenBids /\ Owed' = Owed
  BY <1>1, <1>2 DEF Standing, OpenBids, Open, Owed
<1>7. OutbidKeepsTokens' /\ ProceedsAreEarned'
  BY <1>1, <1>6 DEF OutbidKeepsTokens, ProceedsAreEarned
<1> QED BY <1>4, <1>5, <1>7 DEF Inv

(* runrex takes the proceeds out of eosio.names and nothing else. *)
LEMMA ChannelInv ==
  ASSUME Inv, runrex \/ buyrex
  PROVE  Inv'
<1>1. /\ TypeOK /\ BidsHaveBidders /\ RowIsBest /\ OutbidKeepsTokens /\ ProceedsAreEarned
      /\ proceeds \in Nat /\ proceeds' = 0 /\ rex_available' \in BOOLEAN
      /\ UNCHANGED <<bid, refunds, deferred, close_age, thresh_age, creator, best, spent, idle>>
  BY DEF Inv, TypeOK, runrex, buyrex, channel_proceeds, ProceedsLeft, histVars
<1>2. /\ liquid' \in [Holders -> Nat]
      /\ liquid'[NamesAcct] = liquid[NamesAcct] - proceeds
      /\ \A x \in Bidders : liquid'[x] = liquid[x]
  <2>1. /\ liquid \in [Holders -> Nat] /\ NamesAcct \in Holders /\ RexAcct \in Holders
        /\ NamesAcct # RexAcct /\ \A x \in Bidders : x \in Holders \ {NamesAcct, RexAcct}
    BY <1>1, NamesAssumption DEF TypeOK, Holders
  <2>2. CASE proceeds > 0
    <3>1. Covers(liquid, NamesAcct, proceeds) /\ liquid' = moved(liquid, NamesAcct, RexAcct, proceeds)
      BY <2>2 DEF Inv, ProceedsHaveRex, runrex, buyrex, channel_proceeds
    <3> QED BY <1>1, <2>1, <3>1, MovedAmounts
  <2>3. CASE proceeds = 0
    <3>1. ~(proceeds > 0)
      BY <2>3
    <3>2. liquid' = liquid
      BY <3>1 DEF runrex, buyrex, channel_proceeds
    <3> QED BY <2>1, <2>3, <3>2
  <2> QED BY <1>1, <2>2, <2>3
<1>3. (\A x \in Bidders : Standing(x)' = Standing(x)) /\ OpenBids' = OpenBids /\ Owed' = Owed
  BY <1>1, SameBids DEF Owed
<1>4. TypeOK'
  BY <1>1, <1>2 DEF TypeOK
<1>5. BidsHaveBidders' /\ RowIsBest' /\ ProceedsHaveRex'
  BY <1>1 DEF BidsHaveBidders, RowIsBest, ProceedsHaveRex, is_account
<1>6. OutbidKeepsTokens'
  BY <1>1, <1>2, <1>3 DEF OutbidKeepsTokens
<1>7. ProceedsAreEarned'
  <2>1. /\ Total(OpenBids) \in Nat /\ Total(Owed) \in Nat /\ idle \in Nat
        /\ liquid[NamesAcct] = Total(OpenBids) + Total(Owed) + proceeds + idle
    BY <1>1, FamilyTypes DEF TypeOK, ProceedsAreEarned
  <2> QED BY <1>1, <1>2, <1>3, <2>1 DEF ProceedsAreEarned
<1> QED BY <1>4, <1>5, <1>6, <1>7 DEF Inv

-----------------------------------------------------------------------------
(* Bids, refunds, closings, newaccount and the actions of REX keep the invariant. *)
LEMMA NextInv == Inv /\ [Next]_vars => Inv'
<1> SUFFICES ASSUME Inv, [Next]_vars PROVE Inv'
  OBVIOUS
<1>1. CASE \E b \in Bidders, n \in Names :
             (\E q \in Bids : bidname(b, n, q)) \/ bidrefund(b, n) \/ RunDeferred(b, n)
  BY <1>1, BidInv, RefundInv, DeferredInv
<1>2. CASE \E c \in Creators, n \in Names : newaccount(c, n)
  BY <1>2, NewAccountInv
<1>3. CASE CloseOne
  BY <1>3, CloseInv DEF CloseOne
<1>4. CASE Activated \/ Tick
  BY <1>4, TimeInv
<1>5. CASE UNCHANGED vars
  <2>1. UNCHANGED <<liquid, bid, refunds, deferred, close_age, thresh_age, rex_available, proceeds,
                    creator, best, spent, idle>>
    BY <1>5 DEF vars, rexVars, histVars
  <2>2. (\A x \in Bidders : Standing(x)' = Standing(x)) /\ OpenBids' = OpenBids /\ Owed' = Owed
    BY <2>1, SameBids DEF Owed
  <2>3. TypeOK' /\ BidsHaveBidders' /\ RowIsBest' /\ ProceedsHaveRex'
    BY <2>1 DEF Inv, TypeOK, BidsHaveBidders, RowIsBest, ProceedsHaveRex, is_account
  <2>4. OutbidKeepsTokens' /\ ProceedsAreEarned'
    BY <2>1, <2>2 DEF Inv, OutbidKeepsTokens, ProceedsAreEarned
  <2> QED BY <2>3, <2>4 DEF Inv
<1>6. CASE runrex \/ buyrex
  BY <1>6, ChannelInv
<1> QED BY <1>1, <1>2, <1>3, <1>4, <1>5, <1>6 DEF Next

(* The invariant is one of the specification. *)
THEOREM AuctionInvariant == Spec => []Inv
BY InitInv, NextInv, PTL DEF Spec

(* Every bidder's tokens are accounted for: in hand, in a refund row, in a bid
   that stands, or spent on a name it claimed. *)
THEOREM BiddersKeepTokens == Spec => []OutbidKeepsTokens
<1>1. Inv => OutbidKeepsTokens
  BY DEF Inv
<1> QED BY <1>1, AuctionInvariant, PTL

(* eosio.names holds the open bids, the refunds, the proceeds that runrex has not
   channelled and the bids that closed without REX, whatever order auctions close
   in and however often runrex empties the proceeds. *)
THEOREM NamesAcctCovers == Spec => []ProceedsAreEarned
<1>1. Inv => ProceedsAreEarned
  BY DEF Inv
<1> QED BY <1>1, AuctionInvariant, PTL

(* Every payment out of eosio.names is covered: that of the proceeds, without which
   every action of REX would fail, and that of any refund, one after the other. *)
THEOREM ChannelIsCovered ==
  Spec => [](/\ proceeds > 0 => rex_available /\ Covers(liquid, NamesAcct, proceeds)
             /\ \A b \in Bidders, n \in Names : Covers(liquid, NamesAcct, proceeds + refunds[b][n]))
<1> DEFINE Covered ==
             /\ proceeds > 0 => rex_available /\ Covers(liquid, NamesAcct, proceeds)
             /\ \A b \in Bidders, n \in Names : Covers(liquid, NamesAcct, proceeds + refunds[b][n])
<1>1. Inv => Covered
  <2> SUFFICES ASSUME Inv PROVE Covered
    OBVIOUS
  <2>1. /\ Total(OpenBids) \in Nat /\ Total(Owed) \in Nat /\ proceeds \in Nat /\ idle \in Nat
        /\ liquid[NamesAcct] = Total(OpenBids) + Total(Owed) + proceeds + idle
    BY FamilyTypes DEF Inv, TypeOK, ProceedsAreEarned
  <2>2. ASSUME NEW b \in Bidders, NEW n \in Names
        PROVE  refunds[b][n] \in Nat /\ refunds[b][n] <= Total(Owed)
    <3>1. /\ refunds[b] \in [Names -> Nat] /\ Owed \in [Bidders -> Nat]
          /\ Owed[b] = Total(refunds[b]) /\ refunds[b][n] \in Nat /\ Total(refunds[b]) \in Nat
      BY FamilyTypes DEF Inv, TypeOK, Owed
    <3>2. refunds[b][n] <= Total(refunds[b]) /\ Owed[b] <= Total(Owed)
      BY <3>1, NamesAssumption, TotalBound
    <3> QED BY <2>1, <3>1, <3>2
  <2>3. proceeds > 0 => rex_available /\ Covers(liquid, NamesAcct, proceeds)
    BY <2>1 DEF Inv, ProceedsHaveRex, Covers
  <2>4. ASSUME NEW b \in Bidders, NEW n \in Names
        PROVE  Covers(liquid, NamesAcct, proceeds + refunds[b][n])
    BY <2>1, <2>2 DEF Covers
  <2> QED BY <2>3, <2>4
<1> HIDE DEF Covered
<1>2. Spec => []Covered
  BY <1>1, AuctionInvariant, PTL
<1> QED BY <1>2 DEF Covered

(* Only the one who made the highest of all bids, the owner of the suffix or the
   system account ever becomes the creator of a name. *)
THEOREM WinnersClaim == Spec => OnlyWinnersClaim
<1> DEFINE Step == \A n \in Names : creator'[n] # creator[n] =>
              \/ creator'[n] = System
              \/ /\ Suffix[n] = n /\ Closed(n)
                 /\ best[n] = [bidder |-> creator'[n], amount |-> -bid[n].high_bid]
              \/ Suffix[n] # n /\ creator'[n] = Suffix[n] /\ is_account(Suffix[n])
<1>1. Inv /\ [Next]_vars => [Step]_vars
  <2> SUFFICES ASSUME Inv, Next, NEW n \in Names, creator'[n] # creator[n]
               PROVE  \/ creator'[n] = System
                      \/ /\ Suffix[n] = n /\ Closed(n)
                         /\ best[n] = [bidder |-> creator'[n], amount |-> -bid[n].high_bid]
                      \/ Suffix[n] # n /\ creator'[n] = Suffix[n] /\ is_account(Suffix[n])
    OBVIOUS
  <2>1. PICK c \in Creators, m \in Names : newaccount(c, m)
    BY DEF Next, bidname, bidrefund, RunDeferred, CloseOne, onblock, runrex, buyrex,
           channel_proceeds, Activated, Tick
  <2>2. m = n /\ creator'[n] = c /\ ~is_account(n)
    BY <2>1 DEF newaccount, Inv, TypeOK
  <2>3. CASE c = System
    BY <2>2, <2>3
  <2>4. CASE c # System /\ Suffix[n] = n /\ Wins(c, n)
    <3>1. best[n] = [bidder |-> c, amount |-> Amount(bid[n].high_bid)] /\ Closed(n)
      BY <2>2, <2>4 DEF Inv, RowIsBest, Wins
    <3>2. Amount(bid[n].high_bid) = -bid[n].high_bid
      BY <3>1 DEF Closed, Amount
    <3> QED BY <2>2, <2>4, <3>1, <3>2
  <2>5. CASE c # System /\ Suffix[n] # n /\ c = Suffix[n]
    <3>1. c \in Names
      BY <2>5, NamesAssumption
    <3> QED BY <2>1, <2>2, <2>5, <3>1 DEF newaccount
  <2> QED BY <2>1, <2>2, <2>3, <2>4, <2>5 DEF newaccount
<1>2. OnlyWinnersClaim <=> [][Step]_vars
  BY DEF OnlyWinnersClaim
<1> HIDE DEF Step
<1> QED BY <1>1, <1>2, AuctionInvariant, PTL DEF Spec
=============================================================================
