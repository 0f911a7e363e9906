-------------------------- MODULE EosioTokenProofs --------------------------
(***************************************************************************)
(* The token's invariants for any accounts, codes, precisions and range of *)
(* amounts.  The inductive invariant is the conjunction of the four        *)
(* invariants the model checker checks: SupplyIsTotal needs the types,     *)
(* and RowsMatchStats is what lets create start from an empty table.       *)
(***************************************************************************)
EXTENDS EosioToken, SumsProofs

Inv == TypeOK /\ SupplyIsTotal /\ SupplyWithinMax /\ RowsMatchStats

(* One transaction of some kind, the signer aside. *)
Step(s, c) ==
  \/ \E p \in Precisions, a \in Accounts, q \in InputAmounts :
       create(s, c, p, a, q) \/ issue(s, c, p, a, q)
  \/ \E p \in Precisions, q \in InputAmounts : retire(s, c, p, q)
  \/ \E p \in Precisions, from, to \in Accounts, q \in InputAmounts :
       transfer(s, c, p, from, to, q)
  \/ \E p \in Precisions, a \in Accounts : open(c, p, a)
  \/ \E a \in Accounts : close(s, c, a)

(* A step of the token contract is one of its handlers on one symbol code. *)
LEMMA NextIsStep ==
  ASSUME Next
  PROVE  \E s \in Accounts, c \in Codes : signer' = s /\ Step(s, c)
BY DEF Next, Step

(* The stored amounts are integers, whatever a caller writes. *)
LEMMA InputAmountsType == InputAmounts \subseteq Int
BY MaxAmountAssumption DEF InputAmounts

(* A transfer between two accounts keeps the sum of the balances. *)
LEMMA MovedKeepsTotal ==
  ASSUME NEW bal \in [Accounts -> Nat], NEW from \in Accounts, NEW to \in Accounts,
         from # to, NEW q \in Nat, bal[from] >= q
  PROVE  /\ moved(bal, from, to, q) \in [Accounts -> Nat]
         /\ Total(moved(bal, from, to, q)) = Total(bal)
<1> DEFINE less == [bal EXCEPT ![from] = bal[from] - q]
           more == [less EXCEPT ![to] = less[to] + q]
<1>1. less \in [Accounts -> Nat] /\ less[to] = bal[to]
  OBVIOUS
<1>2. more \in [Accounts -> Nat]
  OBVIOUS
<1>3. moved(bal, from, to, q) = more
  BY DEF moved, add_balance, sub_balance
<1>4. Total(less) = Total(bal) - bal[from] + (bal[from] - q)
  <2>1. bal[from] - q \in Nat
    OBVIOUS
  <2> QED BY <2>1, TotalUpdate, AccountsAssumption
<1>5. Total(more) = Total(less) - less[to] + (less[to] + q)
  <2>1. less[to] + q \in Nat
    OBVIOUS
  <2> HIDE DEF less
  <2> QED BY <1>1, <2>1, TotalUpdate, AccountsAssumption
<1>6. Total(bal) \in Nat /\ bal[from] \in Nat /\ bal[to] \in Nat
  BY TotalType, AccountsAssumption
<1> HIDE DEF less, more
<1>7. Total(more) = Total(bal)
  BY <1>1, <1>4, <1>5, <1>6
<1> QED BY <1>2, <1>3, <1>7

(* There are no tokens and no balances at first. *)
LEMMA InitInv == Init => Inv
<1> SUFFICES ASSUME Init PROVE Inv
  OBVIOUS
<1>1. TypeOK
  BY AccountsAssumption DEF Init, TypeOK, NoStat, StatRow
<1>2. SupplyIsTotal
  BY TotalZero DEF Init, SupplyIsTotal, NoStat
<1>3. SupplyWithinMax
  BY MaxAmountAssumption DEF Init, SupplyWithinMax, NoStat
<1>4. RowsMatchStats
  BY DEF Init, RowsMatchStats
<1> QED BY <1>1, <1>2, <1>3, <1>4 DEF Inv

(* create makes the first row of its code; nothing is kept under that code yet. *)
LEMMA CreateInv ==
  ASSUME Inv, NEW s \in Accounts, signer' = s, NEW c \in Codes, NEW p \in Precisions,
         NEW a \in Accounts, NEW q \in Int, create(s, c, p, a, q)
  PROVE  Inv'
<1> USE DEF Inv, create, TypeOK
<1> DEFINE new == [supply |-> 0, max_supply |-> q, issuer |-> a, precision |-> p]
<1>1. q \in Nat /\ q > 0 /\ q <= MaxAmount
  BY MaxAmountAssumption DEF ValidQuantity
<1>2. new \in StatRow
  BY <1>1 DEF StatRow
<1>3. TypeOK'
  BY <1>2
<1>4. SupplyIsTotal'
  BY DEF SupplyIsTotal, Exists, Unused, NoStat
<1>5. SupplyWithinMax'
  BY <1>1 DEF SupplyWithinMax
<1>6. RowsMatchStats'
  BY <1>1 DEF RowsMatchStats, Exists, Unused, NoStat
<1> QED BY <1>3, <1>4, <1>5, <1>6

(* The update that issue and retire share: supply and one balance move together. *)
LEMMA SupplyMoves ==
  ASSUME Inv, NEW c \in Codes, NEW a \in Accounts, NEW d \in Int,
         balance[c][a] + d \in Nat, stat[c].supply + d \in Nat,
         stat' = [stat EXCEPT ![c].supply = @ + d],
         balance' = [balance EXCEPT ![c] = add_balance(balance[c], a, d)]
  PROVE  /\ stat' \in [Codes -> StatRow]
         /\ balance' \in [Codes -> [Accounts -> Nat]]
         /\ SupplyIsTotal'
<1> USE DEF Inv, TypeOK
<1>1. stat' \in [Codes -> StatRow]
  BY DEF StatRow
<1>2. balance' \in [Codes -> [Accounts -> Nat]]
  <2>1. add_balance(balance[c], a, d) \in [Accounts -> Nat]
    BY DEF add_balance
  <2> QED BY <2>1
<1>3. ASSUME NEW k \in Codes PROVE stat'[k].supply = Total(balance'[k])
  <2>1. CASE k # c
    BY <2>1 DEF SupplyIsTotal
  <2>2. CASE k = c
    <3> DEFINE v == balance[c][a] + d
    <3>1. balance[c] \in [Accounts -> Nat] /\ balance[c][a] \in Nat
      OBVIOUS
    <3>2. balance'[c] = [balance[c] EXCEPT ![a] = v]
      BY DEF add_balance
    <3> HIDE DEF v
    <3>3. Total(balance'[c]) = Total(balance[c]) - balance[c][a] + v
      <4>1. v \in Nat
        BY DEF v
      <4> QED BY <3>1, <3>2, <4>1, TotalUpdate, AccountsAssumption
    <3>4. Total(balance[c]) = stat[c].supply /\ stat[c].supply \in Nat
      BY DEF SupplyIsTotal, StatRow
    <3>5. stat'[c].supply = stat[c].supply + d
      BY DEF StatRow
    <3> QED BY <2>2, <3>1, <3>3, <3>4, <3>5 DEF v
  <2> QED BY <2>1, <2>2
<1> QED BY <1>1, <1>2, <1>3 DEF SupplyIsTotal

(* issue: the issuer gains what the supply gains. *)
LEMMA IssueInv ==
  ASSUME Inv, NEW s \in Accounts, signer' = s, NEW c \in Codes, NEW p \in Precisions,
         NEW a \in Accounts, NEW q \in Int, issue(s, c, p, a, q)
  PROVE  Inv'
<1> USE DEF Inv, issue, TypeOK
<1>1. q \in Nat /\ q > 0 /\ stat[c].supply \in Nat /\ stat[c].max_supply \in Nat
  BY DEF ValidQuantity, StatRow
<1>2. balance[c][a] + q \in Nat /\ stat[c].supply + q \in Nat
  BY <1>1
<1>3. /\ stat' \in [Codes -> StatRow]
      /\ balance' \in [Codes -> [Accounts -> Nat]]
      /\ SupplyIsTotal'
  BY <1>2, SupplyMoves
<1>4. row' \in [Codes -> [Accounts -> Precisions \cup {NoRow}]]
  BY DEF WithRow
<1>5. SupplyWithinMax'
  BY <1>1 DEF SupplyWithinMax, Available, StatRow
<1>6. RowsMatchStats'
  <2>1. \A k \in Codes : /\ stat'[k].precision = stat[k].precision
                         /\ stat'[k].max_supply = stat[k].max_supply
    BY DEF StatRow
  <2>2. \A k \in Codes : Exists(k) => Exists(k)'
    <3> TAKE k \in Codes
    <3>1. CASE k # c
      BY <3>1 DEF Exists
    <3>2. CASE k = c
      <4>1. stat'[c].supply > 0
        BY <1>1 DEF StatRow
      <4> QED BY <3>2, <4>1 DEF Exists, NoStat
    <3> QED BY <3>1, <3>2
  <2>3. \A k \in Codes, b \in Accounts : row'[k][b] = IF k = c /\ b = a /\ row[c][a] = NoRow
                                                      THEN p ELSE row[k][b]
    BY DEF WithRow
  <2>4. \A k \in Codes, b \in Accounts :
           balance'[k][b] = IF k = c /\ b = a THEN balance[c][a] + q ELSE balance[k][b]
    BY DEF add_balance
  <2>5. p # NoRow /\ p = stat[c].precision /\ Exists(c)
    BY PrecisionsAssumption DEF Matches
  <2> QED BY <2>1, <2>2, <2>3, <2>4, <2>5 DEF RowsMatchStats
<1> QED BY <1>3, <1>4, <1>5, <1>6

(* retire: the issuer loses what the supply loses. *)
LEMMA RetireInv ==
  ASSUME Inv, NEW s \in Accounts, signer' = s, NEW c \in Codes, NEW p \in Precisions,
         NEW q \in Int, retire(s, c, p, q)
  PROVE  Inv'
<1> USE DEF Inv, retire, TypeOK
<1> DEFINE a == stat[c].issuer
<1>1. q \in Nat /\ q > 0 /\ stat[c].supply \in Nat /\ a \in Accounts
  BY DEF ValidQuantity, StatRow
<1>2. balance[c][a] <= stat[c].supply
  <2>1. balance[c] \in [Accounts -> Nat]
    OBVIOUS
  <2> QED BY <1>1, <2>1, TotalBound, AccountsAssumption DEF SupplyIsTotal
<1> HIDE DEF a
<1>3. balance[c][a] + (-q) \in Nat /\ stat[c].supply + (-q) \in Nat
  BY <1>1, <1>2 DEF Covers, a
<1>4. stat' = [stat EXCEPT ![c].supply = @ + (-q)]
  BY <1>1 DEF StatRow
<1>5. balance' = [balance EXCEPT ![c] = add_balance(balance[c], a, -q)]
  <2>1. sub_balance(balance[c], a, q) = add_balance(balance[c], a, -q)
    BY <1>1 DEF sub_balance, add_balance
  <2> QED BY <2>1 DEF a
<1>6. /\ stat' \in [Codes -> StatRow]
      /\ balance' \in [Codes -> [Accounts -> Nat]]
      /\ SupplyIsTotal'
  <2>1. -q \in Int
    OBVIOUS
  <2> QED BY <1>1, <1>3, <1>4, <1>5, <2>1, SupplyMoves
<1>7. SupplyWithinMax'
  BY <1>1, <1>3 DEF SupplyWithinMax, StatRow
<1>8. RowsMatchStats'
  <2>1. \A k \in Codes : stat'[k].precision = stat[k].precision
    BY DEF StatRow
  <2>2. \A k \in Codes : Exists(k) => Exists(k)'
    <3> TAKE k \in Codes
    <3>1. CASE k # c
      BY <3>1 DEF Exists
    <3>2. CASE k = c
      <4>1. stat'[c].precision = p /\ p # NoRow
        BY PrecisionsAssumption DEF Matches, StatRow
      <4> QED BY <3>2, <4>1 DEF Exists, NoStat
    <3> QED BY <3>1, <3>2
  <2>3. \A k \in Codes, b \in Accounts : balance'[k][b] <= balance[k][b]
    <3> TAKE k \in Codes, b \in Accounts
    <3>1. CASE k = c /\ b = a
      <4>1. balance'[k][b] = balance[k][b] + (-q) /\ balance[k][b] \in Nat
        BY <3>1, <1>1, <1>5 DEF add_balance
      <4> QED BY <1>1, <4>1
    <3>2. CASE ~(k = c /\ b = a)
      <4>1. balance'[k][b] = balance[k][b] /\ balance[k][b] \in Nat
        BY <3>2, <1>5 DEF add_balance
      <4> QED BY <4>1
    <3> QED BY <3>1, <3>2
  <2>4. \A k \in Codes, b \in Accounts : balance'[k][b] \in Nat /\ balance[k][b] \in Nat
    BY <1>6
  <2> QED BY <2>1, <2>2, <2>3, <2>4 DEF RowsMatchStats
<1> QED BY <1>6, <1>7, <1>8

(* transfer: what one account loses the other gains. *)
LEMMA TransferInv ==
  ASSUME Inv, NEW s \in Accounts, signer' = s, NEW c \in Codes, NEW p \in Precisions,
         NEW from \in Accounts, NEW to \in Accounts, NEW q \in Int,
         transfer(s, c, p, from, to, q)
  PROVE  Inv'
<1> USE DEF Inv, transfer, TypeOK
<1> DEFINE new == moved(balance[c], from, to, q)
<1>1. q \in Nat /\ balance[c] \in [Accounts -> Nat] /\ balance[c][from] >= q
  BY DEF ValidQuantity, Covers
<1>2. new \in [Accounts -> Nat] /\ Total(new) = Total(balance[c])
  BY <1>1, MovedKeepsTotal
<1>3. /\ \A k \in Codes : balance'[k] = IF k = c THEN new ELSE balance[k]
      /\ balance' \in [Codes -> [Accounts -> Nat]]
  BY <1>2
<1>4. TypeOK'
  BY <1>3 DEF WithRow
<1>5. SupplyIsTotal'
  <2> HIDE DEF new
  <2> QED BY <1>2, <1>3 DEF SupplyIsTotal
<1>6. SupplyWithinMax'
  BY DEF SupplyWithinMax
<1>7. RowsMatchStats'
  <2>1. \A k \in Codes, b \in Accounts : row'[k][b] = IF k = c /\ b = to /\ row[c][to] = NoRow
                                                      THEN p ELSE row[k][b]
    BY DEF WithRow
  <2>2. p # NoRow /\ p = stat[c].precision /\ Exists(c)
    BY PrecisionsAssumption DEF Matches
  <2>3. \A b \in Accounts : b # to => new[b] <= balance[c][b]
    <3> TAKE b \in Accounts
    <3> HAVE b # to
    <3>1. new[b] = IF b = from THEN balance[c][b] - q ELSE balance[c][b]
      BY <1>1 DEF moved, add_balance, sub_balance
    <3> QED BY <1>1, <3>1
  <2>4. row'[c][to] # NoRow
    BY <2>1, <2>2
  <2>5. ASSUME NEW k \in Codes, NEW b \in Accounts, balance'[k][b] > 0
        PROVE  row'[k][b] # NoRow
    <3>1. CASE k = c /\ b = to
      BY <2>4, <3>1
    <3>2. CASE ~(k = c /\ b = to)
      <4>1. balance[k][b] > 0
        <5>1. CASE k # c
          BY <5>1, <1>3, <2>5
        <5>2. CASE k = c
          <6>1. new[b] <= balance[c][b] /\ new[b] > 0
            BY <5>2, <3>2, <2>3, <1>3, <2>5
          <6>2. new[b] \in Nat /\ balance[c][b] \in Nat
            BY <1>1, <1>2
          <6> HIDE DEF new
          <6> QED BY <5>2, <6>1, <6>2
        <5> QED BY <5>1, <5>2
      <4> QED BY <4>1, <2>1, <3>2 DEF RowsMatchStats
    <3> QED BY <3>1, <3>2
  <2>6. ASSUME NEW k \in Codes, NEW b \in Accounts, row'[k][b] # NoRow
        PROVE  Exists(k) /\ row'[k][b] = stat[k].precision
    BY <2>1, <2>2, <2>6 DEF RowsMatchStats
  <2> QED BY <2>5, <2>6 DEF RowsMatchStats, Exists
<1> QED BY <1>4, <1>5, <1>6, <1>7

(* open and close write and erase empty rows only. *)
LEMMA OpenCloseInv ==
  ASSUME Inv, NEW s \in Accounts, signer' = s, NEW c \in Codes, NEW a \in Accounts,
         (\E p \in Precisions : open(c, p, a)) \/ close(s, c, a)
  PROVE  Inv'
<1> USE DEF Inv, TypeOK
<1>1. /\ UNCHANGED <<stat, balance>>
      /\ row' \in [Codes -> [Accounts -> Precisions \cup {NoRow}]]
  <2>1. UNCHANGED <<stat, balance>>
    BY DEF open, close
  <2>2. ASSUME NEW p \in Precisions \cup {NoRow}, row' = [row EXCEPT ![c][a] = p]
        PROVE  row' \in [Codes -> [Accounts -> Precisions \cup {NoRow}]]
    BY <2>2
  <2>3. CASE close(s, c, a)
    BY <2>2, <2>3 DEF close
  <2>4. ASSUME NEW p \in Precisions, open(c, p, a)
        PROVE  row' \in [Codes -> [Accounts -> Precisions \cup {NoRow}]]
    BY <2>4 DEF open, WithRow
  <2> QED BY <2>1, <2>3, <2>4
<1>2. TypeOK' /\ SupplyIsTotal' /\ SupplyWithinMax'
  BY <1>1 DEF SupplyIsTotal, SupplyWithinMax
<1>3. CASE close(s, c, a)
  BY <1>1, <1>2, <1>3 DEF close, RowsMatchStats, Exists
<1>4. ASSUME NEW p \in Precisions, open(c, p, a) PROVE Inv'
  <2>1. p # NoRow /\ p = stat[c].precision /\ Exists(c)
    BY <1>4, PrecisionsAssumption DEF open, Matches
  <2>2. \A k \in Codes, b \in Accounts : row'[k][b] = IF k = c /\ b = a /\ row[c][a] = NoRow
                                                      THEN p ELSE row[k][b]
    BY <1>4 DEF open, WithRow
  <2>3. RowsMatchStats'
    BY <1>1, <2>1, <2>2 DEF RowsMatchStats, Exists
  <2> QED BY <1>2, <2>3
<1> QED BY <1>3, <1>4

(* Every handler of eosio.token.cpp keeps the invariant. *)
LEMMA NextInv == Inv /\ [Next]_vars => Inv'
<1> SUFFICES ASSUME Inv, [Next]_vars PROVE Inv'
  OBVIOUS
<1>1. CASE UNCHANGED vars
  BY <1>1 DEF vars, Inv, TypeOK, SupplyIsTotal, SupplyWithinMax, RowsMatchStats, Exists
<1>2. CASE Next
  <2>1. PICK s \in Accounts, c \in Codes : signer' = s /\ Step(s, c)
    BY <1>2, NextIsStep
  <2>2. ASSUME NEW p \in Precisions, NEW a \in Accounts, NEW q \in InputAmounts,
               create(s, c, p, a, q) \/ issue(s, c, p, a, q)
        PROVE  Inv'
    BY <2>1, <2>2, InputAmountsType, CreateInv, IssueInv
  <2>3. ASSUME NEW p \in Precisions, NEW q \in InputAmounts, retire(s, c, p, q)
        PROVE  Inv'
    BY <2>1, <2>3, InputAmountsType, RetireInv
  <2>4. ASSUME NEW p \in Precisions, NEW from \in Accounts, NEW to \in Accounts,
               NEW q \in InputAmounts, transfer(s, c, p, from, to, q)
        PROVE  Inv'
    BY <2>1, <2>4, InputAmountsType, TransferInv
  <2>5. ASSUME NEW a \in Accounts, (\E p \in Precisions : open(c, p, a)) \/ close(s, c, a)
        PROVE  Inv'
    BY <2>1, <2>5, OpenCloseInv
  <2> QED BY <2>1, <2>2, <2>3, <2>4, <2>5 DEF Step
<1> QED BY <1>1, <1>2 DEF vars

(* Every reachable state of eosio.token satisfies the inductive invariant. *)
THEOREM TokenInvariant == Spec => []Inv
BY InitInv, NextInv, PTL DEF Spec

(* The variables keep their types. *)
THEOREM TypeCorrect == Spec => []TypeOK
<1>1. Inv => TypeOK
  BY DEF Inv
<1> QED BY <1>1, TokenInvariant, PTL

(* The supply of every token is at all times the sum of its balances, for any
   number of accounts and tokens and any amounts. *)
THEOREM SupplyConserved == Spec => []SupplyIsTotal
<1>1. Inv => SupplyIsTotal
  BY DEF Inv
<1> QED BY <1>1, TokenInvariant, PTL

(* No token is ever issued beyond its maximum supply. *)
THEOREM SupplyCapped == Spec => []SupplyWithinMax
<1>1. Inv => SupplyWithinMax
  BY DEF Inv
<1> QED BY <1>1, TokenInvariant, PTL

(* All the rows of a token are kept in the token's own symbol. *)
THEOREM RowsConsistent == Spec => []RowsMatchStats
<1>1. Inv => RowsMatchStats
  BY DEF Inv
<1> QED BY <1>1, TokenInvariant, PTL

(* Which balances and supplies one transaction of a signer may lower or change. *)
LEMMA StepSpends ==
  ASSUME Inv, NEW s \in Accounts, NEW k \in Codes, Step(s, k), NEW c \in Codes
  PROVE  /\ \A a \in Accounts : balance'[c][a] < balance[c][a] => s = a
         /\ Exists(c) /\ stat'[c].supply # stat[c].supply => s = stat[c].issuer
<1> USE DEF Inv, TypeOK
<1> DEFINE Goal == /\ \A a \in Accounts : balance'[c][a] < balance[c][a] => s = a
                   /\ Exists(c) /\ stat'[c].supply # stat[c].supply => s = stat[c].issuer
<1>0. \A a \in Accounts : balance[c][a] \in Nat
  OBVIOUS
<1>1. ASSUME NEW p \in Precisions, NEW a \in Accounts, NEW q \in InputAmounts,
             create(s, k, p, a, q)
      PROVE  Goal
  BY <1>0, <1>1 DEF create, Unused
<1>2. ASSUME NEW p \in Precisions, NEW a \in Accounts, NEW q \in InputAmounts,
             issue(s, k, p, a, q)
      PROVE  Goal
  <2>1. q \in Int /\ q > 0
    BY <1>2, InputAmountsType DEF issue, ValidQuantity
  <2>2. \A b \in Accounts : balance'[c][b] = IF c = k /\ b = a THEN balance[c][b] + q
                                             ELSE balance[c][b]
    BY <1>2 DEF issue, add_balance
  <2>3. \A b \in Accounts : ~(balance'[c][b] < balance[c][b])
    BY <1>0, <2>1, <2>2
  <2>4. c # k => stat'[c] = stat[c]
    BY <1>2 DEF issue
  <2> QED BY <1>2, <2>3, <2>4 DEF issue, require_auth
<1>3. ASSUME NEW p \in Precisions, NEW q \in InputAmounts, retire(s, k, p, q)
      PROVE  Goal
  <2>1. \A b \in Accounts : (c # k \/ b # stat[k].issuer) => balance'[c][b] = balance[c][b]
    BY <1>3 DEF retire, sub_balance
  <2>2. c # k => stat'[c] = stat[c]
    BY <1>3 DEF retire
  <2>3. s = stat[k].issuer
    BY <1>3 DEF retire, require_auth
  <2> QED BY <1>0, <2>1, <2>2, <2>3
<1>4. ASSUME NEW p \in Precisions, NEW from \in Accounts, NEW to \in Accounts,
             NEW q \in InputAmounts, transfer(s, k, p, from, to, q)
      PROVE  Goal
  <2>1. q \in Int /\ q > 0 /\ s = from /\ stat' = stat /\ from # to
    BY <1>4, InputAmountsType DEF transfer, ValidQuantity, require_auth
  <2>2. \A b \in Accounts : (c # k \/ (b # from /\ b # to)) => balance'[c][b] = balance[c][b]
    BY <1>4 DEF transfer, moved, add_balance, sub_balance
  <2>3. c = k => balance'[c][to] = balance[c][to] + q
    BY <1>4, <2>1 DEF transfer, moved, add_balance, sub_balance
  <2> QED BY <1>0, <2>1, <2>2, <2>3
<1>5. ASSUME NEW a \in Accounts, (\E p \in Precisions : open(k, p, a)) \/ close(s, k, a)
      PROVE  Goal
  BY <1>0, <1>5 DEF open, close
<1> QED BY <1>1, <1>2, <1>3, <1>4, <1>5 DEF Step

(* Balances fall, and supplies change, only with the authorization of the one
   they belong to: the require_auth calls of transfer, retire and issue suffice. *)
THEOREM SpendingAuthorized == Spec => OnlyOwnersSpend
<1> DEFINE A == \A c \in Codes :
                  /\ \A a \in Accounts : balance'[c][a] < balance[c][a] => signer' = a
                  /\ Exists(c) /\ stat'[c].supply # stat[c].supply => signer' = stat[c].issuer
<1>1. Inv /\ [Next]_vars => [A]_vars
  <2> SUFFICES ASSUME Inv, Next PROVE A
    OBVIOUS
  <2>1. PICK s \in Accounts, k \in Codes : signer' = s /\ Step(s, k)
    BY NextIsStep
  <2> QED BY <2>1, StepSpends
<1> QED BY <1>1, TokenInvariant, PTL DEF Spec, OnlyOwnersSpend
=============================================================================
