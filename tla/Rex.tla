-------------------------------- MODULE Rex --------------------------------
(***************************************************************************)
(* contracts/eosio.system/src/rex.cpp: the resource exchange.  Holders of  *)
(* REX lend core tokens to a pool; the pool stakes them for CPU and NET    *)
(* for renters who pay rent.  Composed with Staking and Voting: what is    *)
(* rented counts in userres and in the limits, and the value of REX counts *)
(* in the stake its owner votes with.                                      *)
(*                                                                         *)
(* One action is one transaction with its inline transfers.  runrex, which *)
(* most actions begin or end with, works for other accounts: it closes or  *)
(* renews expired loans and fills queued orders.  Conversions computed in  *)
(* double and cut down are integer divisions.  A row of the rexfund table  *)
(* without tokens is like no row.                                          *)
(***************************************************************************)
EXTENDS Staking, RexBalance

CONSTANTS
  Rank,        \* Rank[a]: the place of a in the order of names
  RexRatio,    \* rex_ratio
  InitRent,    \* init_total_rent
  LentParts,   \* one part in this many of what is lent stays unlent (5)
  LoanTerm,    \* the 30 days of a loan
  MinVotes,    \* the producers a holder of REX must vote for (21)
  Deposits,    \* the tokens accounts have deposited in their REX funds at first
  Payments,    \* Payments[a]: the amounts of core tokens a calls actions with
  RexAmounts,  \* RexAmounts[a]: the amounts of REX a calls actions with
  Stakes,      \* the stakes, of both kinds, that accounts call actions with
  Stakers,     \* the accounts that stake, vote and move their funds
  Receivers,   \* the accounts that bandwidth is rented for
  Fees,        \* the fees and bids that reach the system accounts
  Rents,       \* the amounts setrex is called with
  MaxLoans,    \* bound on loan_num
  MaxTokens    \* bound on the core tokens in circulation, to which fees and bids add

Users == Accounts \ {StakeAccount}

ASSUME RexAssumption ==
  /\ Rank \in [Accounts -> Int] /\ IsInjective(Rank)
  /\ Deposits \in [Users -> Nat]
  /\ RexRatio \in Nat \ {0} /\ InitRent \in Nat \ {0} /\ LentParts \in Nat \ {0}
  /\ LoanTerm \in Nat \ {0} /\ LastMaturity >= MaxTime + NumBuckets * SecondsPerDay
  /\ Payments \in [Users -> SUBSET Int] /\ RexAmounts \in [Users -> SUBSET Int]
  /\ Stakes \subseteq [Kinds -> Int] /\ Stakers \subseteq Users /\ Receivers \subseteq Accounts
  /\ Fees \subseteq Nat /\ Rents \subseteq Int

(* The rows of the tables *)
Pools ==
  [lent : Nat, unlent : Nat, rent : Nat, lendable : Nat, total_rex : Nat, proceeds : Nat,
   loan_num : Nat]
Balances ==
  [vote_stake : Int, rex : Nat, matured : Nat, buckets : [Maturities -> Nat], savings : Nat]
Loans ==
  [num : Nat, from : Users, receiver : Accounts, payment : Nat \ {0}, balance : Nat,
   staked : Nat \ {0}, expiration : Int]
Orders ==
  [requested : Nat \ {0}, is_open : BOOLEAN, proceeds : Nat, stake_change : Int, time : Int]

ASSUME NoRowAssumption == None \notin Pools \cup Balances \cup Orders

VARIABLES
  pool,      \* the row of the rexpool table, None before the first purchase
  fund,      \* balances of the rexfund table
  rexbal,    \* rows of the rexbal table, or None
  loans,     \* loans[k]: the rows of the cpuloan and netloan tables
  orders,    \* rows of the rexqueue table, or None
  held,      \* core tokens of eosio.rex, eosio.names and eosio.ramfee
  unripe,    \* history: unripe[a][m]: the REX a bought that can be sold from m on
  swapped,   \* history: the accounts that bought REX with staked tokens
  idle       \* history: bids of auctions that closed when there was no REX

rexVars == <<pool, fund, rexbal, loans, orders, held>>
history == <<unripe, swapped, idle>>
allVars == <<vars, rexVars, history>>

RexInit ==
  /\ pool = None
  /\ fund = Deposits
  /\ rexbal = [a \in Users |-> None]
  /\ loans = [k \in Kinds |-> {}]
  /\ orders = [a \in Users |-> None]
  /\ held = [rex |-> SumFunction(Deposits), names |-> 0, ramfee |-> 0]
  /\ unripe = [a \in Users |-> [m \in Maturities |-> 0]]
  /\ swapped = {}
  /\ idle = 0

(* The tables an action works on, runrex and its callees among them, and what
   becomes of them.  update_resource_limits sets the limits of the accounts
   whose bandwidth changed, and aborts when one would be negative. *)
Tables ==
  [pool |-> pool, fund |-> fund, bal |-> rexbal, loans |-> loans, orders |-> orders,
   held |-> held, res |-> userres]

Commit(s) ==
  /\ pool' = s.pool /\ fund' = s.fund /\ rexbal' = s.bal
  /\ loans' = s.loans /\ orders' = s.orders /\ held' = s.held
  /\ \A a \in Accounts : Sufficient(s.res, a)
  /\ userres' = s.res
  /\ limit' = [k \in Kinds |-> [a \in Accounts |->
                 IF a \in managed[k] \/ \A j \in Kinds : s.res[j][a] = userres[j][a]
                 THEN limit[k][a] ELSE s.res[k][a]]]

-----------------------------------------------------------------------------
(* The pool *)

rex_available(p) == p # None /\ p.total_rex > 0

(* What x REX are worth *)
ValueOf(p, x) == (x * p.lendable) \div p.total_rex

get_bancor_output(inp_reserve, out_reserve, inp) == (inp * out_reserve) \div (inp_reserve + inp)

NewPool(payment) ==
  [lent |-> 0, unlent |-> payment, rent |-> InitRent, lendable |-> payment,
   total_rex |-> payment * RexRatio, proceeds |-> 0, loan_num |-> 0]

(* Mutant: the REX received is rounded up. *)
add_generously(p, payment) ==
  LET S1 == p.lendable + payment
  IN  IF ~rex_available(p) THEN NewPool(payment)
      ELSE [p EXCEPT !.lendable = S1, !.unlent = S1 - p.lent,
                     !.total_rex = (S1 * @ + p.lendable - 1) \div p.lendable]

(* The pool after a purchase; an empty one starts again. *)
add_to_rex_pool(p, payment) ==
  LET S1 == p.lendable + payment
  IN  CASE p = None -> NewPool(payment)
        [] p # None /\ ~rex_available(p) ->
             [NewPool(payment) EXCEPT !.proceeds = p.proceeds, !.loan_num = p.loan_num]
        [] OTHER -> [p EXCEPT !.lendable = S1, !.unlent = S1 - p.lent,
                              !.total_rex = (S1 * @) \div p.lendable]

add_loan_to_rex_pool(p, payment, rented, new) ==
  [p EXCEPT !.rent = @ + payment, !.unlent = @ - rented + payment, !.lent = @ + rented,
            !.lendable = p.unlent + payment + p.lent, !.loan_num = @ + new]

remove_loan_from_rex_pool(p, loan) ==
  [p EXCEPT !.rent = @ - get_bancor_output(p.unlent, p.rent, loan.staked),
            !.unlent = @ + loan.staked, !.lent = @ - loan.staked, !.lendable = p.unlent + p.lent]

(* Fees that an account of the system holds go to the pool, if there is REX. *)
channel_to_rex(s, source, amount) ==
  IF rex_available(s.pool)
  THEN [s EXCEPT !.pool.unlent = @ + amount, !.pool.lendable = @ + amount,
                 !.held.rex = @ + amount, !.held[source] = @ - amount]
  ELSE s

-----------------------------------------------------------------------------
(* Orders *)

IsOpen(o) == o # None /\ o.is_open
IsFilled(o) == o # None /\ ~o.is_open

(* The index bytime has the filled orders at its end. *)
rex_loans_available(s) == rex_available(s.pool) /\ \A a \in Users : ~IsOpen(s.orders[a])

(* Mutant: tokens that are lent are paid out. *)
PaysAlways(p, proceeds) == proceeds <= p.lendable

(* Mutant: one token more is kept. *)
PaysLess(p, proceeds) == proceeds < p.unlent - p.lent \div LentParts

(* A fifth of what is lent is kept unlent. *)
CanPay(p, proceeds) == proceeds <= p.unlent - p.lent \div LentParts

(* The sale of x REX of a: the tables after it, and what it changes in the
   stake a votes with. *)
fill_rex_order(s, a, x) ==
  LET p        == s.pool
      b        == s.bal[a]
      proceeds == ValueOf(p, x)
      stake    == ValueOf(p, b.rex) - proceeds
  IN  [success |-> CanPay(p, proceeds), proceeds |-> proceeds,
       stake_change |-> stake - b.vote_stake,
       tables |-> [s EXCEPT
         !.pool = [p EXCEPT !.total_rex = @ - x, !.lendable = @ - proceeds,
                            !.unlent = p.lendable - proceeds - p.lent],
         !.bal[a] = [b EXCEPT !.vote_stake = stake, !.rex = @ - x, !.matured = @ - x]]]

(* What runrex does with the order of a: one that cannot be paid stays. *)
FillQueued(s, a) ==
  LET sale == fill_rex_order(s, a, s.orders[a].requested)
  IN  IF s.bal[a] = None \/ ~sale.success THEN s
      ELSE [sale.tables EXCEPT
              !.orders[a] = [@ EXCEPT !.is_open = FALSE, !.proceeds = sale.proceeds,
                                      !.stake_change = sale.stake_change]]

(* The open orders before that of a in the index *)
Before(s, a) ==
  {c \in Users : /\ IsOpen(s.orders[c])
                 /\ \/ s.orders[c].time < s.orders[a].time
                    \/ s.orders[c].time = s.orders[a].time /\ Rank[c] < Rank[a]}

(* The first max open orders are tried, in their order. *)
FillOrders(s, max) ==
  LET At(i) == {a \in Users : IsOpen(s.orders[a]) /\ Cardinality(Before(s, a)) = i - 1}
      tried[i \in 0 .. max] ==
        IF i = 0 THEN s
        ELSE IF At(i) = {} THEN tried[i - 1]
        ELSE FillQueued(tried[i - 1], CHOOSE a \in At(i) : TRUE)
  IN  tried[max]

-----------------------------------------------------------------------------
(* Loans *)

(* The first loan in the index byexpr *)
FirstLoan(L) ==
  CHOOSE l \in L : \A m \in L : \/ l.expiration < m.expiration
                                \/ l.expiration = m.expiration /\ l.num <= m.num

(* Mutant: loans are renewed although orders wait. *)
renew_anyway(s, loan, rented) == loan.payment <= loan.balance /\ loan.payment < rented

(* A loan is renewed when it has the balance for it, when that is worth it and
   when nobody waits to sell. *)
renew_loan(s, loan, rented) ==
  loan.payment <= loan.balance /\ loan.payment < rented /\ rex_loans_available(s)

(* Mutant: the loan is closed without giving back its balance. *)
BalanceLost(s, k, loan) == [s EXCEPT !.loans[k] = @ \ {loan}, !.res[k][loan.receiver] = @ - loan.staked]

(* What is left of the balance goes to the account that paid for the loan. *)
LoanClosed(s, k, loan) ==
  [s EXCEPT !.fund[loan.from] = @ + loan.balance, !.loans[k] = @ \ {loan},
            !.res[k][loan.receiver] = @ - loan.staked]

(* Mutant: the renewed loan's bandwidth stays as it was. *)
renewed_unseen(s, k, loan, rented) ==
  [s EXCEPT !.pool = add_loan_to_rex_pool(@, loan.payment, rented, 0),
            !.loans[k] = (@ \ {loan}) \cup {[loan EXCEPT !.staked = rented,
                                                         !.expiration = @ + LoanTerm,
                                                         !.balance = @ - loan.payment]}]

update_renewed_loan(s, k, loan, rented) ==
  [s EXCEPT !.pool = add_loan_to_rex_pool(@, loan.payment, rented, 0),
            !.loans[k] = (@ \ {loan}) \cup {[loan EXCEPT !.staked = rented,
                                                         !.expiration = @ + LoanTerm,
                                                         !.balance = @ - loan.payment]},
            !.res[k][loan.receiver] = @ + rented - loan.staked]

process_expired_loan(s, k, loan) ==
  LET s1     == [s EXCEPT !.pool = remove_loan_from_rex_pool(@, loan)]
      rented == get_bancor_output(s1.pool.rent, s1.pool.unlent, loan.payment)
  IN  IF renew_loan(s1, loan, rented) THEN update_renewed_loan(s1, k, loan, rented)
      ELSE LoanClosed(s1, k, loan)

ProcessLoans(s, k, max) ==
  LET Expired(t) == {l \in t.loans[k] : l.expiration <= now}
      done[i \in 0 .. max] ==
        IF i = 0 THEN s
        ELSE LET t == done[i - 1]
             IN  IF Expired(t) = {} THEN t ELSE process_expired_loan(t, k, FirstLoan(t.loans[k]))
  IN  done[max]

(* Mutant: the proceeds of auctions are forgotten without being channelled. *)
Forgotten(s) == IF s.pool.proceeds > 0 THEN [s EXCEPT !.pool.proceeds = 0] ELSE s

Channelled(s) ==
  IF s.pool.proceeds > 0
  THEN [channel_to_rex(s, "names", s.pool.proceeds) EXCEPT !.pool.proceeds = 0] ELSE s

(* The pool is initialized. *)
runrex(s, max) == FillOrders(ProcessLoans(ProcessLoans(Channelled(s), "cpu", max), "net", max), max)

-----------------------------------------------------------------------------
(* Accounts *)

check_voting_requirement(a, px, ps) == a \in voters /\ (px # None \/ Cardinality(ps) >= MinVotes)

(* update_rex_account in three parts: what it pays into the fund of a, with the
   proceeds of an order that was filled; what it adds to the stake; and what it
   returns, the REX in an order that is still open. *)
Collected(s, a, proceeds) ==
  IF IsFilled(s.orders[a])
  THEN [s EXCEPT !.fund[a] = @ + proceeds + s.orders[a].proceeds, !.orders[a] = None]
  ELSE [s EXCEPT !.fund[a] = @ + proceeds]

PendingStake(o) == IF IsFilled(o) THEN o.stake_change ELSE 0

rex_in_sell_order(o) == IF IsOpen(o) THEN o.requested ELSE 0

ChangeVotes(a, delta, force) ==
  \/ (force \/ delta # 0) /\ update_voting_power(a, delta)
  \/ ~force /\ delta = 0 /\ UNCHANGED <<voters, staked, tally, activated, thresh, voteVars>>

(* Mutant: without the order that was filled, the stake it takes away stays. *)
NoPending(s, a, proceeds, delta, force) ==
  Commit(Collected(s, a, proceeds)) /\ ChangeVotes(a, delta, force)

update_rex_account(s, a, proceeds, delta, force) ==
  Commit(Collected(s, a, proceeds)) /\ ChangeVotes(a, delta + PendingStake(s.orders[a]), force)

Elsewhere ==
  UNCHANGED <<now, prodVars, refunds, request, deferred, managed, unbacked, unstaked, given>>

VotesUnchanged == UNCHANGED <<voters, staked, tally, activated, thresh, voteVars>>

(* The tables after a bought REX for payment *)
Bought(s, a, payment) ==
  LET p        == add_to_rex_pool(s.pool, payment)
      received == p.total_rex - IF s.pool = None THEN 0 ELSE s.pool.total_rex
      old      == IF s.bal[a] = None THEN EmptyBalance ELSE s.bal[a]
      row      == [old EXCEPT !.rex = @ + received,
                              !.vote_stake = IF s.bal[a] = None THEN payment
                                             ELSE ValueOf(p, old.rex + received)]
  IN  [s EXCEPT !.pool = p,
                !.bal[a] = InBucket(process_rex_maturities(row, now), now, received)]

(* What add_to_rex_balance returns *)
StakeGained(s, a) == s.bal[a].vote_stake - IF rexbal[a] = None THEN 0 ELSE rexbal[a].vote_stake

(* check( itr->total_lendable.amount > 0, "lendable REX pool is empty" ) *)
CanBuy == rex_available(pool) => pool.lendable > 0

(* History: what is bought now, and of what was bought before all that cannot
   be sold yet. *)
Ripens(a, s) ==
  unripe' = [unripe EXCEPT ![a] = [m \in Maturities |->
    IF m <= now THEN 0
    ELSE @[m] + IF m = get_rex_maturity(now)
                THEN s.bal[a].rex - IF rexbal[a] = None THEN 0 ELSE rexbal[a].rex ELSE 0]]

-----------------------------------------------------------------------------
(* Actions *)

deposit(a, x) ==
  /\ x > 0
  /\ Covers(liquid, a, x)
  /\ liquid' = sub_balance(liquid, a, x)
  /\ Commit([Tables EXCEPT !.fund[a] = @ + x, !.held.rex = @ + x])
  /\ VotesUnchanged /\ Elsewhere /\ UNCHANGED <<delband, history>>

withdraw(a, x) ==
  LET s == Collected(Tables, a, 0)
  IN  /\ x > 0
      /\ Covers(s.fund, a, x)
      /\ liquid' = add_balance(liquid, a, x)
      /\ Commit([s EXCEPT !.fund[a] = @ - x, !.held.rex = @ - x])
      /\ ChangeVotes(a, PendingStake(orders[a]), FALSE)
      /\ Elsewhere /\ UNCHANGED <<delband, history>>

buyrex(a, x) ==
  LET s == Bought([Tables EXCEPT !.fund[a] = @ - x], a, x)
  IN  /\ x > 0
      /\ check_voting_requirement(a, proxy[a], choice[a])
      /\ Covers(fund, a, x)
      /\ CanBuy
      /\ update_rex_account(runrex(s, 2), a, 0, StakeGained(s, a), FALSE)
      /\ Ripens(a, s)
      /\ Elsewhere /\ UNCHANGED <<liquid, delband, swapped, idle>>

(* Unlike buyrex it leaves out what add_to_rex_balance returns: the stake that
   was delegated is the payment, which counts already. *)
unstaketorex(a, receiver, d) ==
  LET less == [k \in Kinds |-> -d[k]]
      s    == Bought([Tables EXCEPT !.res = Added(@, receiver, less), !.held.rex = @ + Sum(d)],
                     a, Sum(d))
  IN  /\ ValidStake(d)
      /\ check_voting_requirement(a, proxy[a], choice[a])
      /\ delband' = Added(delband, <<a, receiver>>, less)
      /\ Sufficient(delband', <<a, receiver>>)
      /\ Covers(liquid, StakeAccount, Sum(d))
      /\ liquid' = sub_balance(liquid, StakeAccount, Sum(d))
      /\ CanBuy
      /\ update_rex_account(runrex(s, 2), a, 0, 0, TRUE)
      /\ Ripens(a, s)
      /\ swapped' = swapped \cup {a}
      /\ Elsewhere /\ UNCHANGED idle

(* An order that cannot be paid is queued, with what a has queued before. *)
Queued(s, a, x) ==
  [s EXCEPT !.orders[a] =
     IF @ = None THEN [requested |-> x, is_open |-> TRUE, proceeds |-> 0, stake_change |-> 0, time |-> now]
     ELSE [@ EXCEPT !.requested = s.orders[a].requested + x]]

sellrex(a, x) ==
  LET s0   == runrex(Tables, 2)
      s    == [s0 EXCEPT !.bal[a] = process_rex_maturities(@, now)]
      sale == fill_rex_order(s, a, x)
      q    == Queued(Collected(s, a, 0), a, x)
  IN  /\ pool # None /\ rexbal[a] # None
      /\ 0 < x /\ x <= s.bal[a].matured
      /\ \/ /\ sale.success
            /\ sale.proceeds > 0
            /\ rex_in_sell_order(s.orders[a]) <= sale.tables.bal[a].matured
            /\ update_rex_account(sale.tables, a, sale.proceeds, sale.stake_change, FALSE)
         \/ /\ ~sale.success
            /\ a # B1
            /\ q.orders[a].requested <= q.bal[a].matured
            /\ Commit(q)
            /\ ChangeVotes(a, PendingStake(s.orders[a]), FALSE)
      /\ Elsewhere /\ UNCHANGED <<liquid, delband, history>>

cnclrexorder(a) ==
  /\ IsOpen(orders[a])
  /\ Commit([Tables EXCEPT !.orders[a] = None])
  /\ VotesUnchanged /\ Elsewhere /\ UNCHANGED <<liquid, delband, history>>

(* rentcpu and rentnet *)
rent_rex(k, a, receiver, payment, loan_fund) ==
  LET s      == runrex(Tables, 2)
      rented == get_bancor_output(s.pool.rent, s.pool.unlent, payment)
      p      == add_loan_to_rex_pool(s.pool, payment, rented, 1)
      loan   == [num |-> p.loan_num, from |-> a, receiver |-> receiver, payment |-> payment,
                 balance |-> loan_fund, staked |-> rented, expiration |-> now + LoanTerm]
  IN  /\ pool # None /\ pool.loan_num < MaxLoans
      /\ rex_loans_available(s)
      /\ 0 < payment /\ 0 <= loan_fund
      /\ Covers(s.fund, a, payment + loan_fund)
      /\ payment < rented
      /\ Commit([s EXCEPT !.pool = p, !.fund[a] = @ - payment - loan_fund,
                          !.loans[k] = @ \cup {loan}, !.res[k][receiver] = @ + rented])
      /\ VotesUnchanged /\ Elsewhere /\ UNCHANGED <<liquid, delband, history>>

(* fundcpuloan, fundnetloan, defcpuloan, defnetloan: the owner of a loan moves x
   between its fund and the balance of the loan. *)
fund_rex_loan(k, loan, x) ==
  /\ x > 0
  /\ Covers(fund, loan.from, x)
  /\ loan.expiration > now
  /\ Commit([Tables EXCEPT !.fund[loan.from] = @ - x,
                           !.loans[k] = (@ \ {loan}) \cup {[loan EXCEPT !.balance = @ + x]}])
  /\ VotesUnchanged /\ Elsewhere /\ UNCHANGED <<liquid, delband, history>>

defund_rex_loan(k, loan, x) ==
  /\ x > 0
  /\ loan.expiration > now
  /\ loan.balance >= x
  /\ Commit([Tables EXCEPT !.fund[loan.from] = @ + x,
                           !.loans[k] = (@ \ {loan}) \cup {[loan EXCEPT !.balance = @ - x]}])
  /\ VotesUnchanged /\ Elsewhere /\ UNCHANGED <<liquid, delband, history>>

updaterex(a) ==
  LET s       == runrex(Tables, 2)
      current == IF s.pool.total_rex > 0 THEN ValueOf(s.pool, s.bal[a].rex) ELSE 0
      s1      == [s EXCEPT !.bal[a] = process_rex_maturities([@ EXCEPT !.vote_stake = current], now)]
  IN  /\ pool # None /\ rexbal[a] # None
      /\ update_rex_account(s1, a, 0, current - s.bal[a].vote_stake, TRUE)
      /\ Elsewhere /\ UNCHANGED <<liquid, delband, history>>

setrex(x) ==
  /\ x > 0
  /\ pool # None
  /\ Commit([Tables EXCEPT !.pool.rent = x])
  /\ VotesUnchanged /\ Elsewhere /\ UNCHANGED <<liquid, delband, history>>

rexexec(max) ==
  /\ pool # None
  /\ Commit(runrex(Tables, max))
  /\ VotesUnchanged /\ Elsewhere /\ UNCHANGED <<liquid, delband, history>>

(* consolidate, mvtosavings and mvfrsavings replace the balance of a after runrex. *)
Rebalance(a, s, balance) ==
  /\ update_rex_account([s EXCEPT !.bal[a] = balance], a, 0, 0, FALSE)
  /\ Elsewhere /\ UNCHANGED <<liquid, delband, history>>

consolidate(a) ==
  LET s == runrex(Tables, 2)
  IN  /\ pool # None /\ rexbal[a] # None
      /\ Rebalance(a, s, consolidate_rex_balance(s.bal[a], now, rex_in_sell_order(s.orders[a])))

mvtosavings(a, x) ==
  LET s       == runrex(Tables, 2)
      selling == rex_in_sell_order(s.orders[a])
      b       == process_rex_maturities(s.bal[a], now)
      after   == MovedToSavings(b, x)
  IN  /\ pool # None /\ rexbal[a] # None
      /\ x > 0
      /\ x + selling + b.savings <= b.rex
      /\ after.matured < b.matured => selling <= after.matured
      /\ Rebalance(a, s, after)

mvfrsavings(a, x) ==
  LET s == runrex(Tables, 2)
  IN  /\ pool # None /\ rexbal[a] # None
      /\ 0 < x /\ x <= s.bal[a].savings
      /\ Rebalance(a, s, MovedFromSavings(process_rex_maturities(s.bal[a], now), now, x))

closerex(a) ==
  LET s == IF pool = None THEN Tables ELSE runrex(Tables, 2)
  IN  /\ s.bal[a] # None => s.bal[a].rex = 0
      /\ update_rex_account([s EXCEPT !.bal[a] = None], a, 0, 0, FALSE)
      /\ Elsewhere /\ UNCHANGED <<liquid, delband, history>>

-----------------------------------------------------------------------------
(* What other parts of the contract do with REX *)

(* update_rex_stake: the REX of a is valued anew, and the stake grows with it. *)
Growth(a) ==
  IF a \in Users /\ rexbal[a] # None /\ rex_available(pool)
  THEN ValueOf(pool, rexbal[a].rex) - rexbal[a].vote_stake ELSE 0

(* Mutant: the new value is added to the stake and not remembered. *)
GrowsAgain(a) == rexbal' = rexbal

update_rex_stake(a) ==
  rexbal' = IF Growth(a) = 0 THEN rexbal
            ELSE [rexbal EXCEPT ![a].vote_stake = @ + Growth(a)]

(* A holder of REX must vote for enough producers or a proxy. *)
VoteWithRex(a, px, ps) ==
  /\ voteproducer(a, px, ps, Growth(a))
  /\ update_rex_stake(a)
  /\ rexbal[a] # None /\ rexbal[a].rex > 0 => check_voting_requirement(a, px, ps)
  /\ UNCHANGED <<stakeVars, pool, fund, loans, orders, held, history>>

Delegate(from, to, d, transfer) ==
  LET a == IF transfer THEN to ELSE from
  IN  /\ delegatebw(from, to, d, transfer, Growth(a))
      /\ update_rex_stake(a)
      /\ UNCHANGED <<pool, fund, loans, orders, held, history>>

Undelegate(from, to, d) ==
  /\ undelegatebw(from, to, d, Growth(from))
  /\ update_rex_stake(from)
  /\ UNCHANGED <<pool, fund, loans, orders, held, history>>

MayAdd(x) == Total(liquid) + held.rex + held.names + held.ramfee + x <= MaxTokens

(* channel_namebid_to_rex: an auction closes, whose bid x eosio.names holds. *)
CloseAuction(x) ==
  /\ MayAdd(x)
  /\ held' = [held EXCEPT !.names = @ + x]
  /\ \/ rex_available(pool) /\ pool' = [pool EXCEPT !.proceeds = @ + x] /\ UNCHANGED idle
     \/ ~rex_available(pool) /\ idle' = idle + x /\ UNCHANGED pool
  /\ UNCHANGED <<vars, fund, rexbal, loans, orders, unripe, swapped>>

(* buyram and sellram: a fee x has gone to eosio.ramfee. *)
RamFee(x) ==
  /\ MayAdd(x)
  /\ Commit(channel_to_rex([Tables EXCEPT !.held.ramfee = @ + x], "ramfee", x))
  /\ VotesUnchanged /\ Elsewhere /\ UNCHANGED <<liquid, delband, history>>

Trade ==
  \/ \E a \in Users : \/ \E x \in Payments[a] : buyrex(a, x)
                      \/ \E x \in RexAmounts[a] : sellrex(a, x)
                      \/ cnclrexorder(a) \/ updaterex(a) \/ closerex(a)
  \/ \E max \in 1 .. 2 : rexexec(max)

Lend ==
  \/ \E k \in Kinds, a \in Users, to \in Receivers : \E x \in Payments[a], y \in Payments[a] \cup {0} :
       rent_rex(k, a, to, x, y)
  \/ \E k \in Kinds : \E loan \in loans[k] : \E x \in Payments[loan.from] :
       fund_rex_loan(k, loan, x) \/ defund_rex_loan(k, loan, x)

Save ==
  \E a \in Users : \/ \E x \in RexAmounts[a] : mvtosavings(a, x) \/ mvfrsavings(a, x)
                   \/ consolidate(a)

Stake ==
  \E a \in Stakers :
    \/ \E x \in Payments[a] : deposit(a, x) \/ withdraw(a, x)
    \/ \E to \in Stakers, d \in Stakes :
         \/ unstaketorex(a, to, d) \/ Undelegate(a, to, d)
         \/ \E transfer \in BOOLEAN : Delegate(a, to, d, transfer)
    \/ \E ps \in SUBSET Producers : VoteWithRex(a, None, ps)
    \/ \E k \in Kinds, w \in Managed \cup {None} : setacct(k, a, w) /\ UNCHANGED <<rexVars, history>>

Outside ==
  \/ \E x \in Fees : CloseAuction(x) \/ RamFee(x)
  \/ \E x \in Rents : setrex(x)

RexTick == VotingTick /\ UNCHANGED <<stakeVars, rexVars, history>>

(* What happens on the chain besides, without effect on REX *)
Others ==
  \/ \E a \in Users, px \in Accounts : VoteWithRex(a, px, {})
  \/ \E to \in Accounts, d \in Stakes : \/ \E transfer \in BOOLEAN : Delegate(StakeAccount, to, d, transfer)
                                       \/ Undelegate(StakeAccount, to, d)
  \/ /\ \/ \E a \in Accounts : refund(a) \/ RunDeferred(a) \/ DropDeferred(a)
        \/ /\ \/ \E a \in Accounts, isp \in BOOLEAN : regproxy(a, isp)
              \/ \E p \in Producers : regproducer(p) \/ unregprod(p)
           /\ UNCHANGED stakeVars
     /\ UNCHANGED <<rexVars, history>>

RexNext == Trade \/ Lend \/ Save \/ Stake \/ Outside \/ Others \/ RexTick

(* REX, staking and voting on a chain from its start *)
RexSpec == Init /\ RexInit /\ [][RexNext]_allVars

-----------------------------------------------------------------------------
(* Properties *)

TableSet ==
  [pool : Pools \cup {None}, fund : [Users -> Nat], bal : [Users -> Balances \cup {None}],
   loans : [Kinds -> SUBSET Loans], orders : [Users -> Orders \cup {None}],
   held : [rex : Int, names : Int, ramfee : Int], res : [Kinds -> [Accounts -> Int]]]

RexTypeOK ==
  /\ Tables \in TableSet
  /\ unripe \in [Users -> [Maturities -> Nat]]
  /\ swapped \subseteq Users
  /\ idle \in Nat

SumOver(S, Op(_)) == SumFunction([x \in S |-> Op(x)])

Lent(k, a) == SumOver({l \in loans[k] : l.receiver = a}, LAMBDA l : l.staked)

Holdings == SumOver({a \in Users : rexbal[a] # None}, LAMBDA a : rexbal[a].rex)

(* The totals of the pool are those of the loans and of the owners of REX, and
   the REX of an owner is all matured, in buckets or in savings.  There are
   tokens to lend as long as there is REX, so that a purchase never finds
   "lendable REX pool is empty", and no loan when there is none, so that the
   first purchase after that forgets nothing. *)
PoolAddsUp ==
  /\ pool # None =>
       /\ pool.lendable = pool.unlent + pool.lent /\ pool.unlent >= 0
       /\ pool.lent = SumOver(Kinds, LAMBDA k : SumOver(loans[k], LAMBDA l : l.staked))
       /\ pool.total_rex = Holdings
       /\ pool.total_rex = 0 <=> pool.lendable = 0
  /\ \A a \in Users : rexbal[a] # None =>
       rexbal[a].rex = rexbal[a].matured + SumFunction(rexbal[a].buckets) + rexbal[a].savings

(* eosio.rex holds exactly the funds of all accounts, the tokens of the pool,
   whether they are lent or not, the balances of loans and the proceeds of
   orders that were filled and not collected yet. *)
RexIsBacked ==
  held.rex = SumFunction(fund)
             + (IF pool = None THEN 0 ELSE pool.lendable)
             + SumOver(Kinds, LAMBDA k : SumOver(loans[k], LAMBDA l : l.balance))
             + SumOver({a \in Users : IsFilled(orders[a])}, LAMBDA a : orders[a].proceeds)

(* An order that waits is covered by REX that has matured, whatever its owner
   moves, consolidates or sells besides: runrex finds the row that "should
   always" be there and never sells more than there is.  And all loans end
   within a loan's term of the order, as none is made or renewed meanwhile. *)
OrdersAreCovered ==
  \A a \in Users : IsOpen(orders[a]) =>
    /\ rexbal[a] # None /\ orders[a].requested <= rexbal[a].matured
    /\ \A k \in Kinds : \A l \in loans[k] : l.expiration <= orders[a].time + LoanTerm

(* The bandwidth of an account is what is delegated to it and what it rents,
   through renewals at other prices and the closing of loans by others; its
   limits are that bandwidth unless they are managed by hand. *)
ResourcesIncludeLoans ==
  \A k \in Kinds, a \in Users :
    /\ userres[k][a] = Total(DelegatedTo(k, a)) + Lent(k, a)
    /\ a \notin managed[k] => limit[k][a] = userres[k][a]

(* One unit of REX is never worth less than before: rounding is in favour of
   those who stay, rents and fees only add. *)
PriceNeverFalls ==
  [][rex_available(pool) /\ rex_available(pool') =>
       pool.lendable * pool'.total_rex <= pool'.lendable * pool.total_rex]_allVars

(* "Bought REX cannot be sold before 4 days counting from end of day of
   purchase": what was bought since is still there and not on offer, through
   savings and back, consolidation and partial sales. *)
NoEarlySale ==
  \A a \in Users :
    SumFunctionOnSet(unripe[a], {m \in Maturities : m > now})
      <= (IF rexbal[a] = None THEN 0 ELSE rexbal[a].rex) - rex_in_sell_order(orders[a])

(* The proceeds of auctions that closed while there was REX wait in eosio.names
   until runrex channels them to the pool, before the last REX can be sold:
   none are forgotten or stay behind. *)
ProceedsReachPool ==
  /\ held.names = idle + IF pool = None THEN 0 ELSE pool.proceeds
  /\ pool # None => (pool.proceeds > 0 => rex_available(pool))

(* The stake a votes with: its delegations and the vote_stake of its REX; an
   order that was filled is taken from it when its owner collects. *)
StakeWithRex(a) ==
  staked[a] = Total(DelegatedBy(a)) - PendingStake(orders[a])
              + IF rexbal[a] = None THEN 0 ELSE rexbal[a].vote_stake

(* The stake of an account that did not buy REX with staked tokens is what it
   delegates and what its REX was worth when it was valued last. *)
VoterStakeIncludesRex == \A a \in Users \ swapped : StakeWithRex(a)

(* "vote_stake the amount of CORE_SYMBOL currently included in owner's vote" *)
VoteStakeIsIncluded == \A a \in Users : StakeWithRex(a)

(* An order that is queued is filled or cancelled: "will be processed within 30
   days at most", counted here from the order, when somebody runs rexexec. *)
OrderIsProcessed ==
  \A a \in Users :
    (IsOpen(orders[a]) /\ orders[a].time + LoanTerm <= MaxTime) ~> ~IsOpen(orders[a])
=============================================================================
