# A formal model of the SAFE system contracts

TLA+ specifications of the contracts under `src/contracts/`, model-checked with
TLC on small instances; all safety properties are proved with TLAPS for every instance.
`PROJECT.json` maps every definition to the lines it models.

File names below are short for `src/contracts/<contract>/src/<file>`.

## 1. The system and its components

All contracts run inside a chain that executes one transaction at a time. A
transaction runs an action handler and then the inline actions it sent; if any of
them fails, everything is undone. **One action of a model is therefore one whole
transaction**: the handler, every helper it calls and the inline token transfers
with their own failure conditions. What is asynchronous are *deferred
transactions* (refunds of stake and of bids, execution of multisig proposals),
which run later, in any order, possibly fail and are then gone, and *time*: every
transaction may see a later block time than the previous one.

| Component | State | Operations | Correct when |
|---|---|---|---|
| `eosio.token` | `stat` and `accounts` tables | create, issue, retire, transfer, open, close | supply = sum of balances <= maximum; balances have the token's precision; only owners spend |
| `eosio.msig` | proposal, approvals (two generations of tables), invalidations, deferred transactions | propose, approve, unapprove, cancel, exec, invalidate | only standing approvals authorize; at most one execution per proposal |
| voting (`voting.cpp`) | voters, producers, producers2, global totals | regproducer, unregprod, voteproducer, regproxy; update_voting_power from staking | the weights of proxies and producers are the sums of what was cast; proxies form no cycle; vote-pay shares add up |
| staking (`delegate_bandwidth.cpp`) | delband, userres, refunds, deferred refunds, limits | delegatebw, undelegatebw, refund | eosio.stake covers all stakes and refunds; no early refund; ownership is kept; refunds are paid |
| resource limits (`eosio.system.cpp`) | chain limits, managed flags | setacctnet, setacctcpu, setacctram, setalimits | an unmanaged limit is what was staked or bought |
| RAM market (`delegate_bandwidth.cpp`, `exchange_state.cpp`, `eosio.system.cpp`) | two reserves, global RAM counters, userres | buyram, buyrambytes, sellram, setram, setramrate, update_ram_supply; the RAM limit in changebw | the books agree; sellers can be paid; the supply grows as set |
| name auctions (`name_bidding.cpp`, part of `producer_pay.cpp`, newaccount and runrex) | namebids, bidrefunds, deferred refunds, namebid_proceeds | bidname, bidrefund, closing in onblock, newaccount, the channelling of proceeds in runrex | the outbid get everything back; eosio.names holds what it owes although proceeds leave it; only winners claim; auctions close |
| producer pay and schedule (`producer_pay.cpp`, `voting.cpp`) | unpaid blocks, buckets, shares, last schedule | onblock, claimrewards, update_elected_producers, updtrevision | no bucket pays more than it holds; unpaid blocks and shares add up; the schedule is the elected one |
| REX (`rex.cpp`) | pool, balances, funds, loans, orders, maturity buckets | deposit, withdraw, buyrex, sellrex, rentcpu, ..., runrex | the books agree and are backed; the price never falls; waiting orders are covered and filled; nothing is sold early; proceeds are not lost; REX counts in votes |
| administration, native actions, `eosio.bios`, `eosio.wrap` | ABI hashes | setparams, setpriv, setabi, exec, ... | arguments reach the chain only with the right authority |

How they interact: voting, staking, RAM and auctions move core tokens by inline
transfers of `eosio.token` (the operators of `TokenLedger`); staking calls
`update_voting_power`, which recasts votes through `update_votes`; voting feeds the
vote-pay shares that producer pay divides; auctions close in `onblock`; RAM and
name-bid fees are channelled to REX; the value of REX counts in the stake its owner
votes with, and whoever holds REX must vote; RAM, staking and REX loans all write the
limits the chain enforces, unless an administrator manages them.

What is hard here is not parallelism but *sequences*: copies of a weight that many
actions must keep up to date (voting), a row and a deferred transaction that must
agree although each can disappear without the other (refunds), equal block times
(multisig), sign and integer-division conventions (auctions, RAM), and counters
kept in several places by several handlers (RAM, vote pay, REX), and work that is done
for others: runrex, which almost every REX action begins or ends with, closes and
renews loans and fills orders of whoever is next. `PROJECT.json`
"hazards" lists each at its line with the properties that cover it.

## 2. Modules

| Module | Models |
|---|---|
| `TokenLedger` | sub_balance, add_balance and transfer of balances, shared by all modules that move core tokens |
| `Sums` | the sum of a function, by counting (see section 6) |
| `EosioToken` | `eosio.token.cpp`, complete |
| `EosioMsig` | `eosio.msig.cpp`, complete |
| `Voting` | votes, proxies and vote-pay shares of `voting.cpp`, and update_voting_power |
| `Staking` | changebw and its callers, refund, setacctnet, setacctcpu; extends `Voting`, so the two are checked together |
| `Ownership` | abstract specification: wealth changes only by declared gifts; implemented by `Staking` |
| `NameAuction` | auctions from the first bid to the creation of the account, and the way of their proceeds out of eosio.names in runrex |
| `RamMarket` | the RAM market and the RAM limits, with what changebw does to them |
| `ProducerPay` | `producer_pay.cpp` but for the closing of auctions, update_elected_producers, updtrevision; extends `Voting` |
| `RexBalance` | the REX of one owner: matured, in buckets, in savings; pure operators |
| `Rex` | `rex.cpp`, complete; extends `Staking` (and so `Voting`) with what REX adds to staking and voting |
| `EosioTokenProofs`, `EosioMsigProofs`, `VotingProofs`, `NameAuctionProofs`, `RamMarketProofs` | the proofs about those modules |
| `PayProofs` | the proofs about `ProducerPay` |
| `RexProofs` | the proofs about `Staking` and `Rex`, which extends it |
| `SumsProofs` | lemmas about sums, division, induction and iteration that the proofs share |
| `MC_*` | instances: constants, bounds and next-state relations restricted to them |

Every component states its next-state relation for all arguments (`Next`, and
`RexNext` and `PayNext` with `Votes` for the two that extend others); the theorems are
about these, and the instances restrict them.

State variables carry the names of the tables and fields they stand for, actions
the names of the handlers; comments at the declarations give the exceptions.
Variables marked *history* are not in the code: they record what happened so that
a property can refer to it; no guard of the code's actions reads them, though an
instance may bound them.

### Abstractions

* Accounts, names, symbols, permission levels and transactions are model values;
  memos, notifications and RAM billing of rows are left out.
* `Voting`: vote weights are doubles in the code; here they are integers, stake
  times an even weight that doubles with time. So nothing is said about the
  rounding of doubles. A sorted list of distinct producers is a set.
* `RamMarket`: the conversions are computed in double and truncated; here they are
  integer divisions, which are exact before they truncate. Amounts beyond 2^53,
  where a double is coarser than an integer, are not covered. `FeeAcct` stands for
  eosio.ramfee and eosio.rex, because channel_to_rex only moves the fee on. The largest
  size setram takes, 1024^5 in the code, is the constant `MaxSize`.
* `NameAuction`: of REX there is only whether any is outstanding, and the beginning of
  runrex, which any action that runs it may take; the last REX may be sold in such an
  action. `liquid[RexAcct]` counts what came from eosio.names and nothing else. A bid
  that closes without REX is nobody's afterwards: it stays in eosio.names, for ever as
  far as the code goes, and the history variable `idle` counts those.
* `EosioMsig`: `check_transaction_authorization` is the external operator
  `Authorizes`: each transaction has sets of levels that suffice.
* `ProducerPay`: inflation and vote pay are integer divisions; whether the chain
  accepts a proposed schedule is a choice of the environment. The index by votes is the
  order `Before`, with the order of names as the constant `Rank`; the walk of
  update_elected_producers takes the candidates with fewer than `ScheduleSize` ahead of
  them. A schedule is a set: its order by name, which the code sorts it into, is left out.
* `Rex`: conversions are integer divisions, as in the code (128 bit). runrex is a
  function from the tables to the tables, so that each handler stands as one action:
  its own changes before or after `runrex`, and `Commit`, which sets the limits. The
  deque of maturity buckets with savings at its end is a function from times to
  amounts and a number. RAM fees and auction bids come from the environment
  (`RamFee`, `CloseAuction`); `RamMarket` and `NameAuction` model their origin. The
  ratio of REX to tokens in a new pool is 4 in the instances, 10000 in the code: with a
  ratio that small compared to the price a payment could buy no REX at all, so the
  amounts of the instances keep the price below the ratio, as the supply of the core
  token does in practice.
* Times are small integers; delays and windows are constants that keep their
  order. In `NameAuction` times are ages that stop growing once every comparison
  is decided, so its clock is unbounded. Windows that lie below that resolution
  (the minute between schedule updates) are not represented.

## 3. Runs

| Run | What it shows |
|---|---|
| `token` | the two tables of the token stay in step and only owners and issuers change them |
| `msig` | approvals, withdrawals, invalidations and time in every order: see properties below |
| `voting` | weights remain the sums of what was cast, through chains of proxies |
| `staking` | backing, early refunds, and refinement of `Ownership` |
| `staking_live` | every refund is eventually paid or staked again |
| `names` | the tokens of bidders and of eosio.names, with proceeds leaving through runrex, claims, and that every auction ends |
| `ram` | the books, solvency and growth of the RAM market |
| `pay` | buckets, unpaid blocks and vote-pay shares add up through claims; the schedule is the elected one, with more candidates than places and ties |
| `rex` | purchases, savings, sales, orders and loans: the books, the price, and that orders are filled |
| `rex_stake` | REX, staking and voting together, with fees, auctions and managed limits |
| `refund_scheduled`, `rex_votes` | violations: see section 5 |

The properties:

* **token** `SupplyIsTotal`, `SupplyWithinMax`, `RowsMatchStats` (every balance is
  in a row of the token's precision), `OnlyOwnersSpend`.
* **msig** `UnapproveRevokes` (the levels counted by exec are among those whose
  last word is approval, also when approval and invalidation have the same time),
  `ExecIsAuthorized`, `SentOnce`, `HashPinsTransaction` (an approval given with a
  hash is for the transaction now under that name, and no approvals are left behind
  without a proposal), `EndsProperly` (a proposal ends by execution in time, by its proposer, or after it expired).
* **voting** `VotesAddUp`, `ProxiedAddsUp`, `CastIsCurrent` (the weight last cast is
  the weight owed), `NoProxyCycle`, `ActivationIsBacked` (before activation, activated
  stake is really there and counted once).
* **staking** `StakeIsBacked` (the balance of eosio.stake is all stakes and waiting
  refunds), `RefundsInStep`, `NoEarlyRefund`, `KeepsOwnership` (refinement),
  `RefundIsPaid` (liveness).
* **pay** `BucketsAreBacked` (both buckets are what their accounts hold, and the
  divisor of block pay is the sum of all unpaid blocks), `SharesAddUp` (the global
  vote-pay share is the sum of the producers' shares at every moment, through claims in
  time, too late, and for the first time), `ScheduleIsElected` (whoever is in a new schedule
  is an active producer with votes; whoever could have been and is left out has fewer votes than
  each of those in it, or as many and a later name; there are `ScheduleSize` of them or all
  the candidates; and it is never smaller than the one before).
* **rex** `PoolAddsUp` (lent, unlent and REX are the sums over loans and owners; there
  are tokens as long as there is REX and no loans when there is none), `RexIsBacked`
  (the balance of eosio.rex is funds, pool, loan balances and uncollected proceeds),
  `OrdersAreCovered` (a waiting order is covered by matured REX, and all loans end
  within a loan's term of it), `ResourcesIncludeLoans`, `NoEarlySale`,
  `VoterStakeIncludesRex` (the stake is delegations and the value of REX, less what
  a filled order takes away when it is collected), `PriceNeverFalls`,
  `OrderIsProcessed` (liveness).
* **rex_stake** `VoterStakeIncludesRex` with delegations, growth by fees and votes;
  `ProceedsReachPool` (no auction's proceeds are forgotten when the pool empties and
  starts again); `ResourcesIncludeLoans` with limits managed by hand and given back.
* **names** `OutbidKeepsTokens`; `ProceedsAreEarned` (eosio.names holds the open bids, the
  refunds, the proceeds not channelled yet and the bids closed without REX, so that a
  runrex never takes a bidder's money, nor the same proceeds twice, nor forgets any);
  `OnlyWinnersClaim`; `AuctionEnds` (liveness).
* **ram** `BooksAgree`, `SellersCanBePaid` (all RAM in users' hands could be sold at
  once; the check the code calls impossible indeed never fires), `GrowsByTheBlock`.

The type invariants (`TypeOK`, `VotingTypeOK`, `RexTypeOK`) are the base of the proofs and are proved
with them. They are in no run.

Each is paired in `PROJECT.json` with a mutant of one definition, a plausible slip
in that code, under which TLC refutes it.

### Bounds, and why they are enough

* `token`: two symbol codes, two precisions, the contract and two interchangeable
  users, amounts from -1 to one above the maximum of 2. All handlers compare
  amounts of at most two rows, so zero, one, the maximum and one beyond are the
  cases. Symmetry exchanges the two users, whom no definition names.
* `msig`: one proposer and name with two proposals in succession, so that a name is
  used again; three levels of two accounts, so that one invalidation must void two
  levels; three time steps with expirations at 1 and 2, so that before, at and
  after the expiration all occur.
* `voting`: three accounts (a chain of two proxies and a voter), one producer, an
  activation threshold of all their stake. `MaxStake`, `MaxActivated` and `MaxTime`
  bound the counters in the guards.
  Symmetry exchanges the accounts, which the instance treats alike.
* `pay`: two plays, between which the first state chooses, as neither is of use to the
  other. In the first, one voter and two producers, one of them from before the producers2 table and
  the other leaving and coming back; a claim window of 2 within 3 steps, so that
  claims in time, at the limit and too late occur; at most two unpaid blocks; a
  smallest payment that is above some of the vote pay and below the rest. In the second, three producers for two
  places; two accounts, one with twice the stake of the other, and ballots that produce ties
  and every order, the names' order being another than the ballots'; candidates are left out,
  tied or not, inactive producers have the most votes, proposals are refused, and one
  schedule follows another, as an election is due with every tick. Two instants are enough for
  that. Nobody claims rewards there.
* `rex`: an owner whose 24 tokens make the pool and one who buys, rents and funds loans
  with 2 at a time; two loans, a term of 2 and a bucket of 1 within 3 steps. In this
  instance sales are paid, queued, cancelled, filled and collected, two orders wait at
  once, and loans are renewed at other prices and closed. A holder needs no votes here.
* `rex_stake`: one owner with one staked token and a deposit of two, one other account
  with stake, fees and bids of one up to `MaxTokens`, no loans (`rex` has them); the owner
  is also b1, whose stake vests at time 1. The pool is sold out and starts again.
* `staking`: eosio.stake and two users with one token each, amounts 0 and 1 of both
  kinds, so that net and cpu parts of a refund are used up separately; a delay of 1
  within 2 steps. `MaxUnbacked` bounds what eosio.stake delegates for itself without
  a transfer (the code skips the transfer in that case).
* `names`: two auctioned names and a third under the suffix of the first, bids on
  either side of the ten per cent rule. REX comes and goes at any time, so auctions close
  with and without it. The amounts let a bidder be outbid twice before it is refunded once.
  A day and the two weeks are one tick, the shortest there is.
* `ram`: two users, a fee of a quarter (rounded up, as the half per cent is), payments and byte counts
  that round differently, a rate that is set, used over two blocks and reset, and a
  word of 4, so that the 32-bit product of update_ram_supply does wrap. setram asks for 16,
  which is more than there is until the supply has grown, and for `MaxSize`, which it refuses.

Runs that set `CHECK_DEADLOCK FALSE` have a bounded clock and finite means: at the last instant with nothing
left to trade or refund no action is enabled. This end is the bound's.

### Fairness

`staking_live`: weak fairness of the clock (blocks go on) and of every deferred
transaction that is due (the chain runs what is in its queue). The run leaves out
two things that break the promise: the chain dropping an expired deferred
transaction, and delegating to others or being given stake while one's refund waits
(the finding `refund_scheduled`). In all other runs both happen.
Stakes change only while the clock leaves room for the delay; otherwise the bound
and not the code would keep a refund waiting.

`names`: weak fairness of time and of `CloseOne`, the part of onblock that closes an
auction; onblock runs in every block. Nobody is assumed to bid, claim or
refund, or to use REX.
Bidders have finite means, so bids cannot restart an auction's day for ever; without
that the code gives no such guarantee.

`rex`: weak fairness of the clock, and of rexexec(2) while there is work: that somebody
calls rexexec, or any action that runs runrex, as long as runrex would change something.
The specification says this with the condition `Work` (runrex changes the tables) instead
of WF, which is the same, as rexexec is enabled with an effect exactly then, and is
evaluated faster. Nobody is assumed to cancel, sell or rent. Only orders made a loan's
term before the clock's bound are promised anything.

## 4. Refinement

`Ownership` says what staking owes its users: the wealth of an account (liquid,
delegated by it, and waiting for refund) changes only by gifts it declared, by
exactly the declared amount. `Staking` implements it
(`KeepsOwnership`), with wealth computed from `liquid`, `delband` and `refunds`.
Only `delegatebw` with transfer, and delegations by eosio.stake itself, are more
than stuttering. The `staking` run checks this on its instance and `OwnershipKept` proves it
for every one.

## 5. Where the code and its documentation differ

* **`refund_scheduled`** (`delegate_bandwidth.cpp:336`). A delegation to somebody
  else while a refund waits cancels the deferred transaction that would pay it; the
  documentation promises payment by deferred transaction. The owner can still call
  refund.
* **`rex_votes`** (`rex.cpp:89`). unstaketorex drops the change of vote_stake that
  add_to_rex_balance returns. The payment itself counts in the stake already, but the
  growth of REX bought earlier, which add_to_rex_balance writes into vote_stake, is never
  added: from then on vote_stake is not what is "currently included in owner's vote". In
  the trace an owner holds 8 REX worth 2, a fee raises them to 3, and one staked token is
  turned into REX: vote_stake becomes 4, and the stake stays at 3. Then
  `VoterStakeIncludesRex` holds for all accounts but those that did this (`swapped`).
Met while modelling, without a run of their own: an account that registered as a proxy
before its first vote has a last_vote_weight already, so that vote does not activate its
stake, although the comment at `voting.cpp:191` says a first vote does; a level listed
twice in a multisig request may approve twice, and unapprove takes back only one of the
approvals (`eosio.msig.cpp:100`; the `msig` run has requests without repetition); a producer
from before producers2 whose last claim is more than three days ago brings its votes into the
global rate when it registers again (`voting.cpp:47`), although its share starts only with its
next claim, which adds the votes once more (`producer_pay.cpp:162`), "for the first time" by the
comment at line 127 there: the total share then grows faster than the shares together, and all are
paid less (the `pay` run and the proofs start such producers without a claim); the documentation of exec
(`eosio.msig.hpp`) lists "all requested approvals are received" as a precondition,
and the code asks only whether the given ones authorize the transaction; the
increase of RAM wraps at 2^32 bytes between two updates (`eosio.system.cpp:75`), which
`GrowsByTheBlock` states exactly; buyrambytes "will buy an exact amount", while its
price is truncated and taken before the supply grows, so the amount may differ.

## 6. Proofs

TLAPS proves the following for every value of the constants: any finite number of
accounts, names, producers or bidders, any amounts, any times.

| Module | Theorem | States |
|---|---|---|
| `EosioTokenProofs` | `TypeCorrect` | `[]TypeOK`: balances and supplies are never negative |
| | `SupplyConserved` | `[]SupplyIsTotal` |
| | `SupplyCapped` | `[]SupplyWithinMax` |
| | `RowsConsistent` | `[]RowsMatchStats` |
| | `SpendingAuthorized` | `OnlyOwnersSpend` |
| `RamMarketProofs` | `BooksKept` | `[]BooksAgree` |
| | `SellersPaid` | `[]SellersCanBePaid` |
| | `SalesNeverFail` | `[]SaleIsPaid`: no sale of RAM one has fails for want of tokens, the growth it triggers included |
| | `SupplyGrowsByTheBlock` | `[]GrowsByTheBlock` |
| `NameAuctionProofs` | `BiddersKeepTokens` | `[]OutbidKeepsTokens` |
| | `NamesAcctCovers` | `[]ProceedsAreEarned` |
| | `ChannelIsCovered` | no runrex fails for want of tokens in eosio.names, and every refund that waits can be paid |
| | `WinnersClaim` | `OnlyWinnersClaim` |
| `EosioMsigProofs` | `NeverSentTwice` | `[]SentOnce` |
| | `HashPins` | `[]HashPinsTransaction` |
| | `ProposalsEndProperly` | `EndsProperly` |
| | `LastWordCounts` | `[]UnapproveRevokes`, if `RequestedOnce` |
| | `ExecAuthorized` | `ExecIsAuthorized`, if `RequestedOnce` |
| `RexProofs` | `StakesAreBacked` | `[]StakeIsBacked` |
| | `RequestsStayInStep` | `[]RefundsInStep` |
| | `RefundsWait` | `NoEarlyRefund` |
| | `OwnershipKept` | `KeepsOwnership`: `Staking` implements `Ownership` |
| | `VotesAreCast` | `[]VotesAddUp` |
| | `ProxiesHoldVotes` | `[]ProxiedAddsUp` |
| | `VotesStayCurrent` | `[]CastIsCurrent` |
| | `ProxiesEnd` | `[]NoProxyCycle` |
| | `ActivationHolds` | `[]ActivationIsBacked`, if `MinActivated` is positive |
| | `TypesKept` | `[]TypeOK` of voting and staking |
| | `RexTypesKept` | `[]RexTypeOK`: no amount in a row of `rex.cpp` is ever negative |
| | `RexStaysBacked` | `[]RexIsBacked` |
| | `PoolStaysInStep` | `[]PoolAddsUp` |
| | `OrdersStayCovered` | `[]OrdersAreCovered` |
| | `ProceedsArrive` | `[]ProceedsReachPool` |
| | `PurchasesRipen` | `[]NoEarlySale` |
| | `PriceHolds` | `PriceNeverFalls` |
| | `ResourcesStayInStep` | `[]ResourcesIncludeLoans` |
| | `VotesIncludeRex` | `[]VoterStakeIncludesRex`, if `[]Affordable(pool)` |
| `PayProofs` | `SharesStayInStep` | `[]SharesAddUp` |
| | `BucketsStayBacked` | `[]BucketsAreBacked` |
| | `ClaimsStayCovered` | `[]ClaimsAreCovered`: no pay is negative or more than its bucket holds, so no claim fails for want of tokens |
| | `ElectionHolds` | `ScheduleIsElected` |

The theorems of each line are about the specification of its component: `Spec`, for REX
`RexSpec` and for pay `PaySpec`. `VotingProofs` holds the lemmas about the operations on
votes and shares; the theorems about them are in `RexProofs` and `PayProofs`, because the
stakes that votes weigh change in `Staking`, and shares are claimed in `ProducerPay`. `SumsProofs`
holds what all of them need of sums, divisions and iteration.

### Assumptions

The named ASSUMEs of the component modules, which TLC evaluates in their runs: sets are
finite, constants have their types, and the accounts that play a part (eosio.stake,
eosio.ram, eosio.ramfee, eosio.names) are different from each other where the code's
are; `None`, which stands for a row that is not there, is no row (`NoRowAssumption`).
Four theorems need more, and say so in their statement:

* `RequestedOnce`: no list of requested levels names a level twice. propose does not
  check this, and without it the statement is false (section 5).
* `MinActivated > 0`: min_activated_stake is a positive constant of the code
  (`eosio.system.hpp:67`). With zero, the chain would count as activated without the time at
  which it was. Instances whose subject is not activation set it to zero.
* `[]Affordable(pool)`: one token buys REX, that is, the pool has at least as many units
  of REX as tokens. It starts with 10000 times as many. buyrex does not check that a payment buys
  anything (`rex.cpp:48`): a purchase of no REX at all counts in the stake of its owner, and
  closerex, which only asks that there is no REX, would leave it there. The instances stay within
  it.

### Inductive invariants

Each invariant theorem is `Spec => []Inv` with one lemma per action; the properties
follow from `Inv`. What had to be added to the properties, and why:

* **Token**: nothing; the four state properties are inductive together and none is
  alone. Conserving the supply on `retire` needs that the issuer's balance is at most
  the supply; balances stay within an asset's range because the supply does; and
  `add_balance` to a new row needs `RowsMatchStats` for the row's precision.
* **RAM**: `NeverCheaper`, `max_ram * Quote <= base * quote`. Every conversion rounds
  down, so a trade never lowers the product of the reserves (`ConvertKeepsProduct`),
  and growth adds the same RAM to both sides, at a `quote` that is at least `Quote`. If all RAM
  outside the market came back, the reserve of tokens would still be at least `Quote`,
  which is what `SellersCanBePaid` says.
* **Auctions**: a row with a bid has a bidder, and while the name is no account its row
  is the highest of all bids. Proceeds wait for runrex only while there is REX
  (`ProceedsHaveRex`): whatever sells the last REX runs runrex first, and without REX none
  are counted, so runrex, which resets them whether or not it channels them, never forgets
  any. Outbidding moves an amount from the row to the refund of
  the one outbid, so a sum over names and one over bidders change by the same number.
* **Multisig**: the generations of the approval tables match the proposals
  (`RowsMatch`), approvals are not from the future, and proposal numbers are new. The
  last two theorems use `OneApproval`: a level is asked for its approval or has given it
  once, never both.
* **Staking**: a request was made when its owner last unstaked or later and not in
  the future, and eosio.stake requests none (`RequestsInPast`). The part of a
  delegation that a waiting refund pays and the part that is transferred make up the
  whole (`PositiveSplit`); so the debt of eosio.stake changes with its balance. For the
  refinement, every action is shown to leave wealth alone or to be a declared gift.
* **Votes** (`VotesInv`): types, the absence of cycles, `AddsUp` (both sums), `Current`
  (whoever has voted cast what it owes), and that whoever has a vote is counted as
  having voted. Inside a transaction `Current` fails: while
  propagate_weight_change walks up the proxies, one account's cast weight lags behind.
  The lemmas therefore speak of sums *apart from* that account and of the weight still
  to be passed on; one call of the recursion moves both to the next proxy (`OnceSound`),
  and `PropagateSound` follows by induction on the set of accounts still ahead, which
  shrinks because proxies form no cycle. This also shows that the recursion ends. Passing
  on is skipped when the change is within epsilon: weights being even, that is when it is
  zero.
* **Activation** (`ActivationInv`): what is counted is at most the stake of the voters
  *with a weight*. The first vote is recognised by a weight of zero, so only this
  stronger form survives an account whose weight returns to zero; stake cannot leave
  before activation, because undelegatebw is closed until then.

* **Vote-pay shares** (`PayInv`): the totals are kept by adding differences that are cut off
  below zero (`Floored`), and votes by `NonNegative`. `Fair` states both totals as sums over
  all producers, with zero for those that have no share or do not earn, and that votes and
  shares are not negative; each operation moves a total by what it moves one entry of
  the sum, so nothing is ever cut off. That votes are not negative is `VotesInv`: they
  are sums of weights. `ClaimsMatch` (a claim is on record exactly for those with a row in
  producers2) and that nobody votes for an unregistered producer make a first claim and
  a first registration right. Votes change in the middle of transactions, so fairness is
  carried through every call of propagate_weight_change.
* **Schedule**: the index is a strict total order in which candidates come before all
  others, so the walk takes each candidate with fewer than `ScheduleSize` ahead. It takes at
  most that many, as the last one taken has all others ahead; and if any candidate is
  left out, the first of them has exactly those taken ahead, which are then
  `ScheduleSize`. That it never shrinks needs `SizeKept`: last_producer_schedule_size is
  the size of the schedule last accepted.
* **Buckets** (`BucketsInv`): that nothing is negative is added, which needs that pay is a
  part of its bucket: no producer has more unpaid blocks than there are, nor, before the
  shares, more votes than total_producer_vote_weight. New tokens are split without a
  rest, and a transfer keeps the sum of balances.
* **REX** (`RexInv`): `Books` says of the tables at a time that the pool is the sum of
  loans and of owners' REX, that eosio.rex holds what it owes, that a balance is its matured
  part, buckets and savings, that loan numbers are unique, and that orders are covered. `RipensIn`
  compares each owner's buckets with the history of its purchases. runrex channels
  proceeds, closes or renews loans and fills orders, up to a number of each. Each of these steps
  keeps `Books`, lowers no price, and leaves unmatured REX, delegations and stakes alone
  (`Moves`); what they do together follows by induction on their number. Every action is a
  composition of such steps with its own (`Step`, `Goes`, `Kept`), and as a whole of one of two
  kinds: it changes what one owner's REX counts for in its stake (`Deals`), or it moves a
  delegation (`Restakes`). Prices are compared by cross multiplication (`Cheaper`), because
  all conversions round in the pool's favour.
* **Bandwidth and stakes** (`BandwidthInv`, `StakesInv`): an account's bandwidth less what it
  rents is what is delegated to it; the stake in its votes is what it delegates and what its REX
  counts for, and nobody's REX counts without being there (`NobodyIdle`).

The cycle property is stated without a chain of proxies: every non-empty set of accounts
has a member whose proxy is not in the set. For finite sets that is the same, and it is
the form of well-foundedness that the proofs use.

### Sums and induction

The library's induction theorems take an operator as a parameter, which the installed
provers cannot instantiate. `SumsProofs` states induction over *sets* instead: a set of
numbers or subsets that contains the first and is closed under one more contains them
all (`NumberInduction`, `SubsetInduction`), which a proof uses by naming the set of those
for which its claim holds. Beneath them is the cardinality of finite sets.

`Sums` defines `Total(f)` by counting: a value n of a stands for the n pairs (a, 1) ..
(a, n), and the total is the cardinality of their union, so that what an update does to it
follows from the cardinality of disjoint unions. The fold `SumFunctionOnSet` of the
community modules, which the voting modules use since weights may be negative on the
way, is shown to be the difference of two such totals (`SumIsNet`), and with that to have
the laws one expects of a sum. Folds and recursive functions are proved to exist by
building them up from their finite beginnings (`IterationExists`, `WalkExists`).

### Only model-checked

Liveness (`RefundIsPaid`, `AuctionEnds`, `OrderIsProcessed`) is beyond the prover.

## 7. Not modelled

Left out: `setparams`, `setpriv`, `activate`, `setalimits`, the native
declarations, `eosio.bios` and `eosio.wrap`. Each checks an authority and hands its
arguments to the chain; there is no state of the contract to relate. (setalimits also asks
whether the account has a row in userres, which the models do not tell from an empty one.) Tests and build
files were read for what they say of the contracts.
