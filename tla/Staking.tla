------------------------------ MODULE Staking ------------------------------
(***************************************************************************)
(* contracts/eosio.system/src/delegate_bandwidth.cpp: staking for network  *)
(* and CPU bandwidth, the refunds of unstaked tokens and the deferred      *)
(* transaction that pays them, and the bandwidth limits that follow the    *)
(* stakes (setacctnet and setacctcpu of eosio.system.cpp take accounts out *)
(* of that).  A stake change goes on into Voting's update_voting_power.    *)
(*                                                                         *)
(* One action is one transaction: the handler and the inline transfer it   *)
(* sends, which aborts both when the balance does not cover it.            *)
(* Deferred transactions are the asynchronous part: they run at some time  *)
(* after their delay, fail without effect, or expire.                      *)
(*                                                                         *)
(* delband and refunds rows with zero amounts are erased by the code, so a *)
(* row exists exactly when an amount here is not zero.  RAM limits are in  *)
(* RamMarket; without REX the growth of a stake, see changebw, is zero.    *)
(***************************************************************************)
EXTENDS Voting, TokenLedger, Sums

CONSTANTS
  StakeAccount,  \* eosio.stake, which holds the staked tokens
  RefundDelay,   \* refund_delay_sec
  Liquid,        \* the core tokens every account starts with
  Amounts,       \* the amounts that actions are called with
  Managed        \* the limits setacctnet and setacctcpu are called with

Kinds == {"net", "cpu"}

ASSUME StakeAssumption ==
  /\ StakeAccount \in Accounts
  /\ RefundDelay \in Nat
  /\ Liquid \in [Accounts -> Nat] /\ Liquid[StakeAccount] = 0
  /\ Amounts \subseteq Int /\ Managed \subseteq Nat \cup {-1}

VARIABLES
  liquid,    \* balances of the core token
  delband,   \* delband[k][<<from, to>>]: bandwidth of kind k from delegates to to
  userres,   \* userres[k][a]: bandwidth of kind k delegated to a
  refunds,   \* refunds[k][a]: unstaked tokens of a waiting for their refund
  request,   \* request_time of a's row in the refunds table, or None
  deferred,  \* the time a's deferred refund transaction is due, or None
  limit,     \* limit[k][a]: the resource limit the chain enforces
  managed,   \* managed[k]: the accounts whose limit is set by hand
  unbacked,  \* history: what eosio.stake delegated without paying, less what it undelegated
  unstaked,  \* history: the last time a unstaked
  given      \* history: the stake a was given with transfer, less what it gave

stakeVars == <<liquid, delband, userres, refunds, request, deferred, limit, managed,
               unbacked, unstaked, given>>
vars == <<votingVars, stakeVars>>

Pairs == Accounts \X Accounts

Init ==
  /\ VotingInit
  /\ liquid = Liquid
  /\ delband = [k \in Kinds |-> [pair \in Pairs |-> 0]]
  /\ userres = [k \in Kinds |-> [a \in Accounts |-> 0]]
  /\ refunds = [k \in Kinds |-> [a \in Accounts |-> 0]]
  /\ request = [a \in Accounts |-> None]
  /\ deferred = [a \in Accounts |-> None]
  /\ limit = [k \in Kinds |-> [a \in Accounts |-> 0]]
  /\ managed = [k \in Kinds |-> {}]
  /\ unbacked = 0
  /\ unstaked = [a \in Accounts |-> Epoch]
  /\ given = [a \in Accounts |-> 0]

-----------------------------------------------------------------------------
Positive(x) == IF x > 0 THEN x ELSE 0

(* Add d[k] to the entry at i of every kind. *)
Added(table, i, d) == [k \in Kinds |-> [table[k] EXCEPT ![i] = @ + d[k]]]

Sum(d) == d["net"] + d["cpu"]

(* The refunds of from after a stake change of d[k]: unstaking adds to them,
   staking to oneself takes from them first. *)
RefundAfter(from, d) == [k \in Kinds |-> Positive(refunds[k][from] - d[k])]

(* Mutant: the refund is used up and paid as well. *)
PayTwice(from, d) == [k \in Kinds |-> Positive(d[k])]

(* What must be transferred after the refunds are used up. *)
StillToPay(from, d) == [k \in Kinds |-> Positive(d[k] - refunds[k][from])]

(* Mutant: unstaking more does not start the delay again. *)
RequestKept(from, d, left) ==
  CASE Sum(left) = 0 -> None
    [] Sum(left) # 0 /\ request[from] = None -> now
    [] OTHER -> request[from]

(* request_time after the change; unstaking starts the delay again. *)
RequestAfter(from, d, left) ==
  CASE Sum(left) = 0 -> None
    [] Sum(left) # 0 /\ Sum(d) < 0 -> now
    [] OTHER -> request[from]

(* Mutant: the refund is sent without its delay. *)
DeferredAtOnce(need) == IF need THEN now ELSE None

(* The changed refund is scheduled anew; otherwise a pending transaction is
   cancelled, whether or not a refund remains. *)
DeferredAfter(need) == IF need THEN now + RefundDelay ELSE None

(* Mutant: a limit given back stays where it was. *)
LimitKept(k, a) == limit[k][a]

(* The limit of an account that is no longer managed *)
LimitRestored(k, a) == userres[k][a]

(* The limits of an account follow its bandwidth unless they are managed. *)
LimitsAfter(a, res) ==
  [k \in Kinds |-> [limit[k] EXCEPT ![a] = IF a \in managed[k] THEN @ ELSE res[k][a]]]

(* Mutant: staking for another with transfer uses up the other's refund. *)
ForReceiver(from, receiver, transfer) == from = receiver

(* is_delegating_to_self *)
ToSelf(from, receiver, transfer) == ~transfer /\ from = receiver

(* The part of changebw on refunds, the deferred transaction and the payment. *)
ChangeRefunds(source, from, receiver, d, transfer) ==
  LET refunding == ToSelf(from, receiver, transfer) \/ Sum(d) < 0
      left      == IF refunding THEN RefundAfter(from, d) ELSE [k \in Kinds |-> refunds[k][from]]
      pay       == IF refunding THEN Sum(StillToPay(from, d)) ELSE Sum(d)
  IN  /\ refunds' = [k \in Kinds |-> [refunds[k] EXCEPT ![from] = left[k]]]
      /\ request' = [request EXCEPT ![from] = IF refunding THEN RequestAfter(from, d, left) ELSE @]
      /\ deferred' = [deferred EXCEPT ![from] = DeferredAfter(refunding /\ Sum(left) # 0)]
      /\ Covers(liquid, source, pay)
      /\ liquid' = IF pay > 0 THEN moved(liquid, source, StakeAccount, pay) ELSE liquid

(* check( 0 <= ... ) of the changed entry of both kinds *)
Sufficient(table, i) == \A k \in Kinds : table[k][i] >= 0

(* On behalf of source; with transfer the stake becomes receiver's.  growth is
   what vote_stake_updater adds to the stake of a holder of REX. *)
changebw(source, receiver, d, transfer, growth) ==
  LET from == IF transfer THEN receiver ELSE source
  IN  /\ delband' = Added(delband, <<from, receiver>>, d)
      /\ userres' = Added(userres, receiver, d)
      /\ Sufficient(delband', <<from, receiver>>)
      /\ Sufficient(userres', receiver)
      /\ limit' = LimitsAfter(receiver, userres')
      /\ \/ /\ source # StakeAccount
            /\ ChangeRefunds(source, from, receiver, d, transfer)
            /\ UNCHANGED unbacked
         \/ /\ source = StakeAccount
            /\ unbacked' = unbacked + Sum(d)
            /\ UNCHANGED <<refunds, request, deferred, liquid>>
      /\ update_voting_power(from, Sum(d) + growth)
      /\ UNCHANGED <<now, prodVars, managed>>

ValidStake(d) == (\A k \in Kinds : d[k] >= 0) /\ Sum(d) > 0

delegatebw(from, receiver, d, transfer, growth) ==
  /\ ValidStake(d)
  /\ transfer => from # receiver
  /\ changebw(from, receiver, d, transfer, growth)
  /\ given' = IF transfer THEN moved(given, from, receiver, Sum(d)) ELSE given
  /\ UNCHANGED unstaked

ChainActivated == activated >= MinActivated

undelegatebw(from, receiver, d, growth) ==
  /\ ValidStake(d)
  /\ ChainActivated
  /\ changebw(from, receiver, [k \in Kinds |-> -d[k]], FALSE, growth)
  /\ unstaked' = [unstaked EXCEPT ![from] = now]
  /\ UNCHANGED given

(* Mutant: the refund waits for longer than the delay. *)
MaturedLater(owner) == request[owner] # None /\ request[owner] + RefundDelay < now

Matured(owner) == request[owner] # None /\ request[owner] + RefundDelay <= now

(* The transfer of eosio.stake to itself, or beyond its balance, aborts. *)
CanRefund(owner) ==
  /\ Matured(owner)
  /\ owner # StakeAccount
  /\ Covers(liquid, StakeAccount, refunds["net"][owner] + refunds["cpu"][owner])

PayRefund(owner) ==
  /\ liquid' = moved(liquid, StakeAccount, owner, refunds["net"][owner] + refunds["cpu"][owner])
  /\ refunds' = [k \in Kinds |-> [refunds[k] EXCEPT ![owner] = 0]]
  /\ request' = [request EXCEPT ![owner] = None]

(* Called by the owner; a pending deferred transaction stays pending. *)
refund(owner) ==
  /\ CanRefund(owner)
  /\ PayRefund(owner)
  /\ UNCHANGED <<votingVars, delband, userres, deferred, limit, managed,
                 unbacked, unstaked, given>>

(* The chain runs a deferred refund that is due; a failing one is gone as well. *)
RunDeferred(owner) ==
  /\ deferred[owner] # None
  /\ deferred[owner] <= now
  /\ deferred' = [deferred EXCEPT ![owner] = None]
  /\ \/ CanRefund(owner) /\ PayRefund(owner)
     \/ ~CanRefund(owner) /\ UNCHANGED <<liquid, refunds, request>>
  /\ UNCHANGED <<votingVars, delband, userres, limit, managed,
                 unbacked, unstaked, given>>

(* A deferred transaction that was not run when it was due expires. *)
DropDeferred(owner) ==
  /\ deferred[owner] # None
  /\ deferred[owner] < now
  /\ deferred' = [deferred EXCEPT ![owner] = None]
  /\ UNCHANGED <<votingVars, liquid, delband, userres, refunds, request, limit, managed,
                 unbacked, unstaked, given>>

(* setacctnet and setacctcpu: set a limit by hand (None gives it back). *)
setacct(k, a, w) ==
  /\ \/ /\ w = None
        /\ a \in managed[k]
        /\ managed' = [managed EXCEPT ![k] = @ \ {a}]
        /\ limit' = [limit EXCEPT ![k][a] = LimitRestored(k, a)]
        /\ UNCHANGED voters
     \/ /\ w # None
        /\ managed' = [managed EXCEPT ![k] = @ \cup {a}]
        /\ limit' = [limit EXCEPT ![k][a] = w]
        /\ voters' = voters \cup {a}
  /\ UNCHANGED <<now, staked, voteVars, tally, activated, thresh, prodVars, liquid, delband,
                 userres, refunds, request, deferred, unbacked, unstaked, given>>

StakeNext ==
  \/ \E from, to \in Accounts, d \in [Kinds -> Amounts] :
       \/ \E transfer \in BOOLEAN : delegatebw(from, to, d, transfer, 0)
       \/ undelegatebw(from, to, d, 0)
  \/ \E a \in Accounts : refund(a) \/ RunDeferred(a) \/ DropDeferred(a)
  \/ \E k \in Kinds, a \in Accounts, w \in Managed \cup {None} : setacct(k, a, w)

Next == StakeNext \/ (VotingNext /\ UNCHANGED stakeVars)

Spec == Init /\ [][Next]_vars

-----------------------------------------------------------------------------
TypeOK ==
  /\ VotingTypeOK
  /\ liquid \in [Accounts -> Nat]
  /\ delband \in [Kinds -> [Pairs -> Nat]]
  /\ userres \in [Kinds -> [Accounts -> Nat]]
  /\ refunds \in [Kinds -> [Accounts -> Nat]]
  /\ request \in [Accounts -> Times \cup {None}]
  /\ deferred \in [Accounts -> Nat \cup {None}]
  /\ limit \in [Kinds -> [Accounts -> Nat \cup {-1}]]
  /\ managed \in [Kinds -> SUBSET Accounts]
  /\ unbacked \in Int
  /\ unstaked \in [Accounts -> Times \cup {Epoch}]
  /\ given \in [Accounts -> Int]

(* What eosio.stake owes: everything delegated and everything to be refunded. *)
Owed == Total(delband["net"]) + Total(delband["cpu"]) + Total(refunds["net"]) + Total(refunds["cpu"])

(* eosio.stake holds exactly the tokens behind all delegations and all pending
   refunds, apart from what it delegated itself without paying: restaking a
   refund, staking for others and refunding keep the two in step. *)
StakeIsBacked == liquid[StakeAccount] + unbacked = Owed

DelegatedBy(v) == [pair \in {v} \X Accounts |-> delband["net"][pair] + delband["cpu"][pair]]
DelegatedTo(k, a) == [pair \in Accounts \X {a} |-> delband[k][pair]]

(* A request for a refund stands exactly while there is something to refund, and
   no earlier refund transaction is pending for it: the one that runs pays. *)
RefundsInStep ==
  \A a \in Accounts :
    /\ request[a] # None <=> refunds["net"][a] + refunds["cpu"][a] > 0
    /\ request[a] # None /\ deferred[a] # None => deferred[a] >= request[a] + RefundDelay

(* Unstaked tokens become liquid only when the whole delay has passed since the
   owner unstaked for the last time, by whichever of the two ways to refund. *)
NoEarlyRefund ==
  [][\A a \in Accounts : liquid'[a] > liquid[a] /\ a # StakeAccount =>
       unstaked[a] + RefundDelay <= now]_vars

(* "Unstaked tokens are transferred to from liquid balance via a deferred
   transaction": a refund has its deferred transaction, until that was due. *)
RefundIsScheduled ==
  \A a \in Accounts : request[a] # None /\ now < request[a] + RefundDelay => deferred[a] # None

-----------------------------------------------------------------------------
(* The wealth of an account: its liquid tokens, what it delegates to anyone and
   what is on its way back.  The liquid tokens of eosio.stake are held for
   others: its own wealth is what is left of them when all is paid back. *)
Held(a) == liquid[a] + Total(DelegatedBy(a)) + refunds["net"][a] + refunds["cpu"][a]
Wealth == [a \in Accounts |-> IF a = StakeAccount THEN Held(a) - Owed ELSE Held(a)]

Owners == INSTANCE Ownership WITH Custodian <- StakeAccount, Start <- Liquid, wealth <- Wealth

(* Staking, unstaking, restaking and both ways of refunding leave everybody's
   wealth as it is; delegating with transfer moves exactly the delegated amount
   from the giver, who can afford it, to the receiver. *)
KeepsOwnership == Owners!Spec
=============================================================================
