---------------------------- MODULE NameAuction ----------------------------
(***************************************************************************)
(* The auctions of premium account names: bidname and bidrefund of         *)
(* contracts/eosio.system/src/name_bidding.cpp, the closing of auctions in *)
(* onblock (producer_pay.cpp), the claim of a name in newaccount           *)
(* (eosio.system.cpp), and runrex (rex.cpp), which takes the proceeds of   *)
(* closed auctions out of eosio.names.  One action is one transaction,     *)
(* inline transfers included; the refund of an outbid bidder is a deferred *)
(* transaction.                                                            *)
(*                                                                         *)
(* Times are kept as ages, which stop growing once every comparison the    *)
(* code makes with them is decided: the clock itself is not bounded.  The  *)
(* blocks less than a minute after the last update of the schedule, which  *)
(* do not look at auctions, are below its resolution.  Of onblock,         *)
(* newaccount and the actions of REX only what concerns names is here: of  *)
(* REX, whether there is any and the beginning of runrex.                  *)
(***************************************************************************)
EXTENDS TokenLedger, Sums

CONSTANTS
  Bidders,     \* accounts that bid for names and create accounts
  System,      \* the account of the system contract, get_self()
  NamesAcct,   \* eosio.names, which holds the bids
  RexAcct,     \* eosio.rex, which gets the proceeds
  Names,       \* names that are not accounts at first and need a bid or a suffix
  Suffix,      \* Suffix[n]: n itself when n is for auction, else the name it ends with
  Start,       \* the core tokens a bidder starts with
  Bids,        \* the amounts that are bid
  Day,         \* useconds_per_day and blocks_per_day
  TwoWeeks,    \* the 14 days after activation in which no auction closes
  None

ASSUME NamesAssumption ==
  /\ IsFiniteSet(Names) /\ IsFiniteSet(Bidders)
  /\ {System, NamesAcct, RexAcct} \cap Bidders = {} /\ NamesAcct # RexAcct
  /\ Names \cap Bidders = {}
  /\ None \notin Bidders \cup Names \cup {System}
  /\ Suffix \in [Names -> Names]
  /\ Start \in [Bidders -> Nat] /\ Bids \subseteq Int
  /\ Day \in Nat /\ TwoWeeks \in Nat

VARIABLES
  liquid,     \* core tokens of bidders and eosio.names, and those eosio.rex got from it
  bid,        \* bid[n]: the namebids row of n, or NoBid; closed when high_bid < 0
  refunds,    \* refunds[b][n]: the bidrefunds row of b for n, 0 without one
  deferred,   \* the pending bidrefund transactions, by <<b, n>>
  close_age,  \* how long ago last_name_close was
  thresh_age, \* how long ago the chain was activated, or None
  rex_available, \* there is a REX pool with REX in it
  proceeds,   \* namebid_proceeds of the REX pool, 0 without one
  creator,    \* creator[n]: who created the account n, None while there is none
  best,       \* history: who made the highest of all bids on n, and which
  spent,      \* history: what b paid for names it claimed
  idle        \* history: the bids of auctions that closed without REX

rexVars == <<rex_available, proceeds, idle>>
histVars == <<best, spent>>
vars == <<liquid, bid, refunds, deferred, close_age, thresh_age, creator, rexVars, histVars>>

Creators == Bidders \cup Names \cup {System}
Holders == Bidders \cup {NamesAcct, RexAcct}
Older(age, limit) == IF age > limit THEN age ELSE age + 1

NoBid == [high_bidder |-> None, high_bid |-> 0, age |-> 0]

is_account(n) == creator[n] # None
Open(n) == bid[n].high_bid > 0
Closed(n) == bid[n].high_bid < 0

Init ==
  /\ liquid = [a \in Holders |-> IF a \in Bidders THEN Start[a] ELSE 0]
  /\ bid = [n \in Names |-> NoBid]
  /\ refunds = [b \in Bidders |-> [n \in Names |-> 0]]
  /\ deferred = {}
  /\ close_age = Day + 1
  /\ thresh_age = None
  /\ rex_available = FALSE
  /\ proceeds = 0
  /\ creator = [n \in Names |-> None]
  /\ best = [n \in Names |-> [bidder |-> None, amount |-> 0]]
  /\ spent = [b \in Bidders |-> 0]
  /\ idle = 0

-----------------------------------------------------------------------------
(* check( bid.amount > 0, "insufficient bid" ) *)
ValidBid(q) == q > 0

(* check( bid.amount - current->high_bid > (current->high_bid / 10) ) *)
Raises(n, q) == q - bid[n].high_bid > bid[n].high_bid \div 10

(* Mutant: a second refund of the same bidder takes the place of the first. *)
RefundOfLastBid(n) == [refunds EXCEPT ![bid[n].high_bidder][n] = bid[n].high_bid]

(* The outbid bidder's refund, added to one that is still waiting *)
RefundOutbid(n) == [refunds EXCEPT ![bid[n].high_bidder][n] = @ + bid[n].high_bid]

bidname(b, n, q) ==
  /\ Suffix[n] = n
  /\ ~is_account(n)
  /\ ValidBid(q)
  /\ Covers(liquid, b, q)
  /\ liquid' = moved(liquid, b, NamesAcct, q)
  /\ \/ /\ bid[n] = NoBid
        /\ UNCHANGED <<refunds, deferred>>
     \/ /\ Open(n)
        /\ Raises(n, q)
        /\ bid[n].high_bidder # b
        /\ refunds' = RefundOutbid(n)
        /\ deferred' = deferred \cup {<<bid[n].high_bidder, n>>}
  /\ bid' = [bid EXCEPT ![n] = [high_bidder |-> b, high_bid |-> q, age |-> 0]]
  /\ best' = [best EXCEPT ![n] = IF q > @.amount THEN [bidder |-> b, amount |-> q] ELSE @]
  /\ UNCHANGED <<close_age, thresh_age, creator, spent, rexVars>>

(* bidrefund, which anyone may call and the deferred transaction calls *)
PayRefund(b, n) ==
  /\ refunds[b][n] > 0
  /\ Covers(liquid, NamesAcct, refunds[b][n])
  /\ liquid' = moved(liquid, NamesAcct, b, refunds[b][n])
  /\ refunds' = [refunds EXCEPT ![b][n] = 0]

bidrefund(b, n) ==
  /\ PayRefund(b, n)
  /\ UNCHANGED <<bid, deferred, close_age, thresh_age, creator, rexVars, histVars>>

(* The chain runs the deferred refund, which fails when the row is gone, or drops it. *)
RunDeferred(b, n) ==
  /\ <<b, n>> \in deferred
  /\ deferred' = deferred \ {<<b, n>>}
  /\ PayRefund(b, n) \/ UNCHANGED <<liquid, refunds>>
  /\ UNCHANGED <<bid, close_age, thresh_age, creator, rexVars, histVars>>

Amount(x) == IF x < 0 THEN -x ELSE x

(* Mutant: closed auctions are ranked among the open ones. *)
HighestOfAll(n) == Open(n) /\ \A m \in Names : Amount(bid[m].high_bid) <= bid[n].high_bid

(* The index by -high_bid as an unsigned number, from the middle on: the
   highest of the open bids; closed auctions are in the lower half. *)
Highest(n) == Open(n) /\ \A m \in Names : Open(m) => bid[m].high_bid <= bid[n].high_bid

Negated(n) == [bid EXCEPT ![n].high_bid = -@]

(* Auctions close one a day, the highest first, two weeks after activation.
   channel_namebid_to_rex counts the bid only while REX is available; without
   it the bid stays in eosio.names. *)
onblock(n) ==
  /\ close_age > Day
  /\ Highest(n)
  /\ bid[n].age > Day
  /\ thresh_age # None
  /\ thresh_age > TwoWeeks
  /\ close_age' = 0
  /\ proceeds' = IF rex_available THEN proceeds + bid[n].high_bid ELSE proceeds
  /\ idle' = IF rex_available THEN idle ELSE idle + bid[n].high_bid
  /\ bid' = Negated(n)
  /\ UNCHANGED <<liquid, refunds, deferred, thresh_age, creator, rex_available, histVars>>

(* Mutant: what was channelled still counts as proceeds. *)
ProceedsKept == proceeds

ProceedsLeft == 0

(* The beginning of runrex: proceeds go from eosio.names to eosio.rex, by
   channel_to_rex only while REX is available, and are forgotten. *)
channel_proceeds(available) ==
  LET channels == proceeds > 0 /\ available
  IN  /\ channels => Covers(liquid, NamesAcct, proceeds)
      /\ liquid' = IF channels THEN moved(liquid, NamesAcct, RexAcct, proceeds) ELSE liquid
      /\ proceeds' = ProceedsLeft
      /\ UNCHANGED <<bid, refunds, deferred, close_age, thresh_age, creator, idle, histVars>>

(* An action of REX that runs runrex.  The last REX may be sold in it: by an
   order that runrex fills, or by a sellrex that begins with it. *)
runrex ==
  /\ channel_proceeds(rex_available)
  /\ rex_available' \in {rex_available, FALSE}

(* A purchase where there is no REX, which ends with runrex *)
buyrex ==
  /\ ~rex_available
  /\ channel_proceeds(TRUE)
  /\ rex_available' = TRUE

(* Mutant: the highest bidder need not wait for the close. *)
WinsEarly(c, n) == bid[n].high_bidder = c

(* The winner of a closed auction *)
Wins(c, n) == bid[n].high_bidder = c /\ Closed(n)

(* The system account needs neither a bid nor a suffix, and leaves a bid in its table. *)
newaccount(c, n) ==
  /\ ~is_account(n)
  /\ c \in Names => is_account(c)
  /\ \/ /\ c = System
        /\ UNCHANGED <<bid, spent>>
     \/ /\ c # System
        /\ Suffix[n] = n
        /\ Wins(c, n)
        /\ bid' = [bid EXCEPT ![n] = NoBid]
        /\ spent' = [spent EXCEPT ![c] = @ + Amount(bid[n].high_bid)]
     \/ /\ c # System
        /\ Suffix[n] # n
        /\ c = Suffix[n]
        /\ UNCHANGED <<bid, spent>>
  /\ creator' = [creator EXCEPT ![n] = c]
  /\ UNCHANGED <<liquid, refunds, deferred, close_age, thresh_age, best, rexVars>>

(* total_activated_stake reaches its threshold, in Voting *)
Activated ==
  /\ thresh_age = None
  /\ thresh_age' = 0
  /\ UNCHANGED <<liquid, bid, refunds, deferred, close_age, creator, rexVars, histVars>>

Tick ==
  /\ bid' = [n \in Names |-> IF bid[n] = NoBid THEN NoBid ELSE [bid[n] EXCEPT !.age = Older(@, Day)]]
  /\ close_age' = Older(close_age, Day)
  /\ thresh_age' = IF thresh_age = None THEN None ELSE Older(thresh_age, TwoWeeks)
  /\ UNCHANGED <<liquid, refunds, deferred, creator, rexVars, histVars>>

CloseOne == \E n \in Names : onblock(n)

Next ==
  \/ \E b \in Bidders, n \in Names :
       \/ \E q \in Bids : bidname(b, n, q)
       \/ bidrefund(b, n)
       \/ RunDeferred(b, n)
  \/ \E c \in Creators, n \in Names : newaccount(c, n)
  \/ CloseOne
  \/ runrex
  \/ buyrex
  \/ Activated
  \/ Tick

(* Time passes and blocks are produced; nobody has to bid, claim, refund or use REX. *)
Spec == Init /\ [][Next]_vars /\ WF_vars(Tick) /\ WF_vars(CloseOne)

-----------------------------------------------------------------------------
NameBid == [high_bidder : Bidders \cup {None}, high_bid : Int, age : 0 .. Day + 1]

TypeOK ==
  /\ liquid \in [Holders -> Nat]
  /\ bid \in [Names -> NameBid]
  /\ \A n \in Names : bid[n].high_bid = 0 <=> bid[n] = NoBid
  /\ refunds \in [Bidders -> [Names -> Nat]]
  /\ deferred \subseteq Bidders \X Names
  /\ close_age \in 0 .. Day + 1
  /\ thresh_age \in (0 .. TwoWeeks + 1) \cup {None}
  /\ rex_available \in BOOLEAN
  /\ proceeds \in Nat
  /\ creator \in [Names -> Creators \cup {None}]
  /\ best \in [Names -> [bidder : Bidders \cup {None}, amount : Nat]]
  /\ spent \in [Bidders -> Nat]
  /\ idle \in Nat

(* The bids b stands with, open or won and not claimed yet *)
Standing(b) == [n \in Names |-> IF bid[n].high_bidder = b THEN Amount(bid[n].high_bid) ELSE 0]

(* A bidder gives up nothing but its standing bids and what it paid for names it
   claimed: a bid that was topped is in its refund row or back in its hands,
   however often it bid again and in whichever order its refunds came. *)
OutbidKeepsTokens ==
  \A b \in Bidders : liquid[b] + Total(refunds[b]) + Total(Standing(b)) + spent[b] = Start[b]

OpenBids == [n \in Names |-> IF Open(n) THEN bid[n].high_bid ELSE 0]
Owed == [b \in Bidders |-> Total(refunds[b])]

(* eosio.names holds the open bids, all refunds, the proceeds that runrex has not
   channelled yet, and the bids that closed without REX: however auctions close and
   runs of runrex alternate, proceeds leave once, are always covered, and are never
   the money of a bidder. *)
ProceedsAreEarned ==
  liquid[NamesAcct] = Total(OpenBids) + Total(Owed) + proceeds + idle

(* An auctioned name becomes an account only for the one who made the highest
   of all bids on it, after the auction closed, or by the system account; a name
   with a suffix only by the owner of the suffix or by the system account. *)
OnlyWinnersClaim ==
  [][\A n \in Names : creator'[n] # creator[n] =>
       \/ creator'[n] = System
       \/ /\ Suffix[n] = n /\ Closed(n)
          /\ best[n] = [bidder |-> creator'[n], amount |-> -bid[n].high_bid]
       \/ Suffix[n] # n /\ creator'[n] = Suffix[n] /\ is_account(Suffix[n])]_vars

(* Every auction closes in the end, once the chain is activated: others may be
   higher for a while and bids may start its day again, but not for ever. *)
AuctionEnds ==
  \A n \in Names : Open(n) /\ thresh_age # None ~> ~Open(n)
=============================================================================
