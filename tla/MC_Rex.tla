------------------------------- MODULE MC_Rex -------------------------------
EXTENDS Rex, TLC

CONSTANTS
  u1, u2, stk,
  Fund1, Fund2,  \* the tokens in the REX funds of u1 and u2 at first
  Pay1, Pay2,    \* the amounts of tokens they use
  Sell1, Sell2,  \* the amounts of REX they sell or move
  Staked,        \* what every user has staked to itself, all for net
  MaxActivated   \* bound on total_activated_stake, which unstaking does not lower

MCWeight == [t \in Times |-> 2]
MCLocked == [t \in Times |-> 0]
(* b1 may withdraw its stake from time 1 on. *)
MCVesting == [t \in Times |-> IF t < 1 THEN 1 ELSE 0]
MCLiquid == [a \in Accounts |-> 0]
MCDeposits == u1 :> Fund1 @@ u2 :> Fund2
MCPayments == u1 :> Pay1 @@ u2 :> Pay2
MCRexAmounts == u1 :> Sell1 @@ u2 :> Sell2
MCManaged == {-1}
MCStakes == {[net |-> 1, cpu |-> 0]}
MCRank == u1 :> 1 @@ u2 :> 2 @@ stk :> 3

(* A chain on which every user has staked, voted for all producers and made a
   deposit, and nobody has bought REX yet. *)
Own(a) == IF a = stk THEN 0 ELSE Staked

StartInit ==
  /\ now = 0
  /\ voters = Users
  /\ staked = [a \in Accounts |-> Own(a)]
  /\ is_proxy = [a \in Accounts |-> FALSE]
  /\ proxy = [a \in Accounts |-> None]
  /\ choice = [a \in Accounts |-> IF a \in Users THEN Producers ELSE {}]
  /\ tally = [InitTally EXCEPT
                !.last_vote_weight = [a \in Accounts |-> 2 * Own(a)],
                !.votes = [p \in Producers |-> 2 * Staked * Cardinality(Users)],
                !.total_weight = 2 * Staked * Cardinality(Users) * Cardinality(Producers)]
  /\ activated = Staked * Cardinality(Users)
  /\ thresh = 0
  /\ registered = Legacy
  /\ active = Legacy
  /\ rows2 = {}
  /\ claimed = [p \in Producers |-> Epoch]
  /\ voted = Users
  /\ liquid = [a \in Accounts |-> IF a = stk THEN Staked * Cardinality(Users) ELSE 0]
  /\ delband = [k \in Kinds |-> [pair \in Pairs |-> IF k = "net" /\ pair[1] = pair[2] THEN Own(pair[1]) ELSE 0]]
  /\ userres = [k \in Kinds |-> [a \in Accounts |-> IF k = "net" THEN Own(a) ELSE 0]]
  /\ refunds = [k \in Kinds |-> [a \in Accounts |-> 0]]
  /\ request = [a \in Accounts |-> None]
  /\ deferred = [a \in Accounts |-> None]
  /\ limit = userres
  /\ managed = [k \in Kinds |-> {}]
  /\ unbacked = 0
  /\ unstaked = [a \in Accounts |-> Epoch]
  /\ given = [a \in Accounts |-> 0]
  /\ RexInit

LoanNext == Trade \/ Lend \/ Save \/ RexTick

(* Blocks go on and somebody runs rexexec as long as there is work for it: weak
   fairness of rexexec(2), with the states in which it changes something. *)
Work == pool # None /\ runrex(Tables, 2) # Tables

LoanSpec ==
  /\ StartInit /\ [][LoanNext]_allVars
  /\ WF_allVars(RexTick)
  /\ []<>~Work \/ []<><<rexexec(2)>>_allVars

(* REX, staking and voting together *)
VoteNext == Trade \/ Stake \/ Outside \/ RexTick

VoteSpec == StartInit /\ [][VoteNext /\ activated' <= MaxActivated]_allVars
=============================================================================
