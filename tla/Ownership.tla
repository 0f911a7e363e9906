----------------------------- MODULE Ownership -----------------------------
(***************************************************************************)
(* What staking promises the owners of tokens: whatever mixture of liquid, *)
(* staked and unstaking tokens an account holds, its wealth changes only   *)
(* by the gifts that accounts declare, by exactly the declared amount, and *)
(* nobody gives more than it has.  Only the custodian of the stakes may    *)
(* overdraw, by delegating tokens it does not hold.                        *)
(***************************************************************************)
EXTENDS TokenLedger

CONSTANTS Accounts, Custodian, Start

VARIABLES
  wealth,  \* all that an account owns
  given    \* the gifts it declared to have received, less the ones it made

Init ==
  /\ wealth = Start
  /\ given = [a \in Accounts |-> 0]

Give(from, to, q) ==
  /\ q > 0
  /\ given' = moved(given, from, to, q)
  /\ wealth' = moved(wealth, from, to, q)
  /\ from # Custodian => Covers(wealth, from, q)

Next == \E from, to \in Accounts : Give(from, to, given'[to] - given[to])

Spec == Init /\ [][Next]_<<wealth, given>>
=============================================================================
