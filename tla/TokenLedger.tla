---------------------------- MODULE TokenLedger ----------------------------
(***************************************************************************)
(* The balances of one token symbol, a function from accounts to amounts,  *)
(* and how eosio.token moves them.  An account without a row in the        *)
(* accounts table has amount 0 here.  EosioToken adds the rows and the     *)
(* stat table; the system contract's modules use these operators for the   *)
(* inline eosio.token::transfer actions they send.                         *)
(***************************************************************************)
EXTENDS Integers

sub_balance(bal, owner, value) == [bal EXCEPT ![owner] = @ - value]

add_balance(bal, owner, value) == [bal EXCEPT ![owner] = @ + value]

(* check( from.balance.amount >= value.amount, "overdrawn balance" ) *)
Covers(bal, owner, value) == bal[owner] >= value

(* Mutant: the sender keeps what it sends. *)
movedOnce(bal, from, to, value) == add_balance(bal, to, value)

moved(bal, from, to, value) == add_balance(sub_balance(bal, from, value), to, value)
=============================================================================
