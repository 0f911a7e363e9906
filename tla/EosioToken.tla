----------------------------- MODULE EosioToken -----------------------------
(***************************************************************************)
(* contracts/eosio.token: the stat table (one row per symbol code) and the *)
(* accounts table (one row per owner and symbol code).  Every action is    *)
(* one transaction of the chain, atomic and authorized by one signer; its  *)
(* guards are the checks of the handler, so a transaction that fails one   *)
(* of them is a transaction that does not happen.                          *)
(*                                                                         *)
(* Left out: memos, notifications and who pays for RAM.                    *)
(***************************************************************************)
EXTENDS TokenLedger, Sums

CONSTANTS
  Accounts,     \* the accounts that exist on the chain
  Self,         \* the account that holds the contract, get_self()
  Codes,        \* symbol codes
  Precisions,   \* the precisions a symbol may be written with
  MaxAmount,    \* asset::max_amount, the largest valid amount (2^62 - 1)
  NoRow         \* the precision of a row that is not in the table

ASSUME AccountsAssumption == IsFiniteSet(Accounts) /\ Self \in Accounts
ASSUME PrecisionsAssumption == NoRow \notin Precisions
ASSUME MaxAmountAssumption == MaxAmount \in Nat \ {0}

VARIABLES
  stat,      \* stat[c]: the row of code c in the stat table, or NoStat
  row,       \* row[c][a]: the precision a's row of code c is kept in, or NoRow
  balance,   \* balance[c][a]: the amount in that row, 0 when there is none
  signer     \* who authorized the last transaction

vars == <<stat, row, balance, signer>>

StatRow == [supply : Nat, max_supply : Nat, issuer : Accounts, precision : Precisions \cup {NoRow}]

(* max_supply is positive in every row that create makes. *)
NoStat == [supply |-> 0, max_supply |-> 0, issuer |-> Self, precision |-> NoRow]

(* Amounts a caller may write into an action: also zero, negative and too large. *)
InputAmounts == -1 .. MaxAmount + 1

Init ==
  /\ stat = [c \in Codes |-> NoStat]
  /\ row = [c \in Codes |-> [a \in Accounts |-> NoRow]]
  /\ balance = [c \in Codes |-> [a \in Accounts |-> 0]]
  /\ signer = Self

-----------------------------------------------------------------------------
(* quantity.is_valid() and quantity.amount > 0 *)
ValidQuantity(q) == q <= MaxAmount /\ q > 0

(* Mutant: only the code of the symbol is compared. *)
AnyPrecision(c, p) == TRUE

(* quantity.symbol == st.supply.symbol for the row st of code c *)
Matches(c, p) == stat[c].precision = p

Exists(c) == stat[c] # NoStat

(* The row add_balance leaves: the old one, or a new one in the symbol of the value. *)
WithRow(c, a, p) == [row EXCEPT ![c][a] = IF @ = NoRow THEN p ELSE @]

(* Mutant: the authorization is not checked. *)
NoAuth(s, a) == TRUE

require_auth(s, a) == s = a

(* Mutant: what was issued before is forgotten. *)
AvailableOfMax(c, q) == q <= stat[c].max_supply

(* quantity.amount <= st.max_supply.amount - st.supply.amount *)
Available(c, q) == q <= stat[c].max_supply - stat[c].supply

(* check( existing == statstable.end() ) *)
Unused(c) == ~Exists(c)

create(s, c, p, issuer, max) ==
  /\ require_auth(s, Self)
  /\ ValidQuantity(max)
  /\ Unused(c)
  /\ stat' = [stat EXCEPT ![c] = [supply |-> 0, max_supply |-> max,
                                  issuer |-> issuer, precision |-> p]]
  /\ UNCHANGED <<row, balance>>

issue(s, c, p, to, q) ==
  /\ Exists(c)
  /\ to = stat[c].issuer
  /\ require_auth(s, stat[c].issuer)
  /\ ValidQuantity(q)
  /\ Matches(c, p)
  /\ Available(c, q)
  /\ stat' = [stat EXCEPT ![c].supply = @ + q]
  /\ balance' = [balance EXCEPT ![c] = add_balance(@, to, q)]
  /\ row' = WithRow(c, to, p)

retire(s, c, p, q) ==
  /\ Exists(c)
  /\ require_auth(s, stat[c].issuer)
  /\ ValidQuantity(q)
  /\ Matches(c, p)
  /\ row[c][stat[c].issuer] # NoRow
  /\ Covers(balance[c], stat[c].issuer, q)
  /\ stat' = [stat EXCEPT ![c].supply = @ - q]
  /\ balance' = [balance EXCEPT ![c] = sub_balance(@, stat[c].issuer, q)]
  /\ UNCHANGED row

transfer(s, c, p, from, to, q) ==
  /\ from # to
  /\ require_auth(s, from)
  /\ Exists(c)
  /\ ValidQuantity(q)
  /\ Matches(c, p)
  /\ row[c][from] # NoRow
  /\ Covers(balance[c], from, q)
  /\ balance' = [balance EXCEPT ![c] = moved(@, from, to, q)]
  /\ row' = WithRow(c, to, p)
  /\ UNCHANGED stat

(* Anyone may pay for opening a row of someone else. *)
open(c, p, owner) ==
  /\ Exists(c)
  /\ Matches(c, p)
  /\ row' = WithRow(c, owner, p)
  /\ UNCHANGED <<stat, balance>>

(* Neither the stat row nor the precision is looked at. *)
close(s, c, owner) ==
  /\ require_auth(s, owner)
  /\ row[c][owner] # NoRow
  /\ balance[c][owner] = 0
  /\ row' = [row EXCEPT ![c][owner] = NoRow]
  /\ UNCHANGED <<stat, balance>>

Next ==
  \E s \in Accounts, c \in Codes :
    /\ signer' = s
    /\ \/ \E p \in Precisions, a \in Accounts, q \in InputAmounts :
            \/ create(s, c, p, a, q)
            \/ issue(s, c, p, a, q)
       \/ \E p \in Precisions, q \in InputAmounts : retire(s, c, p, q)
       \/ \E p \in Precisions, from, to \in Accounts, q \in InputAmounts :
            transfer(s, c, p, from, to, q)
       \/ \E p \in Precisions, a \in Accounts : open(c, p, a)
       \/ \E a \in Accounts : close(s, c, a)

Spec == Init /\ [][Next]_vars

-----------------------------------------------------------------------------
TypeOK ==
  /\ stat \in [Codes -> StatRow]
  /\ row \in [Codes -> [Accounts -> Precisions \cup {NoRow}]]
  /\ balance \in [Codes -> [Accounts -> Nat]]
  /\ signer \in Accounts

(* The supply recorded in the stat table is the sum of the balances in the
   accounts table: issue, retire and transfer change the two tables in step. *)
SupplyIsTotal == \A c \in Codes : stat[c].supply = Total(balance[c])

(* The supply stays within max_supply, and max_supply within the range of an
   asset: by SupplyIsTotal no balance can then leave that range either, so the
   overflow checks of asset's + never abort a transfer. *)
SupplyWithinMax ==
  \A c \in Codes : stat[c].supply <= stat[c].max_supply /\ stat[c].max_supply <= MaxAmount

(* Balances are only kept in open rows, and every open row is kept in the
   symbol, precision included, of the token's stat row: the same amount means
   the same quantity in every row of a token. *)
RowsMatchStats ==
  \A c \in Codes, a \in Accounts :
    /\ balance[c][a] > 0 => row[c][a] # NoRow
    /\ row[c][a] # NoRow => Exists(c) /\ row[c][a] = stat[c].precision

(* A balance falls only in a transaction its owner authorized, and the supply
   changes only in one the issuer authorized. *)
OnlyOwnersSpend ==
  [][\A c \in Codes :
       /\ \A a \in Accounts : balance'[c][a] < balance[c][a] => signer' = a
       /\ Exists(c) /\ stat'[c].supply # stat[c].supply => signer' = stat[c].issuer]_vars
=============================================================================
