----------------------------- MODULE RamMarket -----------------------------
(***************************************************************************)
(* The market for RAM: buyram, buyrambytes and sellram of contracts/       *)
(* eosio.system/src/delegate_bandwidth.cpp, the conversions of             *)
(* exchange_state.cpp, setram, setramrate, update_ram_supply and           *)
(* setacctram of eosio.system.cpp, and what changebw does to a RAM limit.  *)
(* One action is one transaction with the inline transfers it sends.       *)
(*                                                                         *)
(* The conversions are computed in double and cut down to integers; here   *)
(* they are integer divisions, which cut down as well.  The RAM that is    *)
(* added for elapsed blocks is a 32 bit product.  Fees end with            *)
(* eosio.ramfee or, by channel_to_rex, with eosio.rex: FeeAcct stands for  *)
(* both.                                                                   *)
(***************************************************************************)
EXTENDS TokenLedger, Sums

CONSTANTS
  Users,      \* accounts that buy, hold and sell RAM
  RamAcct,    \* eosio.ram, which holds the tokens paid for RAM
  FeeAcct,    \* eosio.ramfee and eosio.rex
  Start,      \* the core tokens a user starts with
  Quote,      \* the core tokens the market starts with on its books (supply / 1000)
  InitRam,    \* max_ram_size at first
  FeeParts,   \* one part in this many is the fee (200)
  Gift,       \* ram_gift_bytes
  Payments,   \* the amounts RAM is bought for
  Bytes,      \* the amounts of RAM that are bought and sold
  Rates,      \* the rates set by setramrate
  Sizes,      \* the sizes set by setram
  MaxSize,    \* the size from which on setram refuses (1024^5)
  Limits,     \* the limits set by setacctram
  MaxSlot,    \* bound on the clock
  Word        \* 2^32

ASSUME UsersAssumption ==
  IsFiniteSet(Users) /\ {RamAcct, FeeAcct} \cap Users = {} /\ RamAcct # FeeAcct
ASSUME MarketAssumption ==
  /\ Start \in [Users -> Nat] /\ Quote \in Nat \ {0} /\ InitRam \in Nat \ {0}
  /\ FeeParts \in Nat \ {0, 1} /\ Gift \in Nat /\ Word \in Nat \ {0}
  /\ Payments \subseteq Int /\ Bytes \subseteq Int
  /\ Rates \subseteq Nat /\ Sizes \subseteq Nat /\ MaxSize \in Nat /\ Limits \subseteq Nat /\ MaxSlot \in Nat

VARIABLES
  now,        \* the slot of current_block_time()
  last,       \* last_ram_increase
  rate,       \* new_ram_per_block
  max_ram,    \* max_ram_size
  reserved,   \* total_ram_bytes_reserved
  ram_stake,  \* total_ram_stake
  base,       \* the market's reserve of RAM
  quote,      \* the market's reserve of core tokens
  liquid,     \* core tokens of users and system accounts
  bytes,      \* bytes[u]: ram_bytes of u's row in userres
  limit,      \* the RAM limit the chain enforces
  managed,    \* accounts whose RAM limit is set by hand
  granted     \* history: the size due to setram and to every block at its rate

market == <<base, quote, reserved, ram_stake>>
supply == <<max_ram, last>>
vars == <<now, last, rate, max_ram, reserved, ram_stake, base, quote, liquid, bytes, limit,
          managed, granted>>

Holders == Users \cup {RamAcct, FeeAcct}

(* init: all RAM is for sale. *)
Init ==
  /\ now = 0
  /\ last = 0
  /\ rate = 0
  /\ max_ram = InitRam
  /\ reserved = 0
  /\ ram_stake = 0
  /\ base = InitRam
  /\ quote = Quote
  /\ liquid = [h \in Holders |-> IF h \in Users THEN Start[h] ELSE 0]
  /\ bytes = [u \in Users |-> 0]
  /\ limit = [u \in Users |-> 0]
  /\ managed = {}
  /\ granted = InitRam

-----------------------------------------------------------------------------
(* Mutant: the price is that of before the payment. *)
SpotOutput(inp_reserve, out_reserve, inp) == (inp * out_reserve) \div inp_reserve

get_bancor_output(inp_reserve, out_reserve, inp) == (inp * out_reserve) \div (inp_reserve + inp)

(* Not defined for out = out_reserve: the conversion of an infinite double aborts. *)
get_bancor_input(out_reserve, inp_reserve, out) ==
  IF out > out_reserve THEN 0 ELSE (inp_reserve * out) \div (out_reserve - out)

(* What update_ram_supply adds to the market and to max_ram_size *)
NewRam == IF now > last THEN ((now - last) * rate) % Word ELSE 0

(* .5% fee (round up) *)
Fee(q) == (q + FeeParts - 1) \div FeeParts

LimitAfter(u, quota) == [limit EXCEPT ![u] = IF u \in managed THEN @ ELSE quota + Gift]

update_ram_supply ==
  /\ max_ram' = max_ram + NewRam
  /\ last' = now

(* direct_convert, with the RAM that update_ram_supply has added before: what
   the tokens q buy and the market after that, and the same for selling n bytes. *)
BytesFor(q) == get_bancor_output(quote, base + NewRam, q)
TokensFor(n) == get_bancor_output(base + NewRam, quote, n)

TokensToRam(q) == quote' = quote + q /\ base' = base + NewRam - BytesFor(q)
RamToTokens(n) == base' = base + NewRam + n /\ quote' = quote - TokensFor(n)

(* A transfer of nothing aborts, so the payment must exceed its fee. *)
buyram(payer, receiver, q) ==
  LET paid      == q - Fee(q)
      bytes_out == BytesFor(paid)
  IN  /\ q > 0
      /\ paid > 0
      /\ bytes_out > 0
      /\ Covers(liquid, payer, q)
      /\ update_ram_supply
      /\ liquid' = moved(moved(liquid, payer, RamAcct, paid), payer, FeeAcct, Fee(q))
      /\ TokensToRam(paid)
      /\ reserved' = reserved + bytes_out
      /\ ram_stake' = ram_stake + paid
      /\ bytes' = [bytes EXCEPT ![receiver] = @ + bytes_out]
      /\ limit' = LimitAfter(receiver, bytes'[receiver])
      /\ UNCHANGED <<now, rate, managed, granted>>

(* The cost is computed from the reserves before update_ram_supply. *)
buyrambytes(payer, receiver, n) ==
  /\ n # base
  /\ buyram(payer, receiver, (get_bancor_input(base, quote, n) * FeeParts) \div (FeeParts - 1))

HasQuota(u, n) == bytes[u] >= n

Released(n) == reserved - n

sellram(u, n) ==
  LET tokens_out == TokensFor(n)
  IN  /\ n > 0
      /\ HasQuota(u, n)
      /\ tokens_out > 1
      /\ ram_stake - tokens_out >= 0
      /\ Covers(liquid, RamAcct, tokens_out)
      /\ update_ram_supply
      /\ RamToTokens(n)
      /\ reserved' = Released(n)
      /\ ram_stake' = ram_stake - tokens_out
      /\ bytes' = [bytes EXCEPT ![u] = @ - n]
      /\ limit' = LimitAfter(u, bytes'[u])
      /\ liquid' = moved(moved(liquid, RamAcct, u, tokens_out), u, FeeAcct, Fee(tokens_out))
      /\ UNCHANGED <<now, rate, managed, granted>>

setram(size) ==
  /\ size > max_ram
  /\ size < MaxSize
  /\ size > reserved
  /\ base' = base + size - max_ram
  /\ max_ram' = size
  /\ granted' = granted + size - max_ram
  /\ UNCHANGED <<now, last, rate, reserved, ram_stake, quote, liquid, bytes, limit, managed>>

(* Mutant: the blocks since the last increase are counted at the new rate. *)
NoUpdate == UNCHANGED <<base, max_ram, last>>

(* The RAM of the blocks so far is added at the old rate. *)
UpdateFirst == base' = base + NewRam /\ update_ram_supply

setramrate(bytes_per_block) ==
  /\ UpdateFirst
  /\ rate' = bytes_per_block
  /\ UNCHANGED <<now, reserved, ram_stake, quote, liquid, bytes, limit, managed, granted>>

(* Mutant: a limit given back stays where it was. *)
QuotaKept(u) == limit[u]

QuotaRestored(u) == Gift + bytes[u]

Larger(x, y) == IF x < y THEN y ELSE x

(* setacctram with a limit *)
setacctram(u, ram) ==
  /\ managed' = managed \cup {u}
  /\ limit' = [limit EXCEPT ![u] = ram]
  /\ UNCHANGED <<now, rate, supply, market, liquid, bytes, granted>>

(* setacctram without one: the limit is what the account bought again. *)
unsetacctram(u) ==
  /\ u \in managed
  /\ managed' = managed \ {u}
  /\ limit' = [limit EXCEPT ![u] = QuotaRestored(u)]
  /\ UNCHANGED <<now, rate, supply, market, liquid, bytes, granted>>

(* changebw, whose net and cpu part is in Staking, raises the RAM limit of the
   receiver to what it bought and the gift.  With net and cpu both managed it sets
   no limit at all, which is no step here. *)
changebw(u) ==
  /\ limit' = [limit EXCEPT ![u] = IF u \in managed THEN @ ELSE Larger(QuotaRestored(u), @)]
  /\ UNCHANGED <<now, rate, supply, market, liquid, bytes, managed, granted>>

Tick ==
  /\ now < MaxSlot
  /\ now' = now + 1
  /\ granted' = granted + rate
  /\ UNCHANGED <<rate, supply, market, liquid, bytes, limit, managed>>

Next ==
  \/ \E payer, receiver \in Users :
       \/ \E q \in Payments : buyram(payer, receiver, q)
       \/ \E n \in Bytes : buyrambytes(payer, receiver, n)
  \/ \E u \in Users, n \in Bytes : sellram(u, n)
  \/ \E size \in Sizes : setram(size)
  \/ \E r \in Rates : setramrate(r)
  \/ \E u \in Users : \/ unsetacctram(u)
                     \/ \E ram \in Limits : setacctram(u, ram)
                     \/ changebw(u)
  \/ Tick

Spec == Init /\ [][Next]_vars

-----------------------------------------------------------------------------
TypeOK ==
  /\ now \in 0 .. MaxSlot /\ last \in 0 .. now /\ rate \in Nat
  /\ max_ram \in Nat /\ reserved \in Nat /\ ram_stake \in Nat
  /\ base \in Nat \ {0} /\ quote \in Nat \ {0}
  /\ liquid \in [Holders -> Nat]
  /\ bytes \in [Users -> Nat]
  /\ limit \in [Users -> Nat]
  /\ managed \subseteq Users
  /\ granted \in Nat

(* All RAM is either for sale in the market or in the rows of users, and the
   tokens eosio.ram holds are the stake in RAM and the growth of the market's
   token reserve: four books, kept by three operations, agree.  The chain lets an
   account use what it bought and the gift, unless its limit is set by hand or
   it neither traded nor was given stake. *)
BooksAgree ==
  /\ base + reserved = max_ram
  /\ reserved = Total(bytes)
  /\ liquid[RamAcct] = ram_stake
  /\ quote = Quote + ram_stake
  /\ \A u \in Users \ managed : limit[u] = bytes[u] + Gift \/ (limit[u] = 0 /\ bytes[u] = 0)

(* eosio.ram can always pay the holders of RAM, even if all of them sell at
   once: the "error, attempt to unstake more tokens than previously staked",
   which "shouldn't happen", does not, whatever was bought, sold and rounded
   and however the supply grew in between. *)
SellersCanBePaid == get_bancor_output(base, quote, reserved) <= ram_stake

(* The RAM supply grows with every block by the rate that was set at that block,
   although it is only brought up to date when RAM is traded or the rate set.
   The increase is a 32 bit product: when so many blocks pass between two
   updates that it wraps, whole multiples of 2^32 bytes are lost. *)
GrowsByTheBlock ==
  LET due == max_ram + (now - last) * rate
  IN  due <= granted /\ (granted - due) % Word = 0
=============================================================================
