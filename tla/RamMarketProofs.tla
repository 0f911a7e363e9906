-------------------------- MODULE RamMarketProofs ---------------------------
(***************************************************************************)
(* Proofs about RamMarket for any users, amounts, rates, sizes and word    *)
(* size.  The books agree and the supply grows by the block one action at  *)
(* a time; that eosio.ram can pay everybody who sells needs the invariant  *)
(* that makes this market a market: no trade, rounding or growth of the    *)
(* supply lets the product of the two reserves fall behind max_ram * Quote.*)
(***************************************************************************)
EXTENDS RamMarket, SumsProofs

(* The product of the reserves keeps up with the supply. *)
NeverCheaper == max_ram * Quote <= base * quote

Inv == TypeOK /\ BooksAgree /\ NeverCheaper /\ GrowsByTheBlock

-----------------------------------------------------------------------------
(* A conversion pays out less than the reserve, and rounding down leaves the
   product of the reserves where it was or higher. *)
LEMMA ConvertKeepsProduct ==
  ASSUME NEW inp_reserve \in Nat \ {0}, NEW out_reserve \in Nat \ {0}, NEW inp \in Nat
  PROVE  LET out == get_bancor_output(inp_reserve, out_reserve, inp)
         IN  /\ out \in Nat
             /\ out < out_reserve
             /\ inp_reserve * out_reserve <= (inp_reserve + inp) * (out_reserve - out)
<1> DEFINE s == inp_reserve + inp
           p == inp * out_reserve
           out == p \div s
<1>1. s \in Nat \ {0} /\ p \in Nat
  OBVIOUS
<1>2. out \in Nat /\ out * s <= p
  <2> HIDE DEF s, p
  <2> QED BY <1>1, DivBounds, DivNat
<1>3. s * (out_reserve - out) = s * out_reserve - out * s
  <2> HIDE DEF s, out
  <2> QED BY <1>1, <1>2
<1>4. s * out_reserve = inp_reserve * out_reserve + p
  OBVIOUS
<1>5. inp_reserve * out_reserve \in Nat \ {0}
  OBVIOUS
<1>6. out * s \in Nat
  <2> HIDE DEF out, s
  <2> QED BY <1>1, <1>2
<1>7. inp_reserve * out_reserve <= s * (out_reserve - out)
  <2> DEFINE x == s * out_reserve
             y == out * s
             z == inp_reserve * out_reserve
             w == s * (out_reserve - out)
  <2>1. w = x - y /\ x = z + p /\ y <= p /\ y \in Nat /\ z \in Nat
    BY <1>2, <1>3, <1>4, <1>5, <1>6
  <2> HIDE DEF x, y, z, w, p
  <2>2. z <= w
    BY <2>1, <1>1
  <2> QED BY <2>2 DEF z, w
<1>8. out < out_reserve
  <2> SUFFICES ASSUME out >= out_reserve PROVE FALSE
    BY <1>2
  <2> HIDE DEF out, s
  <2>1. s * (out_reserve - out) <= 0
    BY <1>1, <1>2
  <2> QED BY <2>1, <1>1, <1>2, <1>5, <1>7
<1> QED BY <1>2, <1>7, <1>8 DEF get_bancor_output

(* What the blocks since the last update add is a natural number, and differs
   from the due amount by a multiple of the word. *)
LEMMA NewRamType ==
  ASSUME TypeOK
  PROVE  /\ NewRam \in Nat
         /\ \E k \in Nat : (now - last) * rate = NewRam + Word * k
<1> DEFINE x == (now - last) * rate
<1>1. now \in Nat /\ last \in Nat /\ rate \in Nat /\ last <= now /\ Word \in Nat \ {0}
  BY MarketAssumption DEF TypeOK
<1>2. x \in Nat
  BY <1>1
<1>3. NewRam = x % Word
  <2>1. CASE now > last
    BY <2>1 DEF NewRam
  <2>2. CASE now = last
    <3>1. x = 0
      BY <1>1, <2>2
    <3>2. 0 % Word = 0
      BY <1>1
    <3> QED BY <1>1, <2>2, <3>1, <3>2 DEF NewRam
  <2> QED BY <1>1, <2>1, <2>2
<1> HIDE DEF x
<1>4. x % Word \in Nat /\ x % Word = x - Word * (x \div Word) /\ x \div Word \in Nat
  <2>1. x % Word \in 0 .. Word - 1 /\ x % Word = x - Word * (x \div Word)
    <3>1. x \in Int
      BY <1>2
    <3> QED BY <1>1, <3>1, ModDiv, Zenon
  <2>2. x \div Word \in Nat
    BY <1>1, <1>2, DivNat
  <2>3. x % Word \in Nat
    BY <1>1, <2>1
  <2> QED BY <2>1, <2>2, <2>3
<1>5. x = (x % Word) + Word * (x \div Word)
  <2> DEFINE r == x % Word
             m == Word * (x \div Word)
  <2>1. m \in Nat
    BY <1>1, <1>4
  <2>2. r = x - m
    BY <1>4
  <2> HIDE DEF r, m
  <2>3. x = r + m
    BY <1>2, <2>1, <2>2
  <2> QED BY <2>3 DEF r, m
<1>6. NewRam \in Nat /\ \E k \in Nat : x = NewRam + Word * k
  BY <1>3, <1>4, <1>5
<1> QED BY <1>6 DEF x

(* Bringing the supply up to date loses only whole words. *)
LEMMA UpdateGrows ==
  ASSUME TypeOK, GrowsByTheBlock, update_ram_supply, UNCHANGED <<now, granted>>, rate' \in Nat
  PROVE  GrowsByTheBlock'
<1> DEFINE due == max_ram + (now - last) * rate
           rest == granted - due
<1>1. PICK k \in Nat : (now - last) * rate = NewRam + Word * k
  BY NewRamType
<1>2. NewRam \in Nat /\ max_ram \in Nat /\ granted \in Nat /\ now \in Nat /\ Word \in Nat \ {0}
  BY NewRamType, MarketAssumption DEF TypeOK
<1>3. max_ram' + (now' - last') * rate' = max_ram + NewRam
  <2>1. max_ram' = max_ram + NewRam /\ now' - last' = 0
    BY <1>2 DEF update_ram_supply
  <2> QED BY <1>2, <2>1
<1>4. Word * k \in Nat
  BY <1>2
<1>5. rest \in Nat /\ rest % Word = 0
  <2>1. due \in Nat
    BY <1>1, <1>2, <1>4
  <2>2. due <= granted /\ (granted - due) % Word = 0
    BY DEF GrowsByTheBlock
  <2> QED BY <1>2, <2>1, <2>2
<1>6. granted - (max_ram + NewRam) = rest + Word * k
  BY <1>1, <1>2, <1>4
<1> HIDE DEF rest
<1>7. (rest + Word * k) % Word = 0
  <2>1. rest \in Int /\ k \in Int
    BY <1>5
  <2> QED BY <1>2, <1>5, <2>1, ModAdd, Zenon
<1>8. max_ram + NewRam <= granted
  BY <1>2, <1>4, <1>5, <1>6
<1> QED BY <1>3, <1>6, <1>7, <1>8 DEF GrowsByTheBlock

(* RAM that is added to the market raises the product enough. *)
LEMMA GrownProduct ==
  ASSUME Inv, NEW more \in Nat
  PROVE  (max_ram + more) * Quote <= (base + more) * quote
<1>1. /\ max_ram \in Nat /\ base \in Nat /\ quote \in Nat /\ Quote \in Nat
      /\ Quote <= quote
  BY MarketAssumption DEF Inv, TypeOK, BooksAgree
<1>2. more * Quote <= more * quote
  BY <1>1
<1>3. max_ram * Quote <= base * quote
  BY DEF Inv, NeverCheaper
<1>4. (max_ram + more) * Quote = max_ram * Quote + more * Quote
  BY <1>1
<1>5. (base + more) * quote = base * quote + more * quote
  BY <1>1
<1> QED BY <1>1, <1>2, <1>3, <1>4, <1>5

(* The fee is part of the payment. *)
LEMMA FeeType ==
  ASSUME NEW q \in Nat \ {0}
  PROVE  Fee(q) \in 0 .. q
<1> DEFINE x == q + FeeParts - 1
           d == FeeParts
<1>1. d \in Nat /\ d > 1 /\ x \in Nat /\ d \in Nat \ {0}
  BY MarketAssumption
<1>2. x < d * q + d
  <2>1. x = q + d - 1
    OBVIOUS
  <2> HIDE DEF x, d
  <2>2. (d - 1) * q >= 0
    BY <1>1
  <2>3. (d - 1) * q = d * q - q
    BY <1>1
  <2> QED BY <1>1, <2>1, <2>2, <2>3
<1>3. Fee(q) = x \div d
  BY DEF Fee
<1> HIDE DEF x, d
<1>4. x \div d \in Nat /\ (x \div d) * d <= x
  BY <1>1, DivBounds, DivNat
<1>5. x \div d <= q
  <2> DEFINE f == x \div d
  <2> SUFFICES ASSUME f >= q + 1 PROVE FALSE
    BY <1>4
  <2>1. f \in Nat /\ f * d <= x
    BY <1>4
  <2> HIDE DEF f
  <2>2. (q + 1) * d <= f * d
    BY <1>1, <2>1
  <2> QED BY <1>1, <1>2, <2>1, <2>2
<1> QED BY <1>3, <1>4, <1>5

-----------------------------------------------------------------------------
(* The market as init of eosio.system.cpp creates it. *)
LEMMA InitInv == Init => Inv
<1> SUFFICES ASSUME Init PROVE Inv
  OBVIOUS
<1> USE UsersAssumption, MarketAssumption DEF Init, Inv
<1>1. TypeOK
  BY DEF TypeOK, Holders
<1>2. BooksAgree
  <2>1. Total(bytes) = 0
    BY TotalZero
  <2> QED BY <2>1 DEF BooksAgree, Holders
<1>3. NeverCheaper
  BY DEF NeverCheaper
<1>4. GrowsByTheBlock
  <2>1. (now - last) * rate = 0 /\ 0 % Word = 0
    OBVIOUS
  <2>2. max_ram + (now - last) * rate = InitRam /\ granted - InitRam = 0 /\ InitRam <= granted
    BY <2>1
  <2> QED BY <2>1, <2>2 DEF GrowsByTheBlock
<1> QED BY <1>1, <1>2, <1>3, <1>4

(* buyram keeps the invariant, whatever amount it is called with. *)
LEMMA BuyInv ==
  ASSUME Inv, NEW payer \in Users, NEW receiver \in Users, NEW q \in Int,
         buyram(payer, receiver, q)
  PROVE  Inv'
<1> DEFINE fee  == Fee(q)
           paid == q - fee
           b    == base + NewRam
           out  == BytesFor(paid)
<1>1. TypeOK /\ BooksAgree /\ NeverCheaper /\ GrowsByTheBlock
  BY DEF Inv
<1>2. fee \in 0 .. q /\ paid \in Nat \ {0}
  BY FeeType DEF buyram
<1>3. NewRam \in Nat /\ b \in Nat \ {0} /\ quote \in Nat \ {0} /\ max_ram \in Nat
  BY <1>1, NewRamType DEF TypeOK
<1>4. out \in Nat /\ out > 0 /\ out < b /\ quote * b <= (quote + paid) * (b - out)
  <2>1. out = get_bancor_output(quote, b, paid)
    BY DEF BytesFor
  <2>2. out > 0
    BY DEF buyram
  <2> HIDE DEF paid, b, out
  <2> QED BY <1>2, <1>3, <2>1, <2>2, ConvertKeepsProduct
<1>5. /\ max_ram' = max_ram + NewRam /\ last' = now
      /\ quote' = quote + paid /\ base' = b - out
      /\ reserved' = reserved + out /\ ram_stake' = ram_stake + paid
      /\ bytes' = [bytes EXCEPT ![receiver] = bytes[receiver] + out]
      /\ limit' = LimitAfter(receiver, bytes'[receiver])
      /\ liquid' = moved(moved(liquid, payer, RamAcct, paid), payer, FeeAcct, fee)
      /\ UNCHANGED <<now, rate, managed, granted>>
  <2> HIDE DEF out
  <2>1. /\ max_ram' = max_ram + NewRam /\ last' = now
        /\ quote' = quote + paid /\ base' = base + NewRam - out
    BY DEF buyram, update_ram_supply, TokensToRam, out
  <2>2. bytes' = [bytes EXCEPT ![receiver] = bytes[receiver] + out]
    BY DEF buyram, out
  <2>3. reserved' = reserved + out /\ ram_stake' = ram_stake + paid
    BY DEF buyram, out
  <2>4. limit' = LimitAfter(receiver, bytes'[receiver])
    BY DEF buyram
  <2>5. liquid' = moved(moved(liquid, payer, RamAcct, paid), payer, FeeAcct, fee)
    BY DEF buyram
  <2>6. UNCHANGED <<now, rate, managed, granted>>
    BY DEF buyram
    <2>7. base' = b - out
    BY <1>1, <1>3, <1>4, <2>1 DEF TypeOK
  <2> QED BY <2>1, <2>2, <2>3, <2>4, <2>5, <2>6, <2>7, Zenon
<1>6. /\ bytes' \in [Users -> Nat]
      /\ Total(bytes') = Total(bytes) + out
      /\ limit' \in [Users -> Nat]
      /\ \A u \in Users \ {receiver} : limit'[u] = limit[u] /\ bytes'[u] = bytes[u]
      /\ receiver \notin managed => limit'[receiver] = bytes'[receiver] + Gift
  <2> HIDE DEF out
  <2>1. bytes \in [Users -> Nat] /\ limit \in [Users -> Nat] /\ Total(bytes) \in Nat
    BY <1>1, UsersAssumption, TotalType DEF TypeOK
  <2>2. bytes[receiver] \in Nat /\ bytes[receiver] + out \in Nat
    BY <1>4, <2>1
  <2>3. bytes' \in [Users -> Nat] /\ Total(bytes') = Total(bytes) + out
    <3> DEFINE v == bytes[receiver] + out
    <3>1. v \in Nat /\ bytes' = [bytes EXCEPT ![receiver] = v]
      BY <1>5, <2>2
    <3>2. IsFiniteSet(Users)
      BY UsersAssumption
    <3> HIDE DEF v
    <3>3. Total([bytes EXCEPT ![receiver] = v]) = Total(bytes) - bytes[receiver] + v
      BY <2>1, <3>1, <3>2, TotalUpdate
    <3>4. Total(bytes) - bytes[receiver] + v = Total(bytes) + out
      BY <1>4, <2>1, <2>2 DEF v
    <3> QED BY <2>1, <3>1, <3>3, <3>4
  <2> QED BY <1>4, <1>5, <2>1, <2>2, <2>3, MarketAssumption DEF LimitAfter
<1>7. liquid' \in [Holders -> Nat] /\ liquid'[RamAcct] = liquid[RamAcct] + paid
  <2> DEFINE first == moved(liquid, payer, RamAcct, paid)
  <2>1. /\ liquid \in [Holders -> Nat] /\ Covers(liquid, payer, q)
        /\ payer \in Holders /\ RamAcct \in Holders /\ FeeAcct \in Holders
        /\ payer # RamAcct /\ payer # FeeAcct /\ RamAcct # FeeAcct
    BY <1>1, UsersAssumption DEF TypeOK, buyram, Holders
  <2>2. Covers(liquid, payer, paid) /\ liquid[payer] \in Nat /\ fee \in Nat
    BY <1>2, <2>1 DEF Covers
  <2> HIDE DEF fee, paid
  <2>3. /\ first \in [Holders -> Nat] /\ first[payer] = liquid[payer] - paid
        /\ first[RamAcct] = liquid[RamAcct] + paid
    BY <1>2, <2>1, <2>2, MovedAmounts
  <2>4. Covers(first, payer, fee)
    <3>1. liquid[payer] >= q /\ paid = q - fee /\ q \in Int
      BY <2>1 DEF Covers, paid
    <3> QED BY <2>2, <2>3, <3>1 DEF Covers
  <2> HIDE DEF first
  <2>5. /\ moved(first, payer, FeeAcct, fee) \in [Holders -> Nat]
        /\ moved(first, payer, FeeAcct, fee)[RamAcct] = first[RamAcct]
    BY <2>1, <2>2, <2>3, <2>4, MovedAmounts
  <2> QED BY <1>5, <2>3, <2>5 DEF first
<1> HIDE DEF fee, paid, b, out
<1>8. NeverCheaper'
  <2>1. (max_ram + NewRam) * Quote <= b * quote
    BY <1>3, GrownProduct DEF b
  <2>2. b * quote = quote * b /\ (quote + paid) * (b - out) = (b - out) * (quote + paid)
    BY <1>2, <1>3, <1>4
  <2>3. b * quote \in Int /\ (b - out) * (quote + paid) \in Int /\ (max_ram + NewRam) * Quote \in Int
    BY <1>2, <1>3, <1>4, MarketAssumption
  <2>4. (max_ram + NewRam) * Quote <= (b - out) * (quote + paid)
    BY <1>4, <2>1, <2>2, <2>3
  <2> QED BY <1>5, <2>4 DEF NeverCheaper
<1>9. TypeOK'
  BY <1>1, <1>2, <1>3, <1>4, <1>5, <1>6, <1>7 DEF TypeOK
<1>10. BooksAgree'
  <2>1. reserved \in Nat /\ base \in Nat /\ ram_stake \in Nat
    BY <1>1 DEF TypeOK
  <2>2. base' + reserved' = max_ram'
    BY <1>1, <1>3, <1>4, <1>5, <2>1 DEF BooksAgree, b
  <2>3. reserved' = Total(bytes')
    BY <1>1, <1>5, <1>6 DEF BooksAgree
  <2>4. liquid'[RamAcct] = ram_stake' /\ quote' = Quote + ram_stake'
    BY <1>1, <1>2, <1>3, <1>5, <1>7, <2>1, MarketAssumption DEF BooksAgree
  <2>5. ASSUME NEW u \in Users \ managed'
        PROVE  limit'[u] = bytes'[u] + Gift \/ (limit'[u] = 0 /\ bytes'[u] = 0)
    BY <1>1, <1>5, <1>6 DEF BooksAgree
  <2> QED BY <2>2, <2>3, <2>4, <2>5 DEF BooksAgree
<1>11. GrowsByTheBlock'
  BY <1>1, <1>5, UpdateGrows DEF update_ram_supply, TypeOK
<1> QED BY <1>8, <1>9, <1>10, <1>11 DEF Inv

(* The price is computed first, then the same purchase is made. *)
LEMMA BuyBytesInv ==
  ASSUME Inv, NEW payer \in Users, NEW receiver \in Users, NEW n \in Int,
         buyrambytes(payer, receiver, n)
  PROVE  Inv'
<1> DEFINE cost == get_bancor_input(base, quote, n)
           q == (cost * FeeParts) \div (FeeParts - 1)
<1>1. base \in Nat /\ quote \in Nat /\ n # base /\ FeeParts \in Nat /\ FeeParts - 1 \in Nat \ {0}
  BY MarketAssumption DEF Inv, TypeOK, buyrambytes
<1>2. cost \in Int
  <2>1. CASE n > base
    BY <2>1 DEF get_bancor_input
  <2>2. CASE ~(n > base)
    <3>1. base - n \in Nat \ {0} /\ quote * n \in Int
      BY <1>1, <2>2
    <3>2. (quote * n) \div (base - n) \in Int
      BY <3>1, DivBounds
    <3> QED BY <2>2, <3>2 DEF get_bancor_input
  <2> QED BY <2>1, <2>2
<1>3. q \in Int
  <2> HIDE DEF cost
  <2>1. cost * FeeParts \in Int
    BY <1>1, <1>2
  <2> QED BY <1>1, <2>1, DivBounds
<1>4. buyram(payer, receiver, q)
  BY DEF buyrambytes
<1> HIDE DEF q
<1> QED BY <1>3, <1>4, BuyInv

(* sellram: the tokens are those of the market after the supply was updated. *)
LEMMA SellInv ==
  ASSUME Inv, NEW u \in Users, NEW n \in Int, sellram(u, n)
  PROVE  Inv'
<1> DEFINE b   == base + NewRam
           out == TokensFor(n)
           fee == Fee(out)
<1>1. TypeOK /\ BooksAgree /\ NeverCheaper /\ GrowsByTheBlock
  BY DEF Inv
<1>2. n \in Nat \ {0} /\ bytes[u] >= n /\ ram_stake - out >= 0 /\ out > 1
  BY DEF sellram, HasQuota
<1>3. /\ NewRam \in Nat /\ b \in Nat \ {0} /\ quote \in Nat \ {0} /\ max_ram \in Nat
      /\ ram_stake \in Nat /\ reserved \in Nat /\ base \in Nat
  BY <1>1, NewRamType DEF TypeOK
<1>4. out \in Nat /\ out < quote /\ b * quote <= (b + n) * (quote - out)
  <2>1. out = get_bancor_output(b, quote, n)
    BY DEF TokensFor
  <2> HIDE DEF b, out
  <2> QED BY <1>2, <1>3, <2>1, ConvertKeepsProduct
<1>5. fee \in 0 .. out
  <2> HIDE DEF out
  <2> QED BY <1>2, <1>4, FeeType
<1>6. /\ max_ram' = max_ram + NewRam /\ last' = now
      /\ quote' = quote - out /\ base' = b + n
      /\ reserved' = reserved - n /\ ram_stake' = ram_stake - out
      /\ bytes' = [bytes EXCEPT ![u] = bytes[u] - n]
      /\ limit' = LimitAfter(u, bytes'[u])
      /\ liquid' = moved(moved(liquid, RamAcct, u, out), u, FeeAcct, fee)
      /\ UNCHANGED <<now, rate, managed, granted>>
  <2> HIDE DEF out
  <2>1. /\ max_ram' = max_ram + NewRam /\ last' = now
        /\ quote' = quote - out /\ base' = b + n
    BY DEF sellram, update_ram_supply, RamToTokens, out
  <2>2. bytes' = [bytes EXCEPT ![u] = bytes[u] - n]
    BY DEF sellram
  <2>3. reserved' = reserved - n /\ ram_stake' = ram_stake - out
    BY DEF sellram, Released, out
  <2>4. limit' = LimitAfter(u, bytes'[u])
    BY DEF sellram
  <2>5. liquid' = moved(moved(liquid, RamAcct, u, out), u, FeeAcct, fee)
    BY DEF sellram, out
  <2>6. UNCHANGED <<now, rate, managed, granted>>
    BY DEF sellram
  <2> QED BY <2>1, <2>2, <2>3, <2>4, <2>5, <2>6, Zenon
<1>7. /\ bytes' \in [Users -> Nat]
      /\ Total(bytes') = Total(bytes) - n
      /\ limit' \in [Users -> Nat]
      /\ \A w \in Users \ {u} : limit'[w] = limit[w] /\ bytes'[w] = bytes[w]
      /\ u \notin managed => limit'[u] = bytes'[u] + Gift
  <2>1. /\ bytes \in [Users -> Nat] /\ limit \in [Users -> Nat] /\ Total(bytes) \in Nat
        /\ IsFiniteSet(Users)
    BY <1>1, UsersAssumption, TotalType DEF TypeOK
  <2> DEFINE v == bytes[u] - n
  <2>2. bytes[u] \in Nat /\ v \in Nat /\ bytes' = [bytes EXCEPT ![u] = v]
    BY <1>2, <1>6, <2>1
  <2>3. Total(bytes') = Total(bytes) - n
    <3>1. Total([bytes EXCEPT ![u] = v]) = Total(bytes) - bytes[u] + v
      <4> HIDE DEF v
      <4> QED BY <2>1, <2>2, TotalUpdate
    <3>2. Total(bytes) - bytes[u] + v = Total(bytes) - n
      BY <1>2, <2>1, <2>2
    <3> QED BY <2>2, <3>1, <3>2
  <2> QED BY <1>2, <1>6, <2>1, <2>2, <2>3, MarketAssumption DEF LimitAfter
<1>8. reserved' \in Nat
  <2>1. Total(bytes') \in Nat
    BY <1>7, UsersAssumption, TotalType
  <2> QED BY <1>1, <1>6, <1>7, <2>1 DEF BooksAgree
<1>9. liquid' \in [Holders -> Nat] /\ liquid'[RamAcct] = liquid[RamAcct] - out
  <2> DEFINE first == moved(liquid, RamAcct, u, out)
  <2>1. /\ liquid \in [Holders -> Nat] /\ Covers(liquid, RamAcct, out)
        /\ u \in Holders /\ RamAcct \in Holders /\ FeeAcct \in Holders
        /\ u # RamAcct /\ u # FeeAcct /\ RamAcct # FeeAcct
    BY <1>1, UsersAssumption DEF TypeOK, sellram, Holders
  <2>2. fee \in Nat /\ liquid[u] \in Nat /\ liquid[RamAcct] \in Nat
    BY <1>5, <2>1
  <2> HIDE DEF fee, out
  <2>3. /\ first \in [Holders -> Nat] /\ first[u] = liquid[u] + out
        /\ first[RamAcct] = liquid[RamAcct] - out
    BY <1>4, <2>1, MovedAmounts
  <2>4. Covers(first, u, fee)
    BY <1>4, <1>5, <2>2, <2>3 DEF Covers
  <2> HIDE DEF first
  <2>5. /\ moved(first, u, FeeAcct, fee) \in [Holders -> Nat]
        /\ moved(first, u, FeeAcct, fee)[RamAcct] = first[RamAcct]
    BY <2>1, <2>2, <2>3, <2>4, MovedAmounts
  <2> QED BY <1>6, <2>3, <2>5 DEF first
<1> HIDE DEF fee, b, out
<1>10. NeverCheaper'
  <2>1. (max_ram + NewRam) * Quote <= b * quote
    BY <1>3, GrownProduct DEF b
  <2>2. b * quote \in Int /\ (b + n) * (quote - out) \in Int /\ (max_ram + NewRam) * Quote \in Int
    BY <1>2, <1>3, <1>4, MarketAssumption
  <2>3. (max_ram + NewRam) * Quote <= (b + n) * (quote - out)
    BY <1>4, <2>1, <2>2
  <2> QED BY <1>6, <2>3 DEF NeverCheaper
<1>11. TypeOK'
  BY <1>1, <1>2, <1>3, <1>4, <1>6, <1>7, <1>8, <1>9 DEF TypeOK
<1>12. BooksAgree'
  <2>1. base' + reserved' = max_ram'
    BY <1>1, <1>2, <1>3, <1>6 DEF BooksAgree, b
  <2>2. reserved' = Total(bytes')
    BY <1>1, <1>6, <1>7 DEF BooksAgree
  <2>3. liquid'[RamAcct] = ram_stake' /\ quote' = Quote + ram_stake'
    BY <1>1, <1>2, <1>3, <1>4, <1>6, <1>9, MarketAssumption DEF BooksAgree
  <2>4. ASSUME NEW w \in Users \ managed'
        PROVE  limit'[w] = bytes'[w] + Gift \/ (limit'[w] = 0 /\ bytes'[w] = 0)
    BY <1>1, <1>6, <1>7 DEF BooksAgree
  <2> QED BY <2>1, <2>2, <2>3, <2>4 DEF BooksAgree
<1>13. GrowsByTheBlock'
  BY <1>1, <1>6, UpdateGrows DEF update_ram_supply, TypeOK
<1> QED BY <1>10, <1>11, <1>12, <1>13 DEF Inv

(* setram puts the difference on the market. *)
LEMMA SetRamInv ==
  ASSUME Inv, NEW size \in Nat, setram(size)
  PROVE  Inv'
<1> DEFINE more == size - max_ram
<1>1. TypeOK /\ BooksAgree /\ NeverCheaper /\ GrowsByTheBlock
  BY DEF Inv
<1>2. /\ max_ram \in Nat /\ base \in Nat \ {0} /\ reserved \in Nat /\ granted \in Nat
      /\ now \in Nat /\ last \in Nat /\ rate \in Nat /\ last <= now /\ MaxSlot \in Nat
  BY <1>1, MarketAssumption DEF TypeOK
<1>3. more \in Nat /\ max_ram' = max_ram + more /\ base' = base + more /\ granted' = granted + more
  BY <1>2 DEF setram
<1>4. UNCHANGED <<now, last, rate, reserved, ram_stake, quote, liquid, bytes, limit, managed>>
  BY DEF setram
<1> HIDE DEF more
<1>5. TypeOK'
  BY <1>1, <1>2, <1>3, <1>4 DEF TypeOK
<1>6. BooksAgree'
  BY <1>1, <1>2, <1>3, <1>4 DEF BooksAgree
<1>7. NeverCheaper'
  BY <1>3, <1>4, GrownProduct DEF NeverCheaper
<1>8. GrowsByTheBlock'
  <2> DEFINE t == (now - last) * rate
  <2>1. t \in Nat /\ t = (now' - last') * rate'
    BY <1>2, <1>4
  <2>2. max_ram + t <= granted /\ (granted - (max_ram + t)) % Word = 0
    BY <1>1 DEF GrowsByTheBlock
  <2> HIDE DEF t
  <2>3. granted' - (max_ram' + t) = granted - (max_ram + t)
    BY <1>2, <1>3, <2>1
  <2>4. max_ram' + t <= granted'
    BY <1>2, <1>3, <2>1, <2>2
  <2> QED BY <2>1, <2>2, <2>3, <2>4 DEF GrowsByTheBlock
<1> QED BY <1>5, <1>6, <1>7, <1>8 DEF Inv

(* setramrate brings the supply up to date before the rate changes. *)
LEMMA SetRateInv ==
  ASSUME Inv, NEW r \in Nat, setramrate(r)
  PROVE  Inv'
<1>1. TypeOK /\ BooksAgree /\ NeverCheaper /\ GrowsByTheBlock
  BY DEF Inv
<1>2. NewRam \in Nat /\ max_ram \in Nat /\ base \in Nat \ {0} /\ reserved \in Nat
  BY <1>1, NewRamType DEF TypeOK
<1>3. base' = base + NewRam /\ max_ram' = max_ram + NewRam /\ last' = now /\ rate' = r
  BY DEF setramrate, UpdateFirst, update_ram_supply
<1>4. UNCHANGED <<now, reserved, ram_stake, quote, liquid, bytes, limit, managed, granted>>
  BY DEF setramrate
<1>5. TypeOK'
  BY <1>1, <1>2, <1>3, <1>4 DEF TypeOK
<1>6. BooksAgree'
  BY <1>1, <1>2, <1>3, <1>4 DEF BooksAgree
<1>7. NeverCheaper'
  BY <1>2, <1>3, <1>4, GrownProduct DEF NeverCheaper
<1>8. GrowsByTheBlock'
  BY <1>1, <1>3, <1>4, UpdateGrows DEF update_ram_supply
<1> QED BY <1>5, <1>6, <1>7, <1>8 DEF Inv

(* Limits set by hand or raised by staking leave the market alone. *)
LEMMA SetAcctInv ==
  ASSUME Inv, NEW u \in Users,
         unsetacctram(u) \/ (\E ram \in Limits : setacctram(u, ram)) \/ changebw(u)
  PROVE  Inv'
<1>1. TypeOK /\ BooksAgree /\ NeverCheaper /\ GrowsByTheBlock
  BY DEF Inv
<1>2. UNCHANGED <<now, last, rate, max_ram, reserved, ram_stake, base, quote, liquid, bytes, granted>>
  BY DEF unsetacctram, setacctram, changebw, supply, market
<1>3. NeverCheaper' /\ GrowsByTheBlock'
  BY <1>1, <1>2 DEF NeverCheaper, GrowsByTheBlock
<1>4. CASE unsetacctram(u)
  <2>1. bytes[u] \in Nat /\ Gift \in Nat
    BY <1>1, MarketAssumption DEF TypeOK
  <2>2. limit' = [limit EXCEPT ![u] = Gift + bytes[u]] /\ managed' = managed \ {u}
    BY <1>4 DEF unsetacctram, QuotaRestored
  <2>3. TypeOK'
    BY <1>1, <1>2, <2>1, <2>2 DEF TypeOK
  <2>4. BooksAgree'
    BY <1>1, <1>2, <2>1, <2>2 DEF BooksAgree, TypeOK
  <2> QED BY <1>3, <2>3, <2>4 DEF Inv
<1>5. CASE \E ram \in Limits : setacctram(u, ram)
  <2>1. PICK ram \in Limits : setacctram(u, ram)
    BY <1>5
  <2>2. limit' = [limit EXCEPT ![u] = ram] /\ managed' = managed \cup {u} /\ ram \in Nat
    BY <2>1, MarketAssumption DEF setacctram
  <2>3. TypeOK'
    BY <1>1, <1>2, <2>2 DEF TypeOK
  <2>4. BooksAgree'
    BY <1>1, <1>2, <2>2 DEF BooksAgree, TypeOK
  <2> QED BY <1>3, <2>3, <2>4 DEF Inv
<1>6. CASE changebw(u)
  <2>1. bytes[u] \in Nat /\ Gift \in Nat /\ limit[u] \in Nat /\ managed' = managed
    BY <1>1, <1>6, MarketAssumption DEF TypeOK, changebw
  <2>2. PICK x \in Nat : /\ limit' = [limit EXCEPT ![u] = x]
                         /\ u \notin managed => x = bytes[u] + Gift
    <3>1. CASE u \in managed
      BY <1>6, <2>1, <3>1 DEF changebw
    <3>2. CASE u \notin managed
      <4>1. limit[u] = bytes[u] + Gift \/ (limit[u] = 0 /\ bytes[u] = 0)
        BY <1>1, <3>2 DEF BooksAgree
      <4>2. Larger(QuotaRestored(u), limit[u]) = bytes[u] + Gift
        BY <2>1, <4>1 DEF Larger, QuotaRestored
      <4>3. limit' = [limit EXCEPT ![u] = Larger(QuotaRestored(u), limit[u])]
        BY <1>6, <3>2 DEF changebw
      <4>4. limit' = [limit EXCEPT ![u] = bytes[u] + Gift] /\ bytes[u] + Gift \in Nat
        BY <2>1, <4>2, <4>3
      <4> QED BY <4>4
    <3> QED BY <3>1, <3>2
  <2>3. TypeOK'
    BY <1>1, <1>2, <2>1, <2>2 DEF TypeOK
  <2>4. BooksAgree'
    BY <1>1, <1>2, <2>1, <2>2 DEF BooksAgree, TypeOK
  <2> QED BY <1>3, <2>3, <2>4 DEF Inv
<1> QED BY <1>4, <1>5, <1>6

(* A block makes its RAM due. *)
LEMMA TickInv ==
  ASSUME Inv, Tick
  PROVE  Inv'
<1>1. TypeOK /\ BooksAgree /\ NeverCheaper /\ GrowsByTheBlock
  BY DEF Inv
<1>2. /\ max_ram \in Nat /\ granted \in Nat /\ MaxSlot \in Nat
      /\ now \in Nat /\ last \in Nat /\ rate \in Nat /\ last <= now
  BY <1>1, MarketAssumption DEF TypeOK
<1>3. now < MaxSlot /\ now' = now + 1 /\ granted' = granted + rate
  BY DEF Tick
<1>4. UNCHANGED <<last, rate, max_ram, reserved, ram_stake, base, quote, liquid, bytes, limit, managed>>
  BY DEF Tick, supply, market
<1>5. TypeOK'
  BY <1>1, <1>2, <1>3, <1>4 DEF TypeOK
<1>6. BooksAgree' /\ NeverCheaper'
  BY <1>1, <1>4 DEF BooksAgree, NeverCheaper
<1>7. GrowsByTheBlock'
  <2> DEFINE t == (now - last) * rate
  <2>1. t \in Nat /\ (now' - last') * rate' = t + rate
    BY <1>2, <1>3, <1>4
  <2>2. max_ram + t <= granted /\ (granted - (max_ram + t)) % Word = 0
    BY <1>1 DEF GrowsByTheBlock
  <2> HIDE DEF t
  <2>3. /\ granted' - (max_ram' + (t + rate)) = granted - (max_ram + t)
        /\ max_ram' + (t + rate) <= granted'
    BY <1>2, <1>3, <1>4, <2>1, <2>2
  <2> QED BY <2>1, <2>2, <2>3 DEF GrowsByTheBlock
<1> QED BY <1>5, <1>6, <1>7 DEF Inv

-----------------------------------------------------------------------------
(* Every handler of the RAM market keeps the invariant. *)
LEMMA NextInv == Inv /\ [Next]_vars => Inv'
<1> SUFFICES ASSUME Inv, [Next]_vars PROVE Inv'
  OBVIOUS
<1> USE MarketAssumption
<1>1. ASSUME NEW payer \in Users, NEW receiver \in Users, NEW q \in Payments,
             buyram(payer, receiver, q)
      PROVE  Inv'
  BY <1>1, BuyInv
<1>2. ASSUME NEW payer \in Users, NEW receiver \in Users, NEW n \in Bytes,
             buyrambytes(payer, receiver, n)
      PROVE  Inv'
  BY <1>2, BuyBytesInv
<1>3. ASSUME NEW u \in Users, NEW n \in Bytes, sellram(u, n)
      PROVE  Inv'
  BY <1>3, SellInv
<1>4. ASSUME NEW size \in Sizes, setram(size)
      PROVE  Inv'
  BY <1>4, SetRamInv
<1>5. ASSUME NEW r \in Rates, setramrate(r)
      PROVE  Inv'
  BY <1>5, SetRateInv
<1>6. CASE UNCHANGED vars
  BY <1>6 DEF vars, Inv, TypeOK, BooksAgree, NeverCheaper, GrowsByTheBlock
<1> QED BY <1>1, <1>2, <1>3, <1>4, <1>5, <1>6, SetAcctInv, TickInv DEF Next

(* What the reserves allow to be paid out: with the product at least as large
   as (b + n) * Q, n bytes sell for no more than the growth of the reserve. *)
LEMMA PayableFromGrowth ==
  ASSUME NEW b \in Nat \ {0}, NEW t \in Nat \ {0}, NEW Q \in Nat, NEW n \in Nat,
         (b + n) * Q <= b * t
  PROVE  get_bancor_output(b, t, n) <= t - Q
<1> DEFINE s == b + n
           p == n * t
           out == p \div s
<1>1. s \in Nat \ {0} /\ p \in Nat
  OBVIOUS
<1>2. out \in Nat /\ out * s <= p
  <2> HIDE DEF s, p
  <2> QED BY <1>1, DivBounds, DivNat
<1>3. out <= t - Q
  <2> SUFFICES ASSUME out >= t - Q + 1 PROVE FALSE
    BY <1>2
  <2>1. s * Q <= b * t /\ s * t = b * t + p
    OBVIOUS
  <2> HIDE DEF out, s, p
  <2>2. (t - Q + 1) * s <= out * s
    BY <1>1, <1>2
  <2>3. (t - Q + 1) * s = s * t - s * Q + s
    BY <1>1
  <2>4. s * t \in Nat /\ s * Q \in Nat /\ b * t \in Nat /\ out * s \in Nat
    BY <1>1, <1>2
  <2> QED BY <1>1, <1>2, <2>1, <2>2, <2>3, <2>4
<1> QED BY <1>3 DEF get_bancor_output

(* The invariant is one of the specification. *)
THEOREM MarketInvariant == Spec => []Inv
BY InitInv, NextInv, PTL DEF Spec

(* The books of the RAM market agree at every moment: RAM for sale and RAM in
   the rows add up to max_ram_size, eosio.ram holds the recorded stake, and the
   limits the chain enforces are what was bought and the gift. *)
THEOREM BooksKept == Spec => []BooksAgree
<1>1. Inv => BooksAgree
  BY DEF Inv
<1> QED BY <1>1, MarketInvariant, PTL

(* eosio.ram can pay everybody who holds RAM, all at once. *)
THEOREM SellersPaid == Spec => []SellersCanBePaid
<1>1. Inv => SellersCanBePaid
  <2> SUFFICES ASSUME Inv PROVE SellersCanBePaid
    OBVIOUS
  <2>1. /\ base \in Nat \ {0} /\ quote \in Nat \ {0} /\ reserved \in Nat /\ Quote \in Nat
        /\ ram_stake \in Nat /\ quote = Quote + ram_stake /\ base + reserved = max_ram
        /\ max_ram * Quote <= base * quote
    BY MarketAssumption DEF Inv, TypeOK, BooksAgree, NeverCheaper
  <2>2. get_bancor_output(base, quote, reserved) <= quote - Quote
    BY <2>1, PayableFromGrowth
  <2> QED BY <2>1, <2>2 DEF SellersCanBePaid
<1> QED BY <1>1, MarketInvariant, PTL

(* The two checks sellram makes before it pays, that the stake in RAM covers the
   tokens ("error, attempt to unstake more tokens than previously staked") and
   that eosio.ram's balance does, hold for every sale of RAM an account owns,
   also when the sale itself adds the RAM of the blocks since the last one. *)
SaleIsPaid ==
  \A u \in Users, n \in Nat :
    HasQuota(u, n) => TokensFor(n) <= ram_stake /\ Covers(liquid, RamAcct, TokensFor(n))

(* No sale of owned RAM fails for want of tokens. *)
THEOREM SalesNeverFail == Spec => []SaleIsPaid
<1>1. Inv => SaleIsPaid
  <2> SUFFICES ASSUME Inv, NEW u \in Users, NEW n \in Nat, HasQuota(u, n)
               PROVE  TokensFor(n) <= ram_stake /\ Covers(liquid, RamAcct, TokensFor(n))
    BY DEF SaleIsPaid
  <2> DEFINE b == base + NewRam
  <2>1. /\ base \in Nat \ {0} /\ quote \in Nat \ {0} /\ reserved \in Nat /\ Quote \in Nat
        /\ ram_stake \in Nat /\ quote = Quote + ram_stake /\ base + reserved = max_ram
        /\ NewRam \in Nat /\ b \in Nat \ {0} /\ liquid[RamAcct] = ram_stake
    BY MarketAssumption, NewRamType DEF Inv, TypeOK, BooksAgree
  <2>2. n <= reserved
    <3>1. bytes \in [Users -> Nat] /\ IsFiniteSet(Users) /\ reserved = Total(bytes)
      BY UsersAssumption DEF Inv, TypeOK, BooksAgree
    <3>2. bytes[u] <= Total(bytes)
      BY <3>1, TotalBound
    <3>3. n <= bytes[u] /\ bytes[u] \in Nat
      BY <3>1 DEF HasQuota
    <3> QED BY <2>1, <3>1, <3>2, <3>3
  <2>3. (max_ram + NewRam) * Quote <= b * quote
    BY <2>1, GrownProduct
  <2>4. (b + n) * Quote <= (max_ram + NewRam) * Quote
    <3>1. b + n <= max_ram + NewRam /\ max_ram \in Nat
      BY <2>1, <2>2
    <3> HIDE DEF b
    <3> QED BY <2>1, <3>1
  <2>5. (b + n) * Quote <= b * quote
    <3> DEFINE x == (b + n) * Quote
               y == (max_ram + NewRam) * Quote
               z == b * quote
    <3>1. x \in Int /\ y \in Int /\ z \in Int
      BY <2>1
    <3>2. x <= y /\ y <= z
      BY <2>3, <2>4
    <3> HIDE DEF x, y, z
    <3>3. x <= z
      BY <3>1, <3>2
    <3> QED BY <3>3 DEF x, z
  <2> HIDE DEF b
  <2>6. get_bancor_output(b, quote, n) <= quote - Quote
    BY <2>1, <2>5, PayableFromGrowth
  <2>7. TokensFor(n) = get_bancor_output(b, quote, n)
    BY DEF TokensFor, b
  <2> QED BY <2>1, <2>6, <2>7 DEF Covers
<1> QED BY <1>1, MarketInvariant, PTL

(* The supply grows by every block at the rate of that block, up to whole words. *)
THEOREM SupplyGrowsByTheBlock == Spec => []GrowsByTheBlock
<1>1. Inv => GrowsByTheBlock
  BY DEF Inv
<1> QED BY <1>1, MarketInvariant, PTL
=============================================================================
