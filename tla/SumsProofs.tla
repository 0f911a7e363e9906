----------------------------- MODULE SumsProofs -----------------------------
(***************************************************************************)
(* What the proofs share.  Induction over the subsets of a finite set and  *)
(* over the natural numbers, for a set of which membership is to be shown, *)
(* as the provers cannot instantiate a theorem that has an operator as a   *)
(* parameter.  Of Total: it is a natural number, an update of one entry    *)
(* moves it by the difference, and no entry exceeds it.  Of a transfer:    *)
(* what it does to the two balances.  Of integer division: what it cuts    *)
(* off is less than the divisor, and a multiple of the divisor leaves the  *)
(* remainder alone; and how the prices that quotients make compare.  And   *)
(* of SumFunctionOnSet of the community modules: the recursion it is       *)
(* defined by yields a sum of integers that does not depend on the order,  *)
(* with the laws that Total has.                                           *)
(***************************************************************************)
EXTENDS Sums, TokenLedger, Functions, FiniteSetTheorems, TLAPS

(* A set of subsets of a finite set has a smallest element. *)
LEMMA SmallestSubset ==
  ASSUME NEW S, IsFiniteSet(S), NEW Bad \in SUBSET (SUBSET S), Bad # {}
  PROVE  \E x \in Bad : \A y \in Bad : ~(y \subseteq x /\ y # x)
<1> DEFINE R == StrictSubsetOrdering(S)
<1>1. IsWellFoundedOn(R, SUBSET S)
  BY FS_StrictSubsetOrderingWellFounded, FS_FiniteSubsetsOfFinite
<1>2. PICK x \in Bad : \A y \in Bad : ~(<<y, x>> \in R)
  <2> HIDE DEF R
  <2> QED BY <1>1, WFMin
<1> QED BY <1>2 DEF StrictSubsetOrdering

(* Induction over the subsets of a finite set, for a set T of subsets. *)
LEMMA SubsetInduction ==
  ASSUME NEW S, IsFiniteSet(S), NEW T, {} \in T,
         \A s \in SUBSET S : \A a \in S \ s : s \in T => s \cup {a} \in T
  PROVE  S \in T
<1> SUFFICES ASSUME S \notin T PROVE FALSE
  OBVIOUS
<1> DEFINE Bad == (SUBSET S) \ T
<1>1. PICK x \in Bad : \A y \in Bad : ~(y \subseteq x /\ y # x)
  <2>1. Bad \in SUBSET (SUBSET S) /\ Bad # {}
    OBVIOUS
  <2> HIDE DEF Bad
  <2> QED BY <2>1, SmallestSubset
<1>2. PICK a : a \in x
  BY <1>1
<1> DEFINE y == x \ {a}
<1>3. y \in SUBSET S /\ a \in S \ y /\ y \cup {a} = x /\ y # x /\ y \subseteq x
  BY <1>2
<1>4. y \notin Bad
  BY <1>1, <1>3
<1> QED BY <1>3, <1>4

(* Induction over the natural numbers, for a set T of numbers. *)
LEMMA NumberInduction ==
  ASSUME NEW T, 0 \in T, \A n \in Nat : n \in T => n + 1 \in T
  PROVE  Nat \subseteq T
<1> SUFFICES ASSUME ~(Nat \subseteq T) PROVE FALSE
  OBVIOUS
<1> DEFINE Bad == Nat \ T
           R == OpToRel(<, Nat)
<1>1. IsWellFoundedOn(R, Nat)
  BY NatLessThanWellFounded
<1>2. Bad \subseteq Nat /\ Bad # {}
  OBVIOUS
<1>3. PICK x \in Bad : \A y \in Bad : ~(<<y, x>> \in R)
  <2> HIDE DEF Bad, R
  <2> QED BY <1>1, <1>2, WFMin
<1>4. x \in Nat /\ x # 0
  BY <1>3
<1> DEFINE y == x - 1
<1>5. y \in Nat /\ y + 1 = x /\ y < x
  BY <1>4
<1>6. <<y, x>> \in R
  BY <1>4, <1>5 DEF OpToRel
<1>7. y \notin Bad
  BY <1>3, <1>6
<1> HIDE DEF y
<1> QED BY <1>3, <1>5, <1>7

-----------------------------------------------------------------------------

(* A finite family of finite sets of units is finite. *)
LEMMA UnitsOverFinite ==
  ASSUME NEW D, IsFiniteSet(D), NEW f \in [D -> Nat], NEW S \in SUBSET D
  PROVE  IsFiniteSet(UNION {UnitsOf(f, b) : b \in S})
<1> DEFINE T == {UnitsOf(f, b) : b \in S}
           g == [b \in S |-> UnitsOf(f, b)]
<1>1. IsFiniteSet(S)
  BY FS_Subset
<1>2. g \in Surjection(S, T)
  BY DEF Surjection
<1>3. IsFiniteSet(T)
  <2> HIDE DEF T, g
  <2> QED BY <1>1, <1>2, FS_Surjection
<1>4. \A b \in S : IsFiniteSet(UnitsOf(f, b))
  <2> TAKE b \in S
  <2>1. f[b] \in Int
    OBVIOUS
  <2>2. IsFiniteSet(1..f[b])
    BY <2>1, FS_Interval
  <2>3. IsFiniteSet({b})
    BY FS_Singleton
  <2> QED BY <2>2, <2>3, FS_Product DEF UnitsOf
<1>5. \A X \in T : IsFiniteSet(X)
  BY <1>4
<1> QED
  <2> HIDE DEF T
  <2>1. IsFiniteSet(UNION T)
    BY <1>3, <1>5, FS_UNION
  <2> QED BY <2>1 DEF T

(* The units of one entry are as many as its value. *)
LEMMA UnitsOfCount ==
  ASSUME NEW f, NEW a, f[a] \in Nat
  PROVE  IsFiniteSet(UnitsOf(f, a)) /\ Cardinality(UnitsOf(f, a)) = f[a]
<1>1. f[a] \in Int
  OBVIOUS
<1>2. IsFiniteSet(1..f[a]) /\ Cardinality(1..f[a]) = f[a]
  BY <1>1, FS_Interval
<1>3. IsFiniteSet({a}) /\ Cardinality({a}) = 1
  BY FS_Singleton
<1>4. IsFiniteSet({a} \X (1..f[a])) /\ Cardinality({a} \X (1..f[a])) = 1 * f[a]
  BY <1>2, <1>3, FS_Product
<1> QED BY <1>4 DEF UnitsOf

(* The sum splits into one entry and the rest. *)
LEMMA TotalSplit ==
  ASSUME NEW D, IsFiniteSet(D), NEW f \in [D -> Nat], NEW a \in D
  PROVE  LET Rest == UNION {UnitsOf(f, b) : b \in D \ {a}}
         IN  /\ IsFiniteSet(Rest)
             /\ Cardinality(Rest) \in Nat
             /\ Total(f) = Cardinality(Rest) + f[a]
<1> DEFINE Rest == UNION {UnitsOf(f, b) : b \in D \ {a}}
<1>1. IsFiniteSet(Rest)
  BY UnitsOverFinite
<1>2. IsFiniteSet(UnitsOf(f, a)) /\ Cardinality(UnitsOf(f, a)) = f[a]
  BY UnitsOfCount
<1>3. Units(f) = Rest \cup UnitsOf(f, a)
  BY DEF Units
<1>4. Rest \cap UnitsOf(f, a) = {}
  BY DEF UnitsOf
<1>5. Cardinality(Rest) \in Nat
  BY <1>1, FS_CardinalityType
<1>6. Cardinality(Units(f)) = Cardinality(Rest) + f[a]
  <2> HIDE DEF Rest
  <2>1. Cardinality(Rest \cup UnitsOf(f, a)) = Cardinality(Rest) + Cardinality(UnitsOf(f, a)) - Cardinality({})
    BY <1>1, <1>2, <1>4, FS_Union
  <2> QED BY <2>1, <1>2, <1>3, <1>5, FS_EmptySet
<1> QED BY <1>1, <1>5, <1>6 DEF Total

(* The sum of natural numbers is a natural number. *)
LEMMA TotalType ==
  ASSUME NEW D, IsFiniteSet(D), NEW f \in [D -> Nat]
  PROVE  Total(f) \in Nat
<1>1. Units(f) = UNION {UnitsOf(f, b) : b \in D}
  BY DEF Units
<1>2. IsFiniteSet(Units(f))
  BY <1>1, UnitsOverFinite
<1> QED BY <1>2, FS_CardinalityType DEF Total

(* Changing one entry changes the sum by the difference. *)
LEMMA TotalUpdate ==
  ASSUME NEW D, IsFiniteSet(D), NEW f \in [D -> Nat], NEW a \in D, NEW v \in Nat
  PROVE  Total([f EXCEPT ![a] = v]) = Total(f) - f[a] + v
<1> DEFINE g == [f EXCEPT ![a] = v]
           RestF == UNION {UnitsOf(f, b) : b \in D \ {a}}
           RestG == UNION {UnitsOf(g, b) : b \in D \ {a}}
<1>1. g \in [D -> Nat] /\ g[a] = v
  OBVIOUS
<1>2. \A b \in D \ {a} : UnitsOf(g, b) = UnitsOf(f, b)
  BY DEF UnitsOf
<1>3. RestG = RestF
  BY <1>2
<1>4. Cardinality(RestF) \in Nat /\ Total(f) = Cardinality(RestF) + f[a]
  BY TotalSplit
<1>5. Total(g) = Cardinality(RestG) + g[a]
  <2> HIDE DEF g
  <2> QED BY <1>1, TotalSplit
<1> HIDE DEF g, RestF, RestG
<1>6. f[a] \in Nat
  OBVIOUS
<1>7. Total(g) = Total(f) - f[a] + v
  BY <1>1, <1>3, <1>4, <1>5, <1>6
<1> QED BY <1>7 DEF g

(* Two functions that differ in one entry at most differ in their sums by as much. *)
LEMMA TotalDiffer ==
  ASSUME NEW D, IsFiniteSet(D), NEW f \in [D -> Nat], NEW g \in [D -> Nat], NEW a \in D,
         \A b \in D \ {a} : g[b] = f[b]
  PROVE  Total(g) = Total(f) - f[a] + g[a]
<1> DEFINE v == g[a]
<1>1. v \in Nat
  OBVIOUS
<1>2. g = [f EXCEPT ![a] = v]
  OBVIOUS
<1> HIDE DEF v
<1>3. Total([f EXCEPT ![a] = v]) = Total(f) - f[a] + v
  BY <1>1, TotalUpdate
<1> QED BY <1>2, <1>3 DEF v

(* A sum of which one entry changes, if it is among those *)
LEMMA TotalMoves ==
  ASSUME NEW D, IsFiniteSet(D), NEW f \in [D -> Nat], NEW g \in [D -> Nat], NEW x \in Int, NEW i,
         i \in D => g[i] = f[i] + x, \A j \in D \ {i} : g[j] = f[j]
  PROVE  Total(f) \in Nat /\ Total(g) = Total(f) + IF i \in D THEN x ELSE 0
<1>0. Total(f) \in Nat
  BY TotalType
<1>1. CASE i \notin D
  <2>1. g = f
    BY <1>1
  <2> QED BY <1>0, <1>1, <2>1
<1>2. CASE i \in D
  <2>1. Total(g) = Total(f) - f[i] + g[i]
    BY <1>2, TotalDiffer
  <2>2. f[i] \in Nat /\ g[i] = f[i] + x
    BY <1>2
  <2> QED BY <1>0, <1>2, <2>1, <2>2
<1> QED BY <1>1, <1>2

(* No entry exceeds the sum. *)
LEMMA TotalBound ==
  ASSUME NEW D, IsFiniteSet(D), NEW f \in [D -> Nat], NEW a \in D
  PROVE  f[a] <= Total(f)
<1> DEFINE Rest == UNION {UnitsOf(f, b) : b \in D \ {a}}
<1>1. f[a] \in Nat
  OBVIOUS
<1>2. Cardinality(Rest) \in Nat /\ Total(f) = Cardinality(Rest) + f[a]
  BY TotalSplit
<1> HIDE DEF Rest
<1> QED BY <1>1, <1>2

(* The sum of zeros is zero. *)
LEMMA TotalZero ==
  ASSUME NEW D
  PROVE  Total([b \in D |-> 0]) = 0
<1> DEFINE z == [b \in D |-> 0]
<1>1. 1..0 = {}
  OBVIOUS
<1>2. \A b \in D : z[b] = 0
  OBVIOUS
<1>3. \A b \in D : UnitsOf(z, b) = {}
  BY <1>1, <1>2 DEF UnitsOf
<1>4. Units(z) = {}
  BY <1>3 DEF Units
<1> QED BY <1>4, FS_EmptySet DEF Total
-----------------------------------------------------------------------------
(* A transfer takes from one account what it gives to the other. *)
LEMMA MovedAmounts ==
  ASSUME NEW D, NEW bal \in [D -> Nat], NEW from \in D, NEW to \in D,
         from # to, NEW value \in Nat, Covers(bal, from, value)
  PROVE  /\ moved(bal, from, to, value) \in [D -> Nat]
         /\ moved(bal, from, to, value)[from] = bal[from] - value
         /\ moved(bal, from, to, value)[to] = bal[to] + value
         /\ \A h \in D \ {from, to} : moved(bal, from, to, value)[h] = bal[h]
BY DEF moved, sub_balance, add_balance, Covers

-----------------------------------------------------------------------------
(* Division rounds down. *)
LEMMA DivBounds ==
  ASSUME NEW a \in Int, NEW d \in Nat \ {0}
  PROVE  a \div d \in Int /\ (a \div d) * d <= a /\ a < (a \div d) * d + d
OBVIOUS

(* The quotient of natural numbers is one. *)
LEMMA DivNat ==
  ASSUME NEW a \in Nat, NEW d \in Nat \ {0}
  PROVE  a \div d \in Nat
OBVIOUS

(* The remainder is what division leaves. *)
LEMMA ModDiv ==
  ASSUME NEW a \in Int, NEW d \in Nat \ {0}
  PROVE  a % d \in 0 .. d - 1 /\ a % d = a - d * (a \div d)
OBVIOUS

(* A multiple of d that is added to a multiple of d gives one. *)
LEMMA ModAdd ==
  ASSUME NEW a \in Int, NEW k \in Int, NEW d \in Nat \ {0}, a % d = 0
  PROVE  (a + d * k) % d = 0
<1> DEFINE j == a \div d
<1>1. j \in Int /\ a = d * j
  BY ModDiv, DivBounds
<1> DEFINE x == j + k
<1>2. x \in Int /\ a + d * k = x * d
  <2> HIDE DEF j
  <2> QED BY <1>1
<1>3. (x * d) % d = 0
  <2> HIDE DEF x
  <2> QED BY <1>2
<1> QED BY <1>2, <1>3

(* Multiplication keeps the order. *)
LEMMA Times_ ==
  ASSUME NEW a \in Int, NEW b \in Int, NEW c \in Nat
  PROVE  /\ a * c \in Int /\ b * c \in Int
         /\ a <= b => a * c <= b * c
         /\ a * c < b * c => a < b
         /\ c > 0 /\ a < b => a * c < b * c
         /\ c > 0 /\ a * c <= b * c => a <= b
<1>1. a * c \in Int /\ b * c \in Int
  OBVIOUS
<1>2. ASSUME a <= b PROVE a * c <= b * c
  <2>1. (b - a) * c >= 0 /\ (b - a) * c = b * c - a * c
    BY <1>2
  <2> QED BY <2>1, <1>1
<1>3. ASSUME c > 0, a < b PROVE a * c < b * c
  <2>1. (b - a) * c > 0 /\ (b - a) * c = b * c - a * c
    BY <1>3
  <2> QED BY <2>1, <1>1
<1>4. ASSUME b <= a PROVE b * c <= a * c
  <2>1. (a - b) * c >= 0 /\ (a - b) * c = a * c - b * c
    BY <1>4
  <2> QED BY <2>1, <1>1
<1>5. ASSUME c > 0, b < a PROVE b * c < a * c
  <2>1. (a - b) * c > 0 /\ (a - b) * c = a * c - b * c
    BY <1>5
  <2> QED BY <2>1, <1>1
<1> QED BY <1>1, <1>2, <1>3, <1>4, <1>5

(* The part of b that a is of d, rounded down *)
LEMMA PartOf ==
  ASSUME NEW a \in Nat, NEW b \in Nat, NEW d \in Nat \ {0}, a <= d
  PROVE  LET q == (a * b) \div d
         IN  /\ q \in Nat /\ q <= b /\ q * d <= a * b
             /\ a = d => q = b
             /\ a < d /\ b > 0 => q < b
<1> DEFINE q == (a * b) \div d
<1>1. a * b \in Nat /\ d * b \in Nat /\ d * b = b * d
  OBVIOUS
<1>2. q \in Nat /\ q * d <= a * b /\ a * b < q * d + d
  BY <1>1, DivBounds, DivNat
<1> HIDE DEF q
<1>3. a * b <= b * d
  BY <1>1, Times_
<1>4. q <= b
  <2>1. q * d <= b * d
    BY <1>1, <1>2, <1>3
  <2> QED BY <1>2, <2>1, Times_
<1>5. ASSUME a = d PROVE q = b
  <2>1. b * d < (q + 1) * d
    BY <1>1, <1>2, <1>5
  <2>2. b < q + 1
    BY <1>2, <2>1, Times_
  <2> QED BY <1>2, <1>4, <2>2
<1>6. ASSUME a < d, b > 0 PROVE q < b
  <2>1. a * b < d * b
    BY <1>6, Times_
  <2>2. q * d < b * d
    BY <1>1, <1>2, <2>1
  <2> QED BY <1>2, <2>2, Times_
<1> QED BY <1>2, <1>4, <1>5, <1>6 DEF q

(* A purchase: the REX grows at most as the tokens do, and does not shrink. *)
LEMMA Grown ==
  ASSUME NEW L \in Nat \ {0}, NEW T \in Nat, NEW p \in Nat
  PROVE  LET q == ((L + p) * T) \div L
         IN  /\ q \in Nat /\ T <= q /\ L * q <= (L + p) * T
             /\ L <= T /\ p > 0 => T < q
<1> DEFINE q == ((L + p) * T) \div L
<1>1. (L + p) * T \in Nat /\ (L + p) * T = L * T + p * T /\ L * T \in Nat /\ p * T \in Nat /\ L * T = T * L
  OBVIOUS
<1>2. q \in Nat /\ q * L <= (L + p) * T /\ (L + p) * T < q * L + L
  BY <1>1, DivBounds, DivNat
<1> HIDE DEF q
<1>3. T <= q
  <2>1. T * L < (q + 1) * L
    BY <1>1, <1>2
  <2>2. T < q + 1
    BY <1>2, <2>1, Times_
  <2> QED BY <1>2, <2>2
<1>4. L * q <= (L + p) * T
  BY <1>2
<1>5. ASSUME L <= T, p > 0 PROVE T < q
  <2>1. 1 * T <= p * T
    BY <1>5, Times_
  <2>2. (T + 1) * L < (q + 1) * L
    BY <1>1, <1>2, <1>5, <2>1
  <2>3. T + 1 < q + 1
    BY <1>2, <2>2, Times_
  <2> QED BY <1>2, <2>3
<1> QED BY <1>2, <1>3, <1>4, <1>5 DEF q

(* The price of one is at most that of the other: L tokens for T REX *)
Cheaper(L1, T1, L2, T2) == L1 * T2 <= L2 * T1

(* Prices compare transitively as long as there is REX in between. *)
LEMMA CheaperTrans ==
  ASSUME NEW L1 \in Nat, NEW T1 \in Nat, NEW L2 \in Nat, NEW T2 \in Nat \ {0}, NEW L3 \in Nat, NEW T3 \in Nat,
         Cheaper(L1, T1, L2, T2), Cheaper(L2, T2, L3, T3)
  PROVE  Cheaper(L1, T1, L3, T3)
<1>1. L1 * T2 <= L2 * T1 /\ L2 * T3 <= L3 * T2
  BY DEF Cheaper
<1>2. L1 * T2 \in Int /\ L2 * T1 \in Int /\ L2 * T3 \in Int /\ L3 * T2 \in Int /\ L1 * T3 \in Int /\ L3 * T1 \in Int
  OBVIOUS
<1>3. (L1 * T2) * T3 <= (L2 * T1) * T3
  BY <1>1, <1>2, Times_
<1>4. (L2 * T3) * T1 <= (L3 * T2) * T1
  BY <1>1, <1>2, Times_
<1>5. (L2 * T1) * T3 = (L2 * T3) * T1 /\ (L1 * T2) * T3 = (L1 * T3) * T2 /\ (L3 * T2) * T1 = (L3 * T1) * T2
  OBVIOUS
<1>6. (L1 * T3) * T2 <= (L3 * T1) * T2
  <2>1. (L1 * T3) * T2 \in Int /\ (L2 * T3) * T1 \in Int /\ (L3 * T1) * T2 \in Int
    BY <1>2
  <2> QED BY <1>3, <1>4, <1>5, <2>1
<1> QED BY <1>2, <1>6, Times_ DEF Cheaper

-----------------------------------------------------------------------------
(* A sum of integers as the difference of two sums of natural numbers *)
PartAbove(f, S) == [x \in S |-> IF f[x] > 0 THEN f[x] ELSE 0]
PartBelow(f, S) == [x \in S |-> IF f[x] < 0 THEN -f[x] ELSE 0]
Net(f, S) == Total(PartAbove(f, S)) - Total(PartBelow(f, S))

(* One entry less. *)
LEMMA TotalRemove ==
  ASSUME NEW D, IsFiniteSet(D), NEW f \in [D -> Nat], NEW a \in D
  PROVE  Total(f) = f[a] + Total([b \in D \ {a} |-> f[b]])
<1> DEFINE Rest == UNION {UnitsOf(f, b) : b \in D \ {a}}
           g == [b \in D \ {a} |-> f[b]]
<1>1. Cardinality(Rest) \in Nat /\ Total(f) = Cardinality(Rest) + f[a] /\ f[a] \in Nat
  BY TotalSplit
<1>2. \A b \in D \ {a} : UnitsOf(g, b) = UnitsOf(f, b)
  BY DEF UnitsOf
<1>3. Units(g) = Rest
  BY <1>2 DEF Units
<1>4. Total(g) = Cardinality(Rest)
  BY <1>3 DEF Total
<1> HIDE DEF Rest, g
<1>5. Total(f) = f[a] + Total(g)
  BY <1>1, <1>4
<1> QED BY <1>5 DEF g

(* Both parts have natural values. *)
LEMMA NetType ==
  ASSUME NEW D, NEW f \in [D -> Int], NEW S \in SUBSET D, IsFiniteSet(S)
  PROVE  /\ PartAbove(f, S) \in [S -> Nat] /\ PartBelow(f, S) \in [S -> Nat]
         /\ Total(PartAbove(f, S)) \in Nat /\ Total(PartBelow(f, S)) \in Nat /\ Net(f, S) \in Int
<1>1. PartAbove(f, S) \in [S -> Nat] /\ PartBelow(f, S) \in [S -> Nat]
  BY DEF PartAbove, PartBelow
<1>2. Total(PartAbove(f, S)) \in Nat /\ Total(PartBelow(f, S)) \in Nat
  BY <1>1, TotalType
<1> QED BY <1>1, <1>2 DEF Net

(* The recurrence of the sum. *)
LEMMA NetRemove ==
  ASSUME NEW D, NEW f \in [D -> Int], NEW S \in SUBSET D, IsFiniteSet(S), NEW a \in S
  PROVE  Net(f, S) = f[a] + Net(f, S \ {a})
<1> DEFINE R == S \ {a}
           p == PartAbove(f, S)
           q == PartAbove(f, R)
           m == PartBelow(f, S)
           n == PartBelow(f, R)
<1>1. R \in SUBSET D /\ IsFiniteSet(R)
  BY FS_Subset
<1>2. p \in [S -> Nat] /\ m \in [S -> Nat] /\ Total(p) \in Nat /\ Total(m) \in Nat
  BY NetType
<1>3. q \in [R -> Nat] /\ n \in [R -> Nat] /\ Total(q) \in Nat /\ Total(n) \in Nat
  <2> HIDE DEF R
  <2> QED BY <1>1, NetType
<1>4. (\A b \in R : q[b] = p[b]) /\ (\A b \in R : n[b] = m[b])
  BY DEF PartAbove, PartBelow
<1>5. p[a] \in Nat /\ m[a] \in Nat /\ f[a] \in Int /\ f[a] = p[a] - m[a]
  BY DEF PartAbove, PartBelow
<1> HIDE DEF p, q, m, n
<1>6. Total(p) = p[a] + Total(q)
  <2>1. q = [b \in S \ {a} |-> p[b]]
    BY <1>3, <1>4
  <2> QED BY <1>2, <2>1, TotalRemove
<1>7. Total(m) = m[a] + Total(n)
  <2>1. n = [b \in S \ {a} |-> m[b]]
    BY <1>3, <1>4
  <2> QED BY <1>2, <2>1, TotalRemove
<1>8. Net(f, S) = Total(p) - Total(m) /\ Net(f, R) = Total(q) - Total(n)
  BY DEF Net, p, q, m, n
<1> HIDE DEF R
<1>9. Net(f, S) = f[a] + Net(f, R)
  BY <1>2, <1>3, <1>5, <1>6, <1>7, <1>8
<1> QED BY <1>9 DEF R

(* Over nothing it is zero. *)
LEMMA NetEmpty ==
  ASSUME NEW f
  PROVE  Net(f, {}) = 0
<1>1. PartAbove(f, {}) = [x \in {} |-> 0] /\ PartBelow(f, {}) = [x \in {} |-> 0]
  BY DEF PartAbove, PartBelow
<1>2. Total(PartAbove(f, {})) = 0 /\ Total(PartBelow(f, {})) = 0
  BY <1>1, TotalZero
<1> QED BY <1>2 DEF Net

(* The recursive function that SumFunctionOnSet is defined by *)
Recurs(g, f, S) ==
  g = [s \in SUBSET S |-> IF s = {} THEN 0
                          ELSE LET x == CHOOSE x \in s : TRUE IN f[x] + g[s \ {x}]]

(* What SumFunctionOnSet is by its definition. *)
LEMMA SumDef ==
  ASSUME NEW f, NEW S
  PROVE  SumFunctionOnSet(f, S) = (CHOOSE g : Recurs(g, f, S))[S]
BY DEF SumFunctionOnSet, FoldFunctionOnSet, MapThenFoldSet, Recurs

(* The difference of the two sums satisfies the recursion, *)
LEMMA RecursNet ==
  ASSUME NEW D, NEW f \in [D -> Int], NEW S \in SUBSET D, IsFiniteSet(S)
  PROVE  Recurs([s \in SUBSET S |-> Net(f, s)], f, S)
<1> DEFINE g == [s \in SUBSET S |-> Net(f, s)]
           h == [s \in SUBSET S |-> IF s = {} THEN 0
                                    ELSE LET x == CHOOSE x \in s : TRUE IN f[x] + g[s \ {x}]]
<1>1. ASSUME NEW s \in SUBSET S
      PROVE  g[s] = h[s]
  <2>1. CASE s = {}
    BY <2>1, NetEmpty
  <2>2. CASE s # {}
    <3> DEFINE x == CHOOSE x \in s : TRUE
    <3>1. x \in s
      BY <2>2
    <3>2. h[s] = f[x] + g[s \ {x}]
      BY <2>2
    <3>3. g[s \ {x}] = Net(f, s \ {x})
      OBVIOUS
    <3>4. s \in SUBSET D /\ IsFiniteSet(s)
      BY FS_Subset
    <3> HIDE DEF x
    <3>5. Net(f, s) = f[x] + Net(f, s \ {x})
      BY <3>1, <3>4, NetRemove
    <3> QED BY <3>2, <3>3, <3>5
  <2> QED BY <2>1, <2>2
<1>2. g = h
  <2>1. g = [s \in SUBSET S |-> g[s]] /\ h = [s \in SUBSET S |-> h[s]]
    OBVIOUS
  <2> HIDE DEF g, h
  <2> QED BY <1>1, <2>1
<1>3. g = [s \in SUBSET S |-> IF s = {} THEN 0
                              ELSE LET x == CHOOSE x \in s : TRUE IN f[x] + g[s \ {x}]]
  <2> HIDE DEF g
  <2> QED BY <1>2
<1>4. Recurs(g, f, S)
  <2> HIDE DEF g
  <2> QED BY <1>3 DEF Recurs
<1> QED BY <1>4

(* and nothing else does. *)
LEMMA RecursUnique ==
  ASSUME NEW f, NEW S, IsFiniteSet(S), NEW g, NEW h, Recurs(g, f, S), Recurs(h, f, S)
  PROVE  g[S] = h[S]
<1> SUFFICES ASSUME g[S] # h[S] PROVE FALSE
  OBVIOUS
<1> DEFINE Bad == {s \in SUBSET S : g[s] # h[s]}
<1>1. PICK s \in Bad : \A y \in Bad : ~(y \subseteq s /\ y # s)
  <2>1. Bad \in SUBSET (SUBSET S) /\ Bad # {}
    OBVIOUS
  <2> HIDE DEF Bad
  <2> QED BY <2>1, SmallestSubset
<1> DEFINE x == CHOOSE x \in s : TRUE
<1>2. /\ g[s] = IF s = {} THEN 0 ELSE f[x] + g[s \ {x}]
      /\ h[s] = IF s = {} THEN 0 ELSE f[x] + h[s \ {x}]
  BY <1>1 DEF Recurs
<1>3. s # {} /\ x \in s
  BY <1>1, <1>2
<1> HIDE DEF x
<1>4. s \ {x} \in SUBSET S /\ s \ {x} \notin Bad
  BY <1>1, <1>3
<1>5. g[s \ {x}] = h[s \ {x}]
  BY <1>4
<1> QED BY <1>1, <1>2, <1>3, <1>5

(* The sum of integers over a finite set, whatever order it is added up in *)
LEMMA SumIsNet ==
  ASSUME NEW D, NEW f \in [D -> Int], NEW S \in SUBSET D, IsFiniteSet(S)
  PROVE  SumFunctionOnSet(f, S) = Net(f, S)
<1> DEFINE g == [s \in SUBSET S |-> Net(f, s)]
           h == CHOOSE h : Recurs(h, f, S)
<1>1. Recurs(g, f, S) /\ g[S] = Net(f, S)
  BY RecursNet
<1> HIDE DEF g
<1>2. Recurs(h, f, S)
  BY <1>1
<1>3. SumFunctionOnSet(f, S) = h[S]
  BY SumDef
<1> HIDE DEF h
<1> QED BY <1>1, <1>2, <1>3, RecursUnique

(* The sum is an integer. *)
LEMMA SumType ==
  ASSUME NEW D, NEW f \in [D -> Int], NEW S \in SUBSET D, IsFiniteSet(S)
  PROVE  SumFunctionOnSet(f, S) \in Int
BY SumIsNet, NetType

(* The sum over nothing is zero. *)
LEMMA SumEmpty ==
  ASSUME NEW D, NEW f \in [D -> Int]
  PROVE  SumFunctionOnSet(f, {}) = 0
BY FS_EmptySet, SumIsNet, NetEmpty

(* One entry and the rest *)
LEMMA SumRemove ==
  ASSUME NEW D, NEW f \in [D -> Int], NEW S \in SUBSET D, IsFiniteSet(S), NEW a \in S
  PROVE  SumFunctionOnSet(f, S) = f[a] + SumFunctionOnSet(f, S \ {a})
<1>1. S \ {a} \in SUBSET D /\ IsFiniteSet(S \ {a})
  BY FS_Subset
<1> DEFINE R == S \ {a}
<1>2. SumFunctionOnSet(f, R) = Net(f, R)
  <2> HIDE DEF R
  <2> QED BY <1>1, SumIsNet DEF R
<1> QED BY <1>2, SumIsNet, NetRemove

(* The sum depends on the entries it adds up. *)
LEMMA SumSame ==
  ASSUME NEW D, NEW f \in [D -> Int], NEW E, NEW g \in [E -> Int], NEW S \in SUBSET D,
         S \subseteq E, IsFiniteSet(S), \A x \in S : f[x] = g[x]
  PROVE  SumFunctionOnSet(f, S) = SumFunctionOnSet(g, S)
<1>1. PartAbove(f, S) = PartAbove(g, S) /\ PartBelow(f, S) = PartBelow(g, S)
  BY DEF PartAbove, PartBelow
<1>2. Net(f, S) = Net(g, S)
  BY <1>1 DEF Net
<1>3. SumFunctionOnSet(g, S) = Net(g, S)
  BY SumIsNet
<1> QED BY <1>2, <1>3, SumIsNet

(* Changing one entry changes the sum by the difference. *)
LEMMA SumDiffer ==
  ASSUME NEW D, NEW f \in [D -> Int], NEW E, NEW g \in [E -> Int], NEW S \in SUBSET D,
         S \subseteq E, IsFiniteSet(S), NEW a \in S, \A x \in S \ {a} : g[x] = f[x]
  PROVE  SumFunctionOnSet(g, S) = SumFunctionOnSet(f, S) - f[a] + g[a]
<1> DEFINE R == S \ {a}
<1>1. R \in SUBSET D /\ R \subseteq E /\ IsFiniteSet(R)
  BY FS_Subset
<1>2. SumFunctionOnSet(f, S) = f[a] + SumFunctionOnSet(f, R)
  BY SumRemove
<1>3. SumFunctionOnSet(g, S) = g[a] + SumFunctionOnSet(g, R)
  <2>1. S \in SUBSET E
    OBVIOUS
  <2> QED BY <2>1, SumRemove
<1>4. \A x \in R : f[x] = g[x]
  OBVIOUS
<1> HIDE DEF R
<1>5. SumFunctionOnSet(f, R) = SumFunctionOnSet(g, R) /\ SumFunctionOnSet(f, R) \in Int
  BY <1>1, <1>4, SumSame, SumType
<1>6. f[a] \in Int /\ g[a] \in Int
  OBVIOUS
<1> QED BY <1>2, <1>3, <1>5, <1>6

(* Sums add up entry by entry. *)
LEMMA SumPlus ==
  ASSUME NEW S, IsFiniteSet(S), NEW f \in [S -> Int], NEW g \in [S -> Int]
  PROVE  SumFunctionOnSet([x \in S |-> f[x] + g[x]], S) = SumFunctionOnSet(f, S) + SumFunctionOnSet(g, S)
<1> DEFINE h == [x \in S |-> f[x] + g[x]]
           Adds(s) == SumFunctionOnSet(h, s) = SumFunctionOnSet(f, s) + SumFunctionOnSet(g, s)
           T == {s \in SUBSET S : Adds(s)}
<1>0. h \in [S -> Int] /\ \A x \in S : h[x] = f[x] + g[x]
  OBVIOUS
<1> HIDE DEF h
<1>1. {} \in T
  BY <1>0, SumEmpty
<1>2. ASSUME NEW s \in SUBSET S, NEW a \in S \ s, s \in T
      PROVE  s \cup {a} \in T
  <2> DEFINE t == s \cup {a}
  <2>1. t \in SUBSET S /\ IsFiniteSet(t) /\ IsFiniteSet(s) /\ a \in t /\ t \ {a} = s
    BY FS_Subset
  <2> HIDE DEF t
  <2>2. SumFunctionOnSet(f, t) = f[a] + SumFunctionOnSet(f, s) /\ SumFunctionOnSet(f, s) \in Int
    BY <2>1, SumRemove, SumType
  <2>3. SumFunctionOnSet(g, t) = g[a] + SumFunctionOnSet(g, s) /\ SumFunctionOnSet(g, s) \in Int
    BY <2>1, SumRemove, SumType
  <2>4. SumFunctionOnSet(h, t) = h[a] + SumFunctionOnSet(h, s)
    BY <1>0, <2>1, SumRemove
  <2>5. f[a] \in Int /\ g[a] \in Int /\ h[a] = f[a] + g[a]
    BY <1>0
  <2>6. Adds(t)
    BY <1>2, <2>2, <2>3, <2>4, <2>5
  <2> QED BY <2>1, <2>6 DEF t
<1>3. S \in T
  <2> HIDE DEF T
  <2> QED BY <1>1, <1>2, SubsetInduction
<1> QED BY <1>3 DEF h

(* The sum of numbers that are not negative is not negative. *)
LEMMA SumNat ==
  ASSUME NEW D, NEW f \in [D -> Int], NEW S \in SUBSET D, IsFiniteSet(S), \A x \in S : f[x] >= 0
  PROVE  SumFunctionOnSet(f, S) \in Nat
<1>1. PartBelow(f, S) = [x \in S |-> 0]
  BY DEF PartBelow
<1>2. Total(PartBelow(f, S)) = 0
  BY <1>1, TotalZero
<1>3. Total(PartAbove(f, S)) \in Nat
  BY NetType
<1>4. Net(f, S) \in Nat
  BY <1>2, <1>3 DEF Net
<1> QED BY <1>4, SumIsNet

(* Zeros do not count. *)
LEMMA SumZeros ==
  ASSUME NEW D, IsFiniteSet(D), NEW f \in [D -> Int], NEW S \in SUBSET D, \A x \in D \ S : f[x] = 0
  PROVE  SumFunctionOnSet(f, D) = SumFunctionOnSet(f, S)
<1> DEFINE R == D \ S
           T == {s \in SUBSET R : SumFunctionOnSet(f, S \cup s) = SumFunctionOnSet(f, S)}
<1>0. IsFiniteSet(R) /\ IsFiniteSet(S) /\ S \cup {} = S /\ S \cup R = D
  BY FS_Subset
<1>1. {} \in T
  BY <1>0
<1>2. ASSUME NEW s \in SUBSET R, NEW a \in R \ s, s \in T
      PROVE  s \cup {a} \in T
  <2> DEFINE t == S \cup (s \cup {a})
  <2>1. t \in SUBSET D /\ IsFiniteSet(t) /\ a \in t /\ t \ {a} = S \cup s /\ f[a] = 0
    BY FS_Subset
  <2> HIDE DEF t
  <2>2. SumFunctionOnSet(f, t) = f[a] + SumFunctionOnSet(f, S \cup s)
    BY <2>1, SumRemove
  <2>3. SumFunctionOnSet(f, S) \in Int
    BY <1>0, SumType
  <2>4. SumFunctionOnSet(f, t) = SumFunctionOnSet(f, S)
    BY <1>2, <2>1, <2>2, <2>3
  <2> QED BY <1>2, <2>4 DEF t
<1>3. R \in T
  <2> HIDE DEF T, R
  <2> QED BY <1>0, <1>1, <1>2, SubsetInduction
<1> QED BY <1>0, <1>3

(* One more member *)
LEMMA SumInsert ==
  ASSUME NEW D, NEW f \in [D -> Int], NEW S \in SUBSET D, IsFiniteSet(S), NEW y \in D, y \notin S
  PROVE  SumFunctionOnSet(f, S \cup {y}) = SumFunctionOnSet(f, S) + f[y]
<1> DEFINE U == S \cup {y}
<1>1. U \in SUBSET D /\ IsFiniteSet(U) /\ y \in U /\ U \ {y} = S
  BY FS_AddElement
<1> HIDE DEF U
<1>2. SumFunctionOnSet(f, U) = f[y] + SumFunctionOnSet(f, U \ {y})
  BY <1>1, SumRemove
<1>3. SumFunctionOnSet(f, S) \in Int /\ f[y] \in Int
  BY SumType
<1>4. SumFunctionOnSet(f, U) = f[y] + SumFunctionOnSet(f, S)
  BY <1>1, <1>2, Zenon
<1> QED BY <1>3, <1>4 DEF U

(* One member less *)
LEMMA SumWithout ==
  ASSUME NEW D, NEW f \in [D -> Int], NEW S \in SUBSET D, IsFiniteSet(S), NEW x \in S
  PROVE  /\ IsFiniteSet(S \ {x})
         /\ SumFunctionOnSet(f, S \ {x}) = SumFunctionOnSet(f, S) - f[x]
<1>1. IsFiniteSet(S \ {x}) /\ S \ {x} \in SUBSET D
  BY FS_RemoveElement
<1>2. SumFunctionOnSet(f, S \ {x}) \in Int /\ f[x] \in Int
  BY <1>1, SumType
<1> QED BY <1>1, <1>2, SumRemove

(* One member replaced by another *)
LEMMA SumSwap ==
  ASSUME NEW D, NEW f \in [D -> Int], NEW S \in SUBSET D, IsFiniteSet(S), NEW x \in S, NEW y \in D,
         y \notin S \ {x}
  PROVE  /\ IsFiniteSet((S \ {x}) \cup {y})
         /\ SumFunctionOnSet(f, (S \ {x}) \cup {y}) = (SumFunctionOnSet(f, S) - f[x]) + f[y]
<1> DEFINE R == S \ {x}
<1>1. IsFiniteSet(R) /\ R \in SUBSET D /\ SumFunctionOnSet(f, R) = SumFunctionOnSet(f, S) - f[x]
  BY SumWithout
<1>2. y \notin R
  OBVIOUS
<1> HIDE DEF R
<1>3. SumFunctionOnSet(f, R \cup {y}) = SumFunctionOnSet(f, R) + f[y] /\ IsFiniteSet(R \cup {y})
  BY <1>1, <1>2, SumInsert, FS_AddElement
<1> QED BY <1>1, <1>3 DEF R

(* A member of a sum of natural numbers is at most the sum. *)
LEMMA SumCovers ==
  ASSUME NEW D, NEW f \in [D -> Int], NEW S \in SUBSET D, IsFiniteSet(S), \A x \in S : f[x] >= 0,
         NEW a \in S
  PROVE  f[a] <= SumFunctionOnSet(f, S)
<1>1. IsFiniteSet(S \ {a}) /\ S \ {a} \in SUBSET D
  BY FS_RemoveElement
<1>2. SumFunctionOnSet(f, S \ {a}) \in Nat /\ f[a] \in Int
  BY <1>1, SumNat
<1> QED BY <1>2, SumRemove

(* A sum of zeros *)
LEMMA SumOfZeros ==
  ASSUME NEW D, NEW f \in [D -> Int], NEW S \in SUBSET D, IsFiniteSet(S), \A x \in S : f[x] = 0
  PROVE  SumFunctionOnSet(f, S) = 0
<1> DEFINE g == [x \in S |-> f[x]]
<1>1. g \in [S -> Int] /\ \A x \in S : g[x] = f[x]
  OBVIOUS
<1>2. \A x \in S \ {} : g[x] = 0
  BY <1>1
<1> HIDE DEF g
<1>3. SumFunctionOnSet(f, S) = SumFunctionOnSet(g, S)
  BY <1>1, SumSame
<1>4. {} \in SUBSET S
  OBVIOUS
<1>5. SumFunctionOnSet(g, S) = SumFunctionOnSet(g, {})
  BY <1>1, <1>2, <1>4, SumZeros
<1> QED BY <1>1, <1>3, <1>5, SumEmpty

(* Sums over parts that have nothing in common add up. *)
LEMMA SumUnion ==
  ASSUME NEW D, NEW f \in [D -> Int], NEW S \in SUBSET D, IsFiniteSet(S), NEW R \in SUBSET D, IsFiniteSet(R),
         S \cap R = {}
  PROVE  SumFunctionOnSet(f, S \cup R) = SumFunctionOnSet(f, S) + SumFunctionOnSet(f, R)
<1> DEFINE Adds(r) == IsFiniteSet(S \cup r) /\ SumFunctionOnSet(f, S \cup r) = SumFunctionOnSet(f, S) + SumFunctionOnSet(f, r)
           T == {r \in SUBSET R : Adds(r)}
<1>1. {} \in T
  <2>1. S \cup {} = S /\ SumFunctionOnSet(f, {}) = 0 /\ SumFunctionOnSet(f, S) \in Int
    BY SumEmpty, SumType
  <2> QED BY <2>1
<1>2. ASSUME NEW r \in SUBSET R, NEW a \in R \ r, r \in T PROVE r \cup {a} \in T
  <2> DEFINE A == S \cup r
             B == A \cup {a}
             C == r \cup {a}
  <2>1. B = S \cup C /\ A \in SUBSET D /\ a \notin A /\ a \in D /\ r \in SUBSET D /\ C \in SUBSET R
    OBVIOUS
  <2>2. IsFiniteSet(A) /\ SumFunctionOnSet(f, A) = SumFunctionOnSet(f, S) + SumFunctionOnSet(f, r) /\ IsFiniteSet(r)
    BY <1>2, FS_Subset
  <2> HIDE DEF A
  <2>3. SumFunctionOnSet(f, B) = SumFunctionOnSet(f, A) + f[a] /\ IsFiniteSet(B)
    <3>1. IsFiniteSet(A \cup {a})
      BY <2>2, FS_AddElement
    <3>2. SumFunctionOnSet(f, A \cup {a}) = SumFunctionOnSet(f, A) + f[a]
      BY <2>1, <2>2, SumInsert
    <3> QED BY <3>1, <3>2
  <2>4. SumFunctionOnSet(f, C) = SumFunctionOnSet(f, r) + f[a]
    BY <2>1, <2>2, SumInsert
  <2>5. SumFunctionOnSet(f, S) \in Int /\ SumFunctionOnSet(f, r) \in Int /\ f[a] \in Int
    BY <2>1, <2>2, SumType
  <2> HIDE DEF B, C
  <2>6. SumFunctionOnSet(f, B) = SumFunctionOnSet(f, S) + SumFunctionOnSet(f, C)
    BY <2>2, <2>3, <2>4, <2>5
  <2>7. Adds(C)
    BY <2>1, <2>3, <2>6, Zenon
  <2> QED BY <2>1, <2>7 DEF C
<1>3. R \in T
  <2> HIDE DEF T
  <2> QED BY <1>1, <1>2, SubsetInduction
<1> QED BY <1>3

-----------------------------------------------------------------------------
(* g holds the values of applying F to a up to N times. *)
Iterates(g, W, F, a, N) ==
  g \in [0 .. N -> W] /\ g[0] = a /\ \A n \in 1 .. N : g[n] = F[g[n - 1]]

(* Applying a function N times: the sequence of values exists. *)
LEMMA IterationExists ==
  ASSUME NEW W, NEW F \in [W -> W], NEW a \in W, NEW N \in Nat
  PROVE  \E g : Iterates(g, W, F, a, N)
<1> DEFINE T == {n \in Nat : \E g : Iterates(g, W, F, a, n)}
<1>1. 0 \in T
  <2> DEFINE g == [n \in 0 .. 0 |-> a]
  <2>1. g \in [0 .. 0 -> W] /\ g[0] = a /\ \A n \in 1 .. 0 : g[n] = F[g[n - 1]]
    OBVIOUS
  <2>2. Iterates(g, W, F, a, 0)
    BY <2>1 DEF Iterates
  <2> QED BY <2>2
<1>2. ASSUME NEW M \in Nat, M \in T
      PROVE  M + 1 \in T
  <2>0. PICK g : Iterates(g, W, F, a, M)
    BY <1>2
  <2>1. g \in [0 .. M -> W] /\ g[0] = a /\ \A n \in 1 .. M : g[n] = F[g[n - 1]]
    BY <2>0 DEF Iterates
  <2> DEFINE h == [n \in 0 .. M + 1 |-> IF n = M + 1 THEN F[g[M]] ELSE g[n]]
  <2>2. h \in [0 .. M + 1 -> W] /\ h[0] = a
    BY <2>1
  <2>3. ASSUME NEW n \in 1 .. M + 1
        PROVE  h[n] = F[h[n - 1]]
    <3>1. CASE n = M + 1
      BY <3>1
    <3>2. CASE n # M + 1
      <4>1. n \in 1 .. M /\ n - 1 \in 0 .. M /\ n \in 0 .. M
        BY <3>2
      <4> QED BY <2>1, <4>1
    <3> QED BY <3>1, <3>2
  <2>4. Iterates(h, W, F, a, M + 1)
    BY <2>2, <2>3 DEF Iterates
  <2> QED BY <2>4
<1>3. Nat \subseteq T
  <2> HIDE DEF T
  <2> QED BY <1>1, <1>2, NumberInduction
<1> QED BY <1>3
=============================================================================
