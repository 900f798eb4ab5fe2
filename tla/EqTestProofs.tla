---------------------------- MODULE EqTestProofs ----------------------------
(***************************************************************************)
(* Proofs about the equality test, for every length, threshold and number  *)
(* of tests: the masks of a round add up, each round leaves shares that    *)
(* are equal just when the inputs are, the loop stops at the threshold of  *)
(* the code, and the outputs are shares of the answer.                     *)
(***************************************************************************)
EXTENDS EqTest, Induction

-----------------------------------------------------------------------------
\* Sums: of the n values of a function they are the last of its partial sums.
AddTo(x, y) == x + y
AnyOf(s) == CHOOSE x \in s : TRUE

Adding == INSTANCE FoldFacts WITH op <- AddTo, base <- 0, choose <- AnyOf

Runs(G, f, n) ==
  G \in [0..n -> Int] /\ G[0] = 0 /\ \A k \in 0..(n - 1) : G[k + 1] = G[k] + f[k]

Values(f, n) == n \in Nat /\ f \in [0..(n - 1) -> Int]

SumIs(f, n, v) == \E G : Runs(G, f, n) /\ G[n] = v

LEMMA SumFold ==
  ASSUME NEW f
  PROVE  SumFunction(f) = Adding!Fold(f, DOMAIN f)
BY DEF SumFunction, SumFunctionOnSet, FoldFunctionOnSet, MapThenFoldSet, Adding!Fold, AddTo, AnyOf

\* The instance has a definition of its own of what is finite.
LEMMA FiniteHere ==
  ASSUME NEW S
  PROVE  Adding!IsFiniteSet(S) <=> IsFiniteSet(S)
BY Zenon DEF Adding!IsFiniteSet, IsFiniteSet

LEMMA Partial ==
  ASSUME NEW n \in Nat, NEW f \in [0..(n - 1) -> Int], NEW k \in 0..n
  PROVE  Adding!Fold(f, 0..(k - 1)) \in Int
<1>1. Adding!Monoid(Int)
  BY DEF Adding!Monoid, AddTo
<1>2. IsFiniteSet(0..(k - 1)) /\ Adding!Chooses(0..(k - 1))
  BY FS_Interval DEF Adding!Chooses, AnyOf
<1>3. \A x \in 0..(k - 1) : f[x] \in Int
  OBVIOUS
<1> QED
  BY <1>1, <1>2, <1>3, FiniteHere, Adding!FoldType

LEMMA TakeOut ==
  ASSUME Adding!Monoid(Int), NEW S, Adding!IsFiniteSet(S), Adding!Chooses(S),
         NEW f, \A x \in S : f[x] \in Int, NEW y \in S
  PROVE  Adding!Fold(f, S) = AddTo(f[y], Adding!Fold(f, S \ {y}))
BY Adding!FoldTakeOut

LEMMA OneMore ==
  ASSUME NEW n \in Nat, NEW f \in [0..(n - 1) -> Int], NEW k \in 0..(n - 1)
  PROVE  Adding!Fold(f, 0..k) = f[k] + Adding!Fold(f, 0..(k - 1))
<1>1. Adding!Monoid(Int)
  BY DEF Adding!Monoid, AddTo
<1>2. IsFiniteSet(0..k) /\ Adding!Chooses(0..k)
  BY FS_Interval DEF Adding!Chooses, AnyOf
<1>3. \A x \in 0..k : f[x] \in Int
  OBVIOUS
<1>4. k \in 0..k /\ (0..k) \ {k} = 0..(k - 1)
  OBVIOUS
<1>5. Adding!Fold(f, 0..k) = AddTo(f[k], Adding!Fold(f, (0..k) \ {k}))
  <2>1. Adding!IsFiniteSet(0..k)
    BY <1>2, FiniteHere
  <2>2. Adding!Chooses(0..k) /\ k \in 0..k
    BY <1>2, <1>4
  <2>3. Adding!Fold(f, 0..k) = AddTo(f[k], Adding!Fold(f, (0..k) \ {k}))
    BY Zenon, <1>1, <1>3, <2>1, <2>2, TakeOut
  <2> QED
    BY <1>4, <2>3
<1> QED
  BY <1>4, <1>5 DEF AddTo

LEMMA SumRuns ==
  ASSUME NEW n, NEW f, Values(f, n)
  PROVE  SumIs(f, n, SumFunction(f))
<1> DEFINE G == [k \in 0..n |-> Adding!Fold(f, 0..(k - 1))]
<1>1. n \in Nat /\ f \in [0..(n - 1) -> Int]
  BY DEF Values
<1>2. G \in [0..n -> Int]
  BY <1>1, Partial
<1>3. G[0] = 0
  <2>1. 0..(0 - 1) = {}
    OBVIOUS
  <2> QED
    BY <1>1, <2>1, Adding!FoldEmpty
<1>4. ASSUME NEW k \in 0..(n - 1) PROVE G[k + 1] = G[k] + f[k]
  <2>1. k \in 0..n /\ k + 1 \in 0..n /\ (k + 1) - 1 = k /\ f[k] \in Int
    BY <1>1
  <2>2. Adding!Fold(f, 0..k) = f[k] + Adding!Fold(f, 0..(k - 1))
    BY <1>1, OneMore
  <2>3. Adding!Fold(f, 0..(k - 1)) \in Int
    BY <1>1, <2>1, Partial
  <2>4. G[k + 1] = Adding!Fold(f, 0..k) /\ G[k] = Adding!Fold(f, 0..(k - 1))
    BY <2>1
  <2> HIDE DEF G
  <2> QED
    BY <2>1, <2>2, <2>3, <2>4
<1>5. G[n] = SumFunction(f)
  <2>1. G[n] = Adding!Fold(f, 0..(n - 1)) /\ DOMAIN f = 0..(n - 1)
    BY <1>1
  <2> HIDE DEF G
  <2> QED
    BY <2>1, SumFold
<1> HIDE DEF G
<1>6. Runs(G, f, n)
  BY <1>2, <1>3, <1>4 DEF Runs
<1> QED
  BY <1>5, <1>6 DEF SumIs

\* Ones add up to their number, at most one for each position.
LEMMA SumOfBits ==
  ASSUME NEW n, NEW h, Values(h, n), \A l \in 0..(n - 1) : h[l] \in {0, 1}
  PROVE  /\ SumFunction(h) \in 0..n
         /\ SumFunction(h) = 0 <=> \A l \in 0..(n - 1) : h[l] = 0
<1>1. n \in Nat
  BY DEF Values
<1>2. PICK G : Runs(G, h, n) /\ G[n] = SumFunction(h)
  BY SumRuns DEF SumIs
<1>3. G[0] = 0 /\ \A k \in 0..(n - 1) : G[k + 1] = G[k] + h[k]
  BY <1>2 DEF Runs
<1> DEFINE S == {k \in 0..n : G[k] \in 0..k /\ (G[k] = 0 <=> \A l \in 0..(k - 1) : h[l] = 0)}
<1>4. 0 \in S
  BY <1>1, <1>3
<1>5. ASSUME NEW k \in 0..(n - 1), k \in S PROVE k + 1 \in S
  <2>1. k \in Nat /\ k + 1 \in 0..n /\ h[k] \in {0, 1} /\ G[k + 1] = G[k] + h[k] /\ G[k] \in 0..k
    BY <1>1, <1>3, <1>5
  <2>2. G[k + 1] \in 0..(k + 1) /\ (G[k + 1] = 0 <=> G[k] = 0 /\ h[k] = 0)
    BY <2>1
  <2>3. (\A l \in 0..((k + 1) - 1) : h[l] = 0) <=> (\A l \in 0..(k - 1) : h[l] = 0) /\ h[k] = 0
    BY <2>1
  <2> QED
    BY <1>5, <2>1, <2>2, <2>3
<1> HIDE DEF S
<1>6. 0..n \subseteq S
  BY Zenon, <1>1, <1>4, <1>5, IntervalInduction
<1>7. n \in S
  BY <1>1, <1>6
<1> QED
  BY <1>2, <1>7 DEF S

LEMMA SumOfNats ==
  ASSUME NEW n, NEW f, Values(f, n), \A l \in 0..(n - 1) : f[l] \in Nat
  PROVE  SumFunction(f) \in Nat
<1>1. n \in Nat
  BY DEF Values
<1>2. PICK G : Runs(G, f, n) /\ G[n] = SumFunction(f)
  BY SumRuns DEF SumIs
<1> DEFINE S == {k \in 0..n : G[k] \in Nat}
<1>3. 0 \in S
  BY <1>1, <1>2 DEF Runs
<1>4. ASSUME NEW k \in 0..(n - 1), k \in S PROVE k + 1 \in S
  <2>1. k \in 0..n /\ k + 1 \in 0..n /\ f[k] \in Nat /\ G[k] \in Nat
    BY <1>1, <1>4
  <2>2. G[k + 1] = G[k] + f[k]
    BY <1>2 DEF Runs
  <2> QED
    BY <2>1, <2>2
<1> HIDE DEF S
<1>5. 0..n \subseteq S
  BY Zenon, <1>1, <1>3, <1>4, IntervalInduction
<1>6. n \in S
  BY <1>1, <1>5
<1> QED
  BY <1>2, <1>6 DEF S

\* a and b leave the same remainder by m.
Congruent(a, b, m) == \E c \in Int : a = b + m * c

LEMMA CongruentAdd ==
  ASSUME NEW m \in Int, NEW a \in Int, NEW b \in Int, NEW c \in Int, NEW d \in Int,
         Congruent(a, b, m), Congruent(c, d, m)
  PROVE  Congruent(a + c, b + d, m)
<1>1. PICK x \in Int : a = b + m * x
  BY DEF Congruent
<1>2. PICK y \in Int : c = d + m * y
  BY DEF Congruent
<1>3. PICK p \in Int, q \in Int : p = m * x /\ q = m * y
  OBVIOUS
<1>4. m * (x + y) = p + q /\ x + y \in Int
  BY <1>3
<1>5. a + c = (b + d) + m * (x + y)
  BY <1>1, <1>2, <1>3, <1>4
<1> QED
  BY <1>4, <1>5 DEF Congruent

LEMMA CongruentSelf ==
  ASSUME NEW m \in Int, NEW a \in Int
  PROVE  Congruent(a, a, m)
<1>1. a = a + m * 0
  OBVIOUS
<1> QED
  BY <1>1 DEF Congruent

\* What is congruent position by position is so when it is added up.
LEMMA SumsCongruent ==
  ASSUME NEW m \in Int, NEW n, NEW f, NEW g, NEW z, NEW h,
         Values(f, n), Values(g, n), Values(z, n), Values(h, n),
         \A l \in 0..(n - 1) : Congruent(f[l] + g[l] + z[l], h[l], m)
  PROVE  Congruent(SumFunction(f) + SumFunction(g) + SumFunction(z), SumFunction(h), m)
<1>1. n \in Nat /\ \A l \in 0..(n - 1) : f[l] \in Int /\ g[l] \in Int /\ z[l] \in Int /\ h[l] \in Int
  BY DEF Values
<1>2. PICK F : Runs(F, f, n) /\ F[n] = SumFunction(f)
  BY SumRuns DEF SumIs
<1>3. PICK G : Runs(G, g, n) /\ G[n] = SumFunction(g)
  BY SumRuns DEF SumIs
<1>4. PICK Z : Runs(Z, z, n) /\ Z[n] = SumFunction(z)
  BY SumRuns DEF SumIs
<1>5. PICK H : Runs(H, h, n) /\ H[n] = SumFunction(h)
  BY SumRuns DEF SumIs
<1> DEFINE S == {k \in 0..n : Congruent(F[k] + G[k] + Z[k], H[k], m)}
<1>6. 0 \in S
  <2>1. F[0] + G[0] + Z[0] = 0 /\ H[0] = 0
    BY <1>2, <1>3, <1>4, <1>5 DEF Runs
  <2> QED
    BY <1>1, <2>1, CongruentSelf
<1>7. ASSUME NEW k \in 0..(n - 1), k \in S PROVE k + 1 \in S
  <2>1. k \in 0..n /\ k + 1 \in 0..n
    BY <1>1
  <2>2. /\ F[k] \in Int /\ F[k + 1] = F[k] + f[k] /\ G[k] \in Int /\ G[k + 1] = G[k] + g[k]
        /\ Z[k] \in Int /\ Z[k + 1] = Z[k] + z[k] /\ H[k] \in Int /\ H[k + 1] = H[k] + h[k]
    BY <1>2, <1>3, <1>4, <1>5, <2>1 DEF Runs
  <2>3. PICK a \in Int, b \in Int : a = F[k] + G[k] + Z[k] /\ b = f[k] + g[k] + z[k]
    BY <1>1, <2>2
  <2>4. Congruent(a, H[k], m) /\ Congruent(b, h[k], m)
    BY <1>7, <2>3
  <2>5. Congruent(a + b, H[k] + h[k], m)
    BY <1>1, <2>2, <2>3, <2>4, CongruentAdd
  <2>6. a + b = F[k + 1] + G[k + 1] + Z[k + 1]
    BY <1>1, <2>2, <2>3
  <2> QED
    BY <2>1, <2>2, <2>5, <2>6
<1> HIDE DEF S
<1>8. 0..n \subseteq S
  BY Zenon, <1>1, <1>6, <1>7, IntervalInduction
<1>9. n \in S
  BY <1>1, <1>8
<1> QED
  BY <1>2, <1>3, <1>4, <1>5, <1>9 DEF S

\* Two numbers modulo m, one negated, are equal just when their sum is a multiple.
LEMMA EqualModulo ==
  ASSUME NEW m \in Nat \ {0}, NEW a \in Nat, NEW b \in Nat, NEW h \in 0..(m - 1),
         Congruent(a + b, h, m)
  PROVE  (m - (a % m)) % m = b % m <=> h = 0
<1> PICK x, y : x = a % m /\ y = b % m
  OBVIOUS
<1> PICK p, q : p = a \div m /\ q = b \div m
  OBVIOUS
<1>1. /\ x \in 0..(m - 1) /\ y \in 0..(m - 1) /\ p \in Int /\ q \in Int
      /\ a = p * m + x /\ b = q * m + y
  BY Divided
<1>0. x \in 0..(m - 1) /\ y \in 0..(m - 1)
  BY <1>1
<1> SUFFICES (m - x) % m = y <=> h = 0
  OBVIOUS
<1>2. PICK c \in Int : a + b = h + m * c
  BY DEF Congruent
<1>3. PICK e \in Int : e = c - p - q /\ x + y = h + e * m
  <2>1. PICK u \in Int, v \in Int, w \in Int : u = p * m /\ v = q * m /\ w = m * c
    OBVIOUS
  <2>2. c - p - q \in Int /\ (c - p - q) * m = w - u - v
    BY <2>1
  <2>3. x + y = h + (w - u - v)
    BY <1>1, <1>2, <2>1
  <2> QED
    BY <2>2, <2>3
<1>4. e = 0 \/ e = 1
  <2>1. ~(e >= 2)
    <3> SUFFICES ASSUME e >= 2 PROVE FALSE
      OBVIOUS
    <3>1. e * m >= 2 * m
      OBVIOUS
    <3> QED
      BY <1>3, <3>1
  <2>2. ~(e < 0)
    <3> SUFFICES ASSUME e < 0 PROVE FALSE
      OBVIOUS
    <3>1. e * m <= (-1) * m
      OBVIOUS
    <3> QED
      BY <1>3, <3>1
  <2> QED
    BY <2>1, <2>2
<1>5. (m - x) % m = IF x = 0 THEN 0 ELSE m - x
  <2>1. CASE x = 0
    <3>1. m % m = 0
      <4>1. m = 1 * m + 0 /\ 0 \in 0..(m - 1)
        OBVIOUS
      <4> QED
        BY <4>1, DividesAs
    <3> QED
      BY <2>1, <3>1
  <2>2. CASE x # 0
    <3> PICK w : w = m - x
      OBVIOUS
    <3>1. w \in 0..(m - 1)
      BY <1>0, <2>2
    <3>2. w % m = w
      BY <3>1, SmallRemainder
    <3> QED
      BY <2>2, <3>2
  <2> QED
    BY <2>1, <2>2
<1> PICK d : d = IF x = 0 THEN 0 ELSE m - x
  OBVIOUS
<1>6. CASE e = 0
  <2>1. x + y = h
    BY <1>3, <1>6
  <2>2. d = y <=> h = 0
    BY <1>0, <2>1
  <2> QED
    BY <1>5, <2>2
<1>7. CASE e = 1
  <2>1. x + y = h + m
    BY <1>3, <1>7
  <2>2. d = y <=> h = 0
    BY <1>0, <2>1
  <2> QED
    BY <1>5, <2>2
<1> QED
  BY <1>4, <1>6, <1>7

-----------------------------------------------------------------------------
\* Bits of numbers, the least significant first.
Bit(v, l) == (v \div 2^l) % 2

LEMMA BitType ==
  ASSUME NEW v \in Nat, NEW l \in Nat
  PROVE  Bit(v, l) \in {0, 1}
<1>1. 2^l \in Nat \ {0}
  BY Powers
<1> PICK w : w = v \div 2^l
  OBVIOUS
<1>2. w \in Nat
  BY <1>1, Divided
<1>3. w % 2 \in 0..(2 - 1)
  BY <1>2, Divided
<1> QED
  BY <1>3 DEF Bit

\* To divide by 2p is to divide by 2, then by p.
LEMMA TwicePlus ==
  ASSUME NEW p \in Nat \ {0}, NEW q \in Nat, NEW r \in 0..(p - 1), NEW s \in 0..1,
         NEW v, v = (q * p + r) * 2 + s
  PROVE  v \div (2 * p) = q
<1>1. PICK b : b = 2 * p
  OBVIOUS
<1>2. PICK t : t = 2 * r + s
  OBVIOUS
<1>3. PICK g : g = q * p
  OBVIOUS
<1>4. b \in Nat \ {0} /\ t \in 0..(b - 1) /\ g \in Nat
  BY <1>1, <1>2, <1>3
<1>5. q * b = 2 * g
  <2>1. q * (2 * p) = 2 * (q * p)
    OBVIOUS
  <2> QED
    BY <1>1, <1>3, <2>1
<1>6. v = q * b + t
  <2>1. v = (g + r) * 2 + s
    BY <1>3
  <2>2. v = 2 * g + t
    BY <1>2, <1>4, <2>1
  <2> QED
    BY <1>5, <2>2
<1>7. v \div b = q
  BY <1>4, <1>6, DividesAs
<1> QED
  BY <1>1, <1>7

LEMMA TwiceDivided ==
  ASSUME NEW v \in Nat, NEW p \in Nat \ {0}
  PROVE  v \div (2 * p) = (v \div 2) \div p
<1>1. PICK h, s : h = v \div 2 /\ s = v % 2
  OBVIOUS
<1>2. h \in Nat /\ s \in 0..1 /\ v = h * 2 + s
  BY <1>1, Divided
<1>3. PICK q, r : q = h \div p /\ r = h % p
  OBVIOUS
<1>4. q \in Nat /\ r \in 0..(p - 1) /\ h = q * p + r
  BY <1>2, <1>3, Divided
<1>5. v = (q * p + r) * 2 + s
  BY <1>2, <1>4
<1>6. v \div (2 * p) = q
  BY <1>2, <1>4, <1>5, TwicePlus
<1> QED
  BY <1>1, <1>3, <1>6

LEMMA HalfBits ==
  ASSUME NEW v \in Nat
  PROVE  /\ Bit(v, 0) = v % 2
         /\ \A l \in Nat : Bit(v, l + 1) = Bit(v \div 2, l)
<1>1. Bit(v, 0) = v % 2
  <2>1. 2^0 = 1 /\ v = v * 1 + 0 /\ 0 \in 0..(1 - 1)
    BY Powers
  <2>2. v \div 1 = v
    BY <2>1, DividesAs
  <2> QED
    BY <2>1, <2>2 DEF Bit
<1>2. ASSUME NEW l \in Nat PROVE Bit(v, l + 1) = Bit(v \div 2, l)
  <2> PICK p : p = 2^l
    OBVIOUS
  <2>1. p \in Nat \ {0} /\ 2^(l + 1) = 2 * p
    BY Powers
  <2>2. v \div (2 * p) = (v \div 2) \div p
    BY <2>1, TwiceDivided
  <2> QED
    BY <2>1, <2>2 DEF Bit
<1> QED
  BY <1>1, <1>2

\* A number of n bits is known by them.
SameTo(n, a, b) == \A l \in 0..(n - 1) : Bit(a, l) = Bit(b, l)

LEMMA BitsDetermine ==
  ASSUME NEW n \in Nat, NEW a \in 0..(2^n - 1), NEW b \in 0..(2^n - 1)
  PROVE  SameTo(n, a, b) <=> a = b
<1> DEFINE S == {m \in Nat : \A x, y \in 0..(2^m - 1) : SameTo(m, x, y) => x = y}
<1>1. 0 \in S
  BY Powers
<1>2. ASSUME NEW m \in Nat, m \in S PROVE m + 1 \in S
  <2> SUFFICES ASSUME NEW x \in 0..(2^(m + 1) - 1), NEW y \in 0..(2^(m + 1) - 1), SameTo(m + 1, x, y)
               PROVE  x = y
    OBVIOUS
  <2> PICK p : p = 2^m
    OBVIOUS
  <2>1. p \in Nat \ {0} /\ 2^(m + 1) = 2 * p
    BY Powers
  <2>2. x \in Nat /\ y \in Nat /\ x < 2 * p /\ y < 2 * p
    BY <2>1
  <2> PICK u, s, v, t : u = x \div 2 /\ s = x % 2 /\ v = y \div 2 /\ t = y % 2
    OBVIOUS
  <2>3. u \in Nat /\ s \in 0..1 /\ x = u * 2 + s /\ v \in Nat /\ t \in 0..1 /\ y = v * 2 + t
    BY <2>2, Divided
  <2>4. u \in 0..(p - 1) /\ v \in 0..(p - 1)
    BY <2>1, <2>2, <2>3
  <2>5. s = t
    <3>1. 0 \in 0..((m + 1) - 1)
      OBVIOUS
    <3>2. Bit(x, 0) = Bit(y, 0)
      BY <3>1 DEF SameTo
    <3> QED
      BY <2>2, <3>2, HalfBits
  <2>6. SameTo(m, u, v)
    <3> SUFFICES ASSUME NEW l \in 0..(m - 1) PROVE Bit(u, l) = Bit(v, l)
      BY DEF SameTo
    <3>1. l \in Nat /\ l + 1 \in 0..((m + 1) - 1)
      OBVIOUS
    <3>2. Bit(x, l + 1) = Bit(y, l + 1)
      BY <3>1 DEF SameTo
    <3> QED
      BY <2>2, <3>1, <3>2, HalfBits
  <2>7. u = v
    BY <1>2, <2>4, <2>6
  <2> QED
    BY <2>3, <2>5, <2>7
<1>3. n \in S
  <2> HIDE DEF S
  <2> QED
    BY <1>1, <1>2, SetInduction
<1> QED
  BY <1>3 DEF SameTo

-----------------------------------------------------------------------------
\* CeilLog2 finds what it is named for.
LEMMA CeilLogIs ==
  ASSUME NEW n \in Nat \ {0}
  PROVE  /\ CeilLog2(n) \in Nat /\ 2^CeilLog2(n) >= n
         /\ CeilLog2(n) = 0 \/ 2^(CeilLog2(n) - 1) < n
<1>1. CeilLog2(n) = BitsFor(n)
  BY DEF CeilLog2, BitsFor
<1> QED
  BY <1>1, BitsForIs

\* The next size: it holds the numbers to `j`, is not above `j`, and passes over
\* neither 2 nor 3.
LEMMA NextSize ==
  ASSUME NEW j \in Nat \ {0}
  PROVE  /\ CeilLog2(j + 1) \in 1..j
         /\ 2^CeilLog2(j + 1) >= j + 1
         /\ j > 2 => CeilLog2(j + 1) >= 2
         /\ j > 3 => CeilLog2(j + 1) >= 3
<1>1. CeilLog2(j + 1) = BitsFor(j + 1)
  BY DEF CeilLog2, BitsFor
<1> QED
  BY <1>1, NextBits

-----------------------------------------------------------------------------
\* One round.
LEMMA XorIs ==
  ASSUME NEW a \in {0, 1}, NEW b \in {0, 1}
  PROVE  xor(a, b) = IF a = b THEN 0 ELSE 1
BY DEF xor

LEMMA XorBit == \A a, b \in {0, 1} : xor(a, b) \in {0, 1}
BY XorIs

\* Numbers that are apart by nothing, by m or by 2m.
LEMMA CongruentNear ==
  ASSUME NEW m \in Int, NEW b \in Int, NEW a, a = b \/ a = b + m \/ a = b + 2 * m
  PROVE  Congruent(a, b, m)
<1>1. PICK c \in Int : c = 0 /\ m * c = 0
  OBVIOUS
<1>2. PICK d \in Int : d = 1 /\ m * d = m
  OBVIOUS
<1>3. PICK e \in Int : e = 2 /\ m * e = 2 * m
  OBVIOUS
<1>4. a = b + m * c \/ a = b + m * d \/ a = b + m * e
  BY <1>1, <1>2, <1>3
<1> HIDE <1>1, <1>2, <1>3
<1> QED
  BY <1>4 DEF Congruent

Given(z, mask, j) == IF z = 1 THEN j + 1 - mask ELSE mask

\* At one position: what the two sides add up and the bit they both see come to
\* the exclusive or of the bits that were hidden.
LEMMA PositionSum ==
  ASSUME NEW j \in Nat \ {0}, NEW a \in 0..j, NEW b \in 0..j,
         NEW p \in {0, 1}, NEW q \in {0, 1}, NEW u \in {0, 1}, NEW v \in {0, 1},
         (a + b) % (j + 1) = xor(p, q), NEW z, z = xor(xor(u, p), xor(v, q))
  PROVE  Congruent(Given(z, a, j) + Given(z, b, j) + z, xor(u, v), j + 1)
<1>1. PICK m : m = j + 1
  OBVIOUS
<1>2. m \in Nat \ {0} /\ m >= 2 /\ a \in 0..(m - 1) /\ b \in 0..(m - 1) /\ a + b \in Nat
  BY <1>1
<1>3. PICK x : x = xor(p, q)
  OBVIOUS
<1>4. PICK c : c = (a + b) \div m
  OBVIOUS
<1>5. c \in Nat /\ x \in 0..(m - 1) /\ a + b = c * m + x
  <2>1. (a + b) % m = x
    BY <1>1, <1>3
  <2> QED
    BY <1>2, <1>4, <2>1, Divided
<1>6. c = 0 \/ c = 1
  <2> SUFFICES ASSUME c >= 2 PROVE FALSE
    BY <1>5
  <2>1. c * m >= 2 * m
    BY <1>2, <1>5
  <2> QED
    BY <1>2, <1>5, <2>1
<1>7. a + b = x \/ a + b = m + x
  <2>1. 0 * m = 0 /\ 1 * m = m
    BY <1>2
  <2> QED
    BY <1>2, <1>5, <1>6, <2>1
<1>8. /\ x \in {0, 1} /\ z \in {0, 1} /\ xor(u, v) \in {0, 1}
      /\ z = 1 => xor(u, v) = 1 - x
      /\ z = 0 => xor(u, v) = x
  BY <1>3 DEF xor
<1>9. PICK y : y = xor(u, v)
  OBVIOUS
<1>10. PICK g, h : g = Given(z, a, j) /\ h = Given(z, b, j)
  OBVIOUS
<1>11. \/ z = 1 /\ g = m - a /\ h = m - b
       \/ z = 0 /\ g = a /\ h = b
  BY <1>1, <1>8, <1>10 DEF Given
<1>12. y \in {0, 1} /\ (z = 1 => y = 1 - x) /\ (z = 0 => y = x)
  BY <1>8, <1>9
<1>13. g + h + z = y \/ g + h + z = y + m \/ g + h + z = y + 2 * m
  <2>1. PICK w : w = a + b
    OBVIOUS
  <2>2. x \in {0, 1} /\ w \in Int /\ (w = x \/ w = m + x) /\ m \in Int
    BY <1>2, <1>7, <1>8, <2>1
  <2>3. \/ z = 1 /\ y = 1 - x /\ g + h = 2 * m - w
        \/ z = 0 /\ y = x /\ g + h = w
    BY <1>2, <1>11, <1>12, <2>1
  <2> QED
    BY <2>2, <2>3
<1>14. Congruent(g + h + z, y, m)
  BY <1>2, <1>12, <1>13, CongruentNear
<1> QED
  BY <1>1, <1>9, <1>10, <1>14

\* What the two sides make of their sums.
Less(j, f) == (j + 1 - (f % (j + 1))) % (j + 1)
More(m, g, z) == ((g % m) + z) % m

\* The masks of a round for one test, and the bits that they hide.
MasksOf(j, a, b, p, q) ==
  /\ a \in [0..(j - 1) -> 0..j] /\ b \in [0..(j - 1) -> 0..j]
  /\ p \in [0..(j - 1) -> {0, 1}] /\ q \in [0..(j - 1) -> {0, 1}]
  /\ \A l \in 0..(j - 1) : (a[l] + b[l]) % (j + 1) = xor(p[l], q[l])

\* What both sides see of a test.
Seen(j, z, u, v, p, q) ==
  z = [l \in 0..(j - 1) |-> xor(xor(u[l], p[l]), xor(v[l], q[l]))]

\* The new shares are equal just when the bits are.
LEMMA SharesOfRound ==
  ASSUME NEW j \in Nat \ {0}, NEW a, NEW b, NEW p, NEW q, MasksOf(j, a, b, p, q),
         NEW u \in [0..(j - 1) -> {0, 1}], NEW v \in [0..(j - 1) -> {0, 1}],
         NEW z, Seen(j, z, u, v, p, q)
  PROVE  /\ NextShare("sender", z, a, j) \in 0..j
         /\ NextShare("receiver", z, b, j) \in 0..j
         /\ NextShare("sender", z, a, j) = NextShare("receiver", z, b, j)
              <=> \A l \in 0..(j - 1) : u[l] = v[l]
<1> DEFINE f == [l \in 0..(j - 1) |-> Given(z[l], a[l], j)]
           g == [l \in 0..(j - 1) |-> Given(z[l], b[l], j)]
           h == [l \in 0..(j - 1) |-> xor(u[l], v[l])]
<1>1. ASSUME NEW l \in 0..(j - 1)
      PROVE  /\ a[l] \in 0..j /\ b[l] \in 0..j /\ p[l] \in {0, 1} /\ q[l] \in {0, 1}
             /\ u[l] \in {0, 1} /\ v[l] \in {0, 1} /\ z[l] = xor(xor(u[l], p[l]), xor(v[l], q[l]))
             /\ (a[l] + b[l]) % (j + 1) = xor(p[l], q[l])
  BY DEF MasksOf, Seen
<1>2. ASSUME NEW l \in 0..(j - 1)
      PROVE  z[l] \in {0, 1} /\ Given(z[l], a[l], j) \in Nat /\ Given(z[l], b[l], j) \in Nat
  <2>1. xor(u[l], p[l]) \in {0, 1} /\ xor(v[l], q[l]) \in {0, 1}
    BY <1>1, XorBit
  <2>2. z[l] \in {0, 1}
    BY <1>1, <2>1, XorBit
  <2> QED
    BY SMTT(30), <1>1, <2>2 DEF Given
<1>3. Values(f, j) /\ Values(g, j) /\ Values(z, j) /\ Values(h, j)
  <2>1. f \in [0..(j - 1) -> Int] /\ g \in [0..(j - 1) -> Int]
    BY <1>2
  <2>2. z = [l \in 0..(j - 1) |-> z[l]]
    BY DEF Seen
  <2>3. z \in [0..(j - 1) -> Int]
    BY <1>2, <2>2
  <2>4. h \in [0..(j - 1) -> Int]
    <3>1. \A l \in 0..(j - 1) : xor(u[l], v[l]) \in {0, 1}
      BY <1>1, XorBit
    <3>2. \A l \in 0..(j - 1) : xor(u[l], v[l]) \in Int
      BY <3>1
    <3> QED
      BY <3>2
  <2> QED
    BY <2>1, <2>3, <2>4 DEF Values
<1>4. \A l \in 0..(j - 1) : f[l] = Given(z[l], a[l], j) /\ g[l] = Given(z[l], b[l], j)
                            /\ h[l] = xor(u[l], v[l])
  OBVIOUS
<1>5. /\ NextShare("sender", z, a, j) = Less(j, SumFunction(f))
      /\ NextShare("receiver", z, b, j) = More(j + 1, SumFunction(g), SumFunction(z))
  <2>1. /\ f = [l \in Below(j) |-> IF z[l] = 1 THEN j + 1 - a[l] ELSE a[l]]
        /\ g = [l \in Below(j) |-> IF z[l] = 1 THEN j + 1 - b[l] ELSE b[l]]
    BY DEF Given, Below
  <2> HIDE DEF f, g, h
  <2>2. NextShare("sender", z, a, j) = Less(j, SumFunction(f))
    BY Zenon, <2>1 DEF NextShare, Less
  <2>3. NextShare("receiver", z, b, j) = More(j + 1, SumFunction(g), SumFunction(z))
    BY Zenon, <2>1 DEF NextShare, More
  <2> QED
    BY <2>2, <2>3
<1> HIDE DEF f, g, h
<1>6. \A l \in 0..(j - 1) : Congruent(f[l] + g[l] + z[l], h[l], j + 1)
  <2> TAKE l \in 0..(j - 1)
  <2>1. Congruent(Given(z[l], a[l], j) + Given(z[l], b[l], j) + z[l], xor(u[l], v[l]), j + 1)
    <3>1. PICK aa \in 0..j, bb \in 0..j : aa = a[l] /\ bb = b[l]
      BY <1>1
    <3>2. PICK pp \in {0, 1}, qq \in {0, 1}, uu \in {0, 1}, vv \in {0, 1} :
            pp = p[l] /\ qq = q[l] /\ uu = u[l] /\ vv = v[l]
      BY <1>1
    <3>3. PICK zz : zz = z[l] /\ zz = xor(xor(uu, pp), xor(vv, qq)) /\ (aa + bb) % (j + 1) = xor(pp, qq)
      BY <1>1, <3>1, <3>2
    <3>4. Congruent(Given(zz, aa, j) + Given(zz, bb, j) + zz, xor(uu, vv), j + 1)
      BY <3>3, PositionSum
    <3> QED
      BY <3>1, <3>2, <3>3, <3>4
  <2> QED
    BY <1>4, <2>1
<1>7. PICK F, G, Z, H : F = SumFunction(f) /\ G = SumFunction(g) /\ Z = SumFunction(z) /\ H = SumFunction(h)
  OBVIOUS
<1>8. Congruent(F + G + Z, H, j + 1)
  <2>1. j + 1 \in Int
    OBVIOUS
  <2> QED
    BY <1>3, <1>6, <1>7, <2>1, SumsCongruent
<1>9. F \in Nat /\ G \in Nat /\ Z \in Nat
  <2>1. \A l \in 0..(j - 1) : f[l] \in Nat /\ g[l] \in Nat /\ z[l] \in Nat
    <3>1. \A l \in 0..(j - 1) : z[l] \in Nat
      BY <1>2
    <3> QED
      BY <1>2, <1>4, <3>1
  <2> QED
    BY <1>3, <1>7, <2>1, SumOfNats
<1>10. H \in 0..j /\ (H = 0 <=> \A l \in 0..(j - 1) : u[l] = v[l])
  <2>1. \A l \in 0..(j - 1) : h[l] \in {0, 1}
    BY <1>1, <1>4, XorBit
  <2>2. \A l \in 0..(j - 1) : h[l] = 0 <=> u[l] = v[l]
    BY <1>1, <1>4, XorIs
  <2> QED
    BY <1>3, <1>7, <2>1, <2>2, SumOfBits
<1>11. PICK m : m = j + 1
  OBVIOUS
<1>12. m \in Nat \ {0} /\ H \in 0..(m - 1)
  BY <1>10, <1>11
<1>13. Congruent(F + ((G % m) + Z), H, m)
  <2>1. PICK x, k : x = G % m /\ k = G \div m
    OBVIOUS
  <2>2. x \in Nat /\ k \in Int /\ G = k * m + x
    BY <1>9, <1>12, <2>1, Divided
  <2>3. PICK c \in Int : F + G + Z = H + m * c
    BY <1>8, <1>11 DEF Congruent
  <2>4. m * (c - k) = m * c - k * m /\ c - k \in Int
    BY <1>12, <2>2
  <2>5. F + (x + Z) = H + m * (c - k)
    <3>1. PICK d \in Int, e \in Int : d = m * c /\ e = k * m
      BY <1>12, <2>2
    <3> QED
      BY <1>9, <1>12, <2>2, <2>3, <2>4, <3>1
  <2> QED
    BY <2>1, <2>4, <2>5 DEF Congruent
<1>14. (G % m) + Z \in Nat
  <2>1. G % m \in Nat
    BY <1>9, <1>12, Divided
  <2> QED
    BY <1>9, <2>1
<1>15. (m - (F % m)) % m = ((G % m) + Z) % m <=> H = 0
  BY <1>9, <1>12, <1>13, <1>14, EqualModulo
<1>16. (m - (F % m)) % m \in 0..j /\ ((G % m) + Z) % m \in 0..j
  <2>1. F % m \in 0..(m - 1)
    BY <1>9, <1>12, Divided
  <2>2. m - (F % m) \in Nat
    BY <1>12, <2>1
  <2>3. (m - (F % m)) % m \in 0..(m - 1) /\ ((G % m) + Z) % m \in 0..(m - 1)
    BY <1>12, <1>14, <2>2, Divided
  <2> QED
    BY <1>11, <2>3
<1> QED
  <2>1. /\ NextShare("sender", z, a, j) = Less(j, F)
        /\ NextShare("receiver", z, b, j) = More(m, G, Z)
    BY Zenon, <1>5, <1>7, <1>11
  <2>2. PICK x, y : x = Less(j, F) /\ y = More(m, G, Z)
    OBVIOUS
  <2>4. Less(j, F) = (m - (F % m)) % m
    <3>1. PICK x0 : x0 = F % m
      OBVIOUS
    <3>2. x0 \in 0..(m - 1)
      BY <1>9, <1>12, <3>1, Divided
    <3>3. j + 1 - x0 = m - x0
      BY <1>11, <3>2
    <3> QED
      BY <1>11, <3>1, <3>3 DEF Less
  <2>3. x \in 0..j /\ y \in 0..j /\ (x = y <=> H = 0)
    BY <1>15, <1>16, <2>2, <2>4 DEF More
  <2> QED
    BY <1>10, <2>1, <2>2, <2>3

-----------------------------------------------------------------------------
\* Where the number l of test t is in a vector of s numbers for each of T tests.
LEMMA PlaceOf ==
  ASSUME NEW s \in Nat \ {0}, NEW T \in Nat, NEW t \in 0..(T - 1), NEW l \in 0..(s - 1)
  PROVE  /\ t * s + l \in 0..(s * T - 1)
         /\ s * t + l = t * s + l
         /\ (t * s + l) \div s = t /\ (t * s + l) % s = l
<1>1. s * t = t * s /\ s * T = T * s /\ t * s \in Nat
  OBVIOUS
<1>2. t * s + s <= T * s
  BY Stretch
<1>3. PICK g, h : g = t * s /\ h = T * s
  OBVIOUS
<1>4. g + l \in 0..(h - 1)
  <2>1. g \in Nat /\ g + s <= h /\ h \in Nat
    BY <1>1, <1>2, <1>3
  <2> QED
    BY <2>1
<1>5. PICK q : q = t * s + l
  OBVIOUS
<1>6. q \div s = t /\ q % s = l
  BY <1>5, DividesAs
<1> QED
  BY <1>1, <1>3, <1>4, <1>5, <1>6

\* A message fits into its bits, and it and the mask add up to the exclusive or.
Received(m, x, a, y, j) == m = OnTheWire(Messages(x, a, j)[y + 1], j)

LEMMA MessageMasks ==
  ASSUME NEW j \in Nat \ {0}, NEW x \in {0, 1}, NEW a \in 0..j, NEW y \in {0, 1},
         NEW m, Received(m, x, a, y, j)
  PROVE  m \in 0..j /\ (a + m) % (j + 1) = xor(x, y)
<1>1. PICK w : w = xor(x, y)
  OBVIOUS
<1>2. w \in {0, 1} /\ w = (IF y = 0 THEN x ELSE 1 - x)
  BY <1>1, XorIs
<1>3. PICK k : k = Messages(x, a, j)[y + 1]
  OBVIOUS
<1>4. k = IF w >= a THEN w - a ELSE j + 1 + w - a
  <2>1. CASE y = 0
    <3>1. k = IF x >= a THEN x - a ELSE j + 1 + x - a
      BY <1>3, <2>1 DEF Messages
    <3> QED
      BY <1>2, <2>1, <3>1
  <2>2. CASE y = 1
    <3>1. k = IF 1 - x >= a THEN 1 - x - a ELSE 1 - x + j + 1 - a
      BY <1>3, <2>2 DEF Messages
    <3> QED
      BY <1>2, <2>2, <3>1
  <2> QED
    BY <2>1, <2>2
<1>5. k \in 0..j /\ (a + k = w \/ a + k = (j + 1) + w)
  BY <1>2, <1>4
<1>6. m = k
  <2>1. PICK p : p = 2^CeilLog2(j + 1)
    OBVIOUS
  <2>2. p \in Nat \ {0} /\ p >= j + 1
    BY <2>1, NextSize, Powers
  <2>3. k \in 0..(p - 1)
    BY <1>5, <2>2
  <2>4. k % p = k
    BY <2>2, <2>3, SmallRemainder
  <2> QED
    BY <1>3, <2>1, <2>4 DEF OnTheWire, Received
<1>7. PICK n : n = j + 1
  OBVIOUS
<1>8. n \in Nat \ {0} /\ w \in 0..(n - 1)
  BY <1>2, <1>7
<1>9. PICK v : v = a + k
  OBVIOUS
<1>10. v % n = w
  <2>1. CASE v = w
    BY <1>8, <2>1, SmallRemainder
  <2>2. CASE v = n + w
    <3>1. v = 1 * n + w /\ 1 \in Nat
      BY <1>8, <2>2
    <3> QED
      BY <1>8, <3>1, DividesAs
  <2> QED
    BY <1>5, <1>7, <1>9, <2>1, <2>2
<1> QED
  BY <1>1, <1>5, <1>6, <1>7, <1>9, <1>10

-----------------------------------------------------------------------------
\* The invariant.  F are the sizes of the rounds, as far as they are prepared.
Prepared == Len(rsi["sender"])

Vectors == UNION {[0..(j - 1) -> 0..params.length] : j \in 1..params.length}

TypesOK ==
  /\ params \in ParamSet
  /\ phase \in {"prepare", "run", "done", "error"}
  /\ rsi \in [Sides -> Seq([Tests -> Vectors])] /\ abi \in [Sides -> Seq([Tests -> Vectors])]
  /\ \A s \in Sides : Len(rsi[s]) = Prepared /\ Len(abi[s]) = Prepared
  /\ round \in 0..Prepared

Sizes(F) ==
  /\ F \in [0..Prepared -> 1..params.length] /\ F[0] = params.length
  /\ \A i \in 1..Prepared : F[i - 1] > params.threshold /\ F[i] = CeilLog2(F[i - 1] + 1)

MasksInv(F) ==
  \A i \in 1..Prepared, t \in Tests :
    MasksOf(F[i - 1], abi["sender"][i][t], abi["receiver"][i][t],
                      rsi["sender"][i][t], rsi["receiver"][i][t])

SharesInv(F) ==
  /\ share \in [Sides -> [Tests -> 0..(2^F[round] - 1)]]
  /\ input \in [Sides -> [Tests -> 0..(2^params.length - 1)]]

PhaseInv(F) ==
  /\ phase = "prepare" => round = 0 /\ size = F[Prepared] /\ share = input
  /\ phase # "prepare" => size = F[round] /\ F[Prepared] <= params.threshold
  /\ phase = "error" => size < params.threshold
  /\ phase = "done" => size = params.threshold

InvF(F) == TypesOK /\ Sizes(F) /\ MasksInv(F) /\ SharesInv(F) /\ PhaseInv(F) /\ EqualityKept

RoundsInv == \E F : InvF(F)

\* What the parameters are.
LEMMA ParamsAre ==
  ASSUME params \in ParamSet
  PROVE  /\ params.length \in Nat \ {0} /\ params.tests \in Nat \ {0}
         /\ params.threshold \in Nat \ {0, 1} /\ params.values \subseteq 0..(2^params.length - 1)
         /\ Tests = 0..(params.tests - 1)
         /\ 2^params.threshold \in Nat \ {0}
BY EqTestAssumption, Powers DEF Tests

\* What is drawn.
LEMMA DrawsAre ==
  ASSUME params \in ParamSet, NEW j \in 1..params.length
  PROVE  /\ \A x \in Draw(j, 2) : x \in [0..(j - 1) -> {0, 1}]
         /\ \A x \in Draw(j, j + 1) : x \in [0..(j - 1) -> 0..j]
         /\ \A x \in Draw(j * params.tests, 2) : x \in [0..(j * params.tests - 1) -> {0, 1}]
<1>1. PICK L, T, c : L = params.length /\ T = params.tests /\ c = 2^params.threshold
  OBVIOUS
<1>2. L \in Nat \ {0} /\ T \in Nat \ {0} /\ c \in Nat /\ j \in 1..L
  BY <1>1, ParamsAre
<1>3. \A n \in 0..(T * (L + c)), m \in 2..(L + 1) : Draw(n, m) \subseteq [0..(n - 1) -> 0..(m - 1)]
  BY <1>1, DrawAssumption
<1>4. j * T \in Nat /\ j * T <= T * (L + c) /\ j <= T * (L + c)
  <2>1. j * T <= (L + c) * T /\ (L + c) * T = T * (L + c) /\ j * T \in Nat
    BY <1>2
  <2>2. j <= j * T
    BY <1>2
  <2> QED
    BY <1>2, <2>1, <2>2
<1>5. j \in 0..(T * (L + c)) /\ j * T \in 0..(T * (L + c)) /\ 2 \in 2..(L + 1) /\ j + 1 \in 2..(L + 1)
  <2>1. T * (L + c) \in Nat
    BY <1>2
  <2> QED
    BY <1>2, <1>4, <2>1
<1>6. 0..(2 - 1) = {0, 1} /\ (j + 1) - 1 = j
  OBVIOUS
<1>7. Draw(j, 2) \subseteq [0..(j - 1) -> 0..(2 - 1)]
  BY Zenon, <1>3, <1>5
<1>8. Draw(j, j + 1) \subseteq [0..(j - 1) -> 0..((j + 1) - 1)]
  BY Zenon, <1>3, <1>5
<1>9. Draw(j * T, 2) \subseteq [0..(j * T - 1) -> 0..(2 - 1)]
  BY Zenon, <1>3, <1>5
<1> QED
  BY <1>1, <1>6, <1>7, <1>8, <1>9

LEMMA RoundsStart == Init => RoundsInv
<1> SUFFICES ASSUME Init PROVE RoundsInv
  OBVIOUS
<1>1. params \in ParamSet /\ phase = "prepare" /\ size = params.length /\ round = 0 /\ share = input
  BY DEF Init
<1>2. rsi = [s \in Sides |-> <<>>] /\ abi = [s \in Sides |-> <<>>]
  BY DEF Init
<1>3. Prepared = 0 /\ \A s \in Sides : rsi[s] = <<>> /\ abi[s] = <<>>
  BY <1>2 DEF Prepared, Sides
<1>4. PICK F : F = [i \in 0..0 |-> params.length]
  OBVIOUS
<1>5. params.length \in Nat \ {0}
  BY <1>1, ParamsAre
<1>6. Sizes(F)
  <2>1. params.length \in 1..params.length
    BY <1>5
  <2>2. F \in [0..0 -> 1..params.length] /\ F[0] = params.length
    BY <1>4, <2>1
  <2>3. 1..0 = {}
    OBVIOUS
  <2> QED
    BY <1>3, <2>2, <2>3 DEF Sizes
<1>7. TypesOK
  <2>1. <<>> \in Seq([Tests -> Vectors]) /\ Len(<<>>) = 0
    OBVIOUS
  <2>2. rsi \in [Sides -> Seq([Tests -> Vectors])] /\ abi \in [Sides -> Seq([Tests -> Vectors])]
    BY <1>2, <2>1
  <2> QED
    BY <1>1, <1>3, <2>1, <2>2 DEF TypesOK
<1>8. MasksInv(F)
  BY <1>3 DEF MasksInv
<1>9. SharesInv(F)
  <2>1. input \in [Sides -> [Tests -> params.values]]
    BY DEF Init
  <2>2. input \in [Sides -> [Tests -> 0..(2^params.length - 1)]]
    BY <1>1, <2>1, ParamsAre
  <2>3. F[round] = params.length
    BY <1>1, <1>4
  <2> QED
    BY <1>1, <2>2, <2>3 DEF SharesInv
<1>10. PhaseInv(F)
  BY <1>1, <1>3, <1>4 DEF PhaseInv
<1>11. EqualityKept
  BY <1>1 DEF EqualityKept
<1> QED
  BY <1>6, <1>7, <1>8, <1>9, <1>10, <1>11 DEF RoundsInv, InvF

\* sizeReduction adds a row for each test to the masks of both sides.
LEMMA ReductionIs ==
  ASSUME params \in ParamSet, size \in 1..params.length, SizeReduction
  PROVE  \E x, a, y, b \in [Tests -> Vectors] :
           /\ rsi' = [sender |-> Append(rsi["sender"], x), receiver |-> Append(rsi["receiver"], y)]
           /\ abi' = [sender |-> Append(abi["sender"], a), receiver |-> Append(abi["receiver"], b)]
           /\ \A t \in Tests : MasksOf(size, a[t], b[t], x[t], y[t])
<1>1. size \in 1..params.length /\ size \in Nat \ {0}
  BY ParamsAre
<1> DEFINE slice(w, t) == [l \in Below(size) |-> w[t * size + l]]
           got(x, a, w, t) == [l \in Below(size) |->
             OnTheWire(Messages(x[t][l], a[t][l], size)[slice(w, t)[l] + 1], size)]
<1>2. PICK x \in [Tests -> Draw(size, 2)], a \in [Tests -> Draw(size, size + 1)],
           w \in Draw(size * params.tests, 2) :
        /\ rsi' = [sender |-> Append(rsi["sender"], x),
                   receiver |-> Append(rsi["receiver"], [t \in Tests |-> slice(w, t)])]
        /\ abi' = [sender |-> Append(abi["sender"], a),
                   receiver |-> Append(abi["receiver"], [t \in Tests |-> got(x, a, w, t)])]
  BY Zenon DEF SizeReduction
<1>3. PICK y, b : y = [t \in Tests |-> slice(w, t)] /\ b = [t \in Tests |-> got(x, a, w, t)]
  OBVIOUS
<1>4. ASSUME NEW t \in Tests
      PROVE  /\ x[t] \in [0..(size - 1) -> {0, 1}] /\ a[t] \in [0..(size - 1) -> 0..size]
             /\ y[t] \in [0..(size - 1) -> {0, 1}]
             /\ \A l \in 0..(size - 1) : b[t][l] = OnTheWire(Messages(x[t][l], a[t][l], size)[y[t][l] + 1], size)
             /\ b[t] = [l \in 0..(size - 1) |-> b[t][l]]
  <2>1. x[t] \in [0..(size - 1) -> {0, 1}] /\ a[t] \in [0..(size - 1) -> 0..size]
    BY <1>1, <1>2, DrawsAre
  <2>2. w \in [0..(size * params.tests - 1) -> {0, 1}]
    BY <1>1, <1>2, DrawsAre
  <2>3. ASSUME NEW l \in 0..(size - 1) PROVE w[t * size + l] \in {0, 1}
    <3>1. t \in 0..(params.tests - 1) /\ params.tests \in Nat
      BY ParamsAre
    <3>2. t * size + l \in 0..(size * params.tests - 1)
      BY <1>1, <3>1, PlaceOf
    <3> QED
      BY <2>2, <3>2
  <2>4. y[t] = slice(w, t) /\ b[t] = got(x, a, w, t)
    BY <1>3
  <2>5. y[t] \in [0..(size - 1) -> {0, 1}]
    BY <2>3, <2>4 DEF Below
  <2> QED
    BY <2>1, <2>4, <2>5 DEF Below
<1> HIDE DEF slice, got
<1>5. ASSUME NEW t \in Tests PROVE MasksOf(size, a[t], b[t], x[t], y[t])
  <2>1. ASSUME NEW l \in 0..(size - 1)
        PROVE  b[t][l] \in 0..size /\ (a[t][l] + b[t][l]) % (size + 1) = xor(x[t][l], y[t][l])
    <3>0. x[t][l] \in {0, 1} /\ a[t][l] \in 0..size /\ y[t][l] \in {0, 1}
      BY <1>4
    <3>1. PICK p \in {0, 1}, q \in 0..size, r \in {0, 1} : p = x[t][l] /\ q = a[t][l] /\ r = y[t][l]
      BY <3>0
    <3>2. PICK m : m = b[t][l] /\ Received(m, p, q, r, size)
      BY <1>4, <3>1 DEF Received
    <3>3. m \in 0..size /\ (q + m) % (size + 1) = xor(p, r)
      BY <1>1, <3>2, MessageMasks
    <3> QED
      BY <3>1, <3>2, <3>3
  <2>2. b[t] \in [0..(size - 1) -> 0..size]
    BY <1>4, <2>1
  <2> QED
    BY <1>4, <2>1, <2>2 DEF MasksOf
<1>6. x \in [Tests -> Vectors] /\ a \in [Tests -> Vectors] /\ y \in [Tests -> Vectors] /\ b \in [Tests -> Vectors]
  <2>1. ASSUME NEW f \in [0..(size - 1) -> 0..size] PROVE f \in Vectors
    <3>0. 0..size \subseteq 0..params.length
      BY <1>1, ParamsAre
    <3>1. f \in [0..(size - 1) -> 0..params.length]
      BY <3>0
    <3> QED
      BY <1>1, <3>1 DEF Vectors
  <2>2. ASSUME NEW f \in [0..(size - 1) -> {0, 1}] PROVE f \in Vectors
    <3>1. f \in [0..(size - 1) -> 0..size]
      BY <1>1
    <3> QED
      BY <2>1, <3>1
  <2>3. \A t \in Tests : x[t] \in Vectors /\ a[t] \in Vectors /\ y[t] \in Vectors /\ b[t] \in Vectors
    <3> TAKE t \in Tests
    <3>1. MasksOf(size, a[t], b[t], x[t], y[t])
      BY <1>5
    <3> QED
      BY <2>1, <2>2, <3>1 DEF MasksOf
  <2>4. DOMAIN x = Tests /\ DOMAIN a = Tests /\ x = [t \in Tests |-> x[t]] /\ a = [t \in Tests |-> a[t]]
    BY <1>2
  <2>5. y = [t \in Tests |-> y[t]] /\ b = [t \in Tests |-> b[t]]
    BY <1>3
  <2> QED
    BY <2>3, <2>4, <2>5
<1> QED
  BY <1>2, <1>3, <1>5, <1>6

\* Sequences that are made longer by one.
LEMMA Longer ==
  ASSUME NEW S, NEW s \in Seq(S), NEW x \in S
  PROVE  /\ Append(s, x) \in Seq(S) /\ Len(Append(s, x)) = Len(s) + 1
         /\ Append(s, x)[Len(s) + 1] = x
         /\ \A i \in 1..Len(s) : Append(s, x)[i] = s[i]
BY AppendProperties

LEMMA ReductionKeeps == RoundsInv /\ SizeReduction => RoundsInv'
<1> SUFFICES ASSUME NEW F, InvF(F), SizeReduction PROVE RoundsInv'
  BY DEF RoundsInv
<1>1. TypesOK /\ Sizes(F) /\ MasksInv(F) /\ SharesInv(F) /\ PhaseInv(F) /\ EqualityKept
  BY DEF InvF
<1>2. PICK R : R = Prepared
  OBVIOUS
<1>3. /\ params \in ParamSet /\ rsi \in [Sides -> Seq([Tests -> Vectors])]
      /\ abi \in [Sides -> Seq([Tests -> Vectors])]
      /\ Len(rsi["sender"]) = R /\ Len(rsi["receiver"]) = R
      /\ Len(abi["sender"]) = R /\ Len(abi["receiver"]) = R
      /\ round = 0 /\ size = F[R] /\ share = input /\ phase = "prepare" /\ size > params.threshold
  BY <1>1, <1>2 DEF TypesOK, PhaseInv, SizeReduction, Sides
<1>4. /\ UNCHANGED <<params, phase, round, input, share>> /\ size' = CeilLog2(size + 1)
  BY DEF SizeReduction
<1>5. /\ rsi["sender"] \in Seq([Tests -> Vectors]) /\ rsi["receiver"] \in Seq([Tests -> Vectors])
      /\ abi["sender"] \in Seq([Tests -> Vectors]) /\ abi["receiver"] \in Seq([Tests -> Vectors])
  BY <1>3 DEF Sides
<1>6. R \in Nat
  BY <1>3, <1>5, LenProperties
<1>7. size \in 1..params.length
  BY <1>1, <1>2, <1>3, <1>6 DEF Sizes
<1>8. PICK x, a, y, b \in [Tests -> Vectors] :
        /\ rsi' = [sender |-> Append(rsi["sender"], x), receiver |-> Append(rsi["receiver"], y)]
        /\ abi' = [sender |-> Append(abi["sender"], a), receiver |-> Append(abi["receiver"], b)]
        /\ \A t \in Tests : MasksOf(size, a[t], b[t], x[t], y[t])
  BY <1>3, <1>7, ReductionIs
<1>9. /\ rsi'["sender"] = Append(rsi["sender"], x) /\ rsi'["receiver"] = Append(rsi["receiver"], y)
      /\ abi'["sender"] = Append(abi["sender"], a) /\ abi'["receiver"] = Append(abi["receiver"], b)
  BY <1>8
<1>10. /\ rsi'["sender"] \in Seq([Tests -> Vectors]) /\ Len(rsi'["sender"]) = R + 1
       /\ rsi'["sender"][R + 1] = x /\ \A i \in 1..R : rsi'["sender"][i] = rsi["sender"][i]
  BY <1>3, <1>5, <1>8, <1>9, Longer
<1>11. /\ rsi'["receiver"] \in Seq([Tests -> Vectors]) /\ Len(rsi'["receiver"]) = R + 1
       /\ rsi'["receiver"][R + 1] = y /\ \A i \in 1..R : rsi'["receiver"][i] = rsi["receiver"][i]
  BY <1>3, <1>5, <1>8, <1>9, Longer
<1>12. /\ abi'["sender"] \in Seq([Tests -> Vectors]) /\ Len(abi'["sender"]) = R + 1
       /\ abi'["sender"][R + 1] = a /\ \A i \in 1..R : abi'["sender"][i] = abi["sender"][i]
  BY <1>3, <1>5, <1>8, <1>9, Longer
<1>13. /\ abi'["receiver"] \in Seq([Tests -> Vectors]) /\ Len(abi'["receiver"]) = R + 1
       /\ abi'["receiver"][R + 1] = b /\ \A i \in 1..R : abi'["receiver"][i] = abi["receiver"][i]
  BY <1>3, <1>5, <1>8, <1>9, Longer
<1>14. Prepared' = R + 1 /\ Tests' = Tests /\ Vectors' = Vectors
  BY <1>4, <1>10 DEF Prepared, Tests, Vectors
<1>15. PICK n : n = CeilLog2(size + 1)
  OBVIOUS
<1>16. n \in 1..params.length
  <2>0. params.length \in Nat /\ size \in Nat \ {0}
    BY <1>3, <1>7, ParamsAre
  <2>1. CeilLog2(size + 1) \in 1..size
    BY <2>0, NextSize
  <2> QED
    BY <1>7, <1>15, <2>0, <2>1
<1>17. PICK G : G = [i \in 0..(R + 1) |-> IF i = R + 1 THEN n ELSE F[i]]
  OBVIOUS
<1>18. G[R + 1] = n /\ \A i \in 0..R : G[i] = F[i]
  BY <1>6, <1>17
<1>19. Sizes(G)'
  <2>1. F \in [0..R -> 1..params.length] /\ F[0] = params.length
        /\ \A i \in 1..R : F[i - 1] > params.threshold /\ F[i] = CeilLog2(F[i - 1] + 1)
    BY <1>1, <1>2 DEF Sizes
  <2>2. G \in [0..(R + 1) -> 1..params.length]
    <3>1. \A i \in 0..(R + 1) : i = R + 1 \/ i \in 0..R
      BY <1>6
    <3> QED
      BY <1>16, <1>17, <2>1, <3>1
  <2>3. G[0] = params.length
    BY <1>6, <1>18, <2>1
  <2>4. ASSUME NEW i \in 1..(R + 1) PROVE G[i - 1] > params.threshold /\ G[i] = CeilLog2(G[i - 1] + 1)
    <3>1. CASE i = R + 1
      <4>1. G[i - 1] = F[R] /\ G[i] = n
        BY <1>6, <1>18, <3>1
      <4> QED
        BY <1>3, <1>15, <4>1
    <3>2. CASE i # R + 1
      <4>1. i \in 1..R /\ i \in 0..R /\ i - 1 \in 0..R
        BY <1>6, <3>2
      <4> QED
        BY <1>18, <2>1, <4>1
    <3> QED
      BY <3>1, <3>2
  <2> QED
    BY <1>4, <1>14, <2>2, <2>3, <2>4 DEF Sizes
<1>20. TypesOK'
  <2>1. DOMAIN rsi' = Sides /\ DOMAIN abi' = Sides
    BY <1>8 DEF Sides
  <2>2. /\ rsi' = [s \in Sides |-> rsi'[s]] /\ abi' = [s \in Sides |-> abi'[s]]
    BY <1>8 DEF Sides
  <2>3. \A s \in Sides : /\ rsi'[s] \in Seq([Tests -> Vectors]) /\ abi'[s] \in Seq([Tests -> Vectors])
                         /\ Len(rsi'[s]) = R + 1 /\ Len(abi'[s]) = R + 1
    BY <1>10, <1>11, <1>12, <1>13 DEF Sides
  <2>4. rsi' \in [Sides -> Seq([Tests -> Vectors])] /\ abi' \in [Sides -> Seq([Tests -> Vectors])]
    BY <2>2, <2>3
  <2>5. round' \in 0..(R + 1)
    BY <1>3, <1>4, <1>6
  <2> QED
    BY <1>3, <1>4, <1>14, <2>3, <2>4, <2>5 DEF TypesOK
<1>21. MasksInv(G)'
  <2> SUFFICES ASSUME NEW i \in 1..(R + 1), NEW t \in Tests
               PROVE  MasksOf(G[i - 1], abi'["sender"][i][t], abi'["receiver"][i][t],
                                        rsi'["sender"][i][t], rsi'["receiver"][i][t])
    BY <1>14 DEF MasksInv
  <2>1. CASE i = R + 1
    <3>1. G[i - 1] = size
      BY <1>3, <1>6, <1>18, <2>1
    <3> QED
      BY <1>8, <1>10, <1>11, <1>12, <1>13, <2>1, <3>1
  <2>2. CASE i # R + 1
    <3>1. i \in 1..R /\ i - 1 \in 0..R
      BY <1>6, <2>2
    <3>2. MasksOf(F[i - 1], abi["sender"][i][t], abi["receiver"][i][t],
                            rsi["sender"][i][t], rsi["receiver"][i][t])
      BY <1>1, <1>2, <3>1 DEF MasksInv
    <3> QED
      BY <1>10, <1>11, <1>12, <1>13, <1>18, <3>1, <3>2
  <2> QED
    BY <2>1, <2>2
<1>22. SharesInv(G)'
  <2>1. G[round'] = F[round]
    BY <1>3, <1>4, <1>6, <1>18
  <2> QED
    BY <1>1, <1>4, <1>14, <2>1 DEF SharesInv
<1>23. PhaseInv(G)'
  BY <1>3, <1>4, <1>14, <1>15, <1>18 DEF PhaseInv
<1>24. EqualityKept'
  BY <1>1, <1>4, <1>14 DEF EqualityKept
<1> QED
  BY <1>19, <1>20, <1>21, <1>22, <1>23, <1>24 DEF RoundsInv, InvF

\* What leaves the masks and the shares alone.
LEMMA RoundsSame ==
  ASSUME NEW F, InvF(F), UNCHANGED <<params, round, input, share, rsi, abi>>,
         phase' \in {"prepare", "run", "done", "error"}
  PROVE  TypesOK' /\ Sizes(F)' /\ MasksInv(F)' /\ SharesInv(F)' /\ EqualityKept' /\ Prepared' = Prepared
<1>1. Prepared' = Prepared /\ Tests' = Tests /\ Vectors' = Vectors
  BY DEF Prepared, Tests, Vectors
<1>2. TypesOK /\ Sizes(F) /\ MasksInv(F) /\ SharesInv(F) /\ EqualityKept
  BY DEF InvF
<1>3. TypesOK'
  BY <1>1, <1>2 DEF TypesOK
<1>4. Sizes(F)' /\ MasksInv(F)'
  BY <1>1, <1>2 DEF Sizes, MasksInv
<1>5. SharesInv(F)' /\ EqualityKept'
  BY <1>1, <1>2 DEF SharesInv, EqualityKept
<1> QED
  BY <1>1, <1>3, <1>4, <1>5

LEMMA QuietKeeps ==
  RoundsInv /\ (ProductSharing \/ ThresholdError \/ CrossTerms \/ UNCHANGED vars) => RoundsInv'
<1> SUFFICES ASSUME NEW F, InvF(F), ProductSharing \/ ThresholdError \/ CrossTerms \/ UNCHANGED vars
             PROVE  RoundsInv'
  BY DEF RoundsInv
<1>1. TypesOK /\ Sizes(F) /\ PhaseInv(F)
  BY DEF InvF
<1>2. /\ UNCHANGED <<params, round, input, share, rsi, abi>>
      /\ phase' \in {"prepare", "run", "done", "error"}
  BY <1>1 DEF ProductSharing, ThresholdError, CrossTerms, vars, TypesOK
<1>3. TypesOK' /\ Sizes(F)' /\ MasksInv(F)' /\ SharesInv(F)' /\ EqualityKept' /\ Prepared' = Prepared
  BY <1>2, RoundsSame
<1>4. PhaseInv(F)'
  <2>1. CASE ProductSharing
    <3>1. phase = "prepare" /\ size <= params.threshold /\ phase' = "run" /\ size' = params.length
      BY <2>1 DEF ProductSharing
    <3>2. round = 0 /\ size = F[Prepared] /\ F[0] = params.length
      BY <1>1, <3>1 DEF PhaseInv, Sizes
    <3> QED
      BY <1>2, <1>3, <3>1, <3>2 DEF PhaseInv
  <2>2. CASE ThresholdError
    BY <1>1, <1>2, <1>3, <2>2 DEF PhaseInv, ThresholdError
  <2>3. CASE CrossTerms
    BY <1>1, <1>2, <1>3, <2>3 DEF PhaseInv, CrossTerms
  <2>4. CASE UNCHANGED vars
    BY <1>1, <1>3, <2>4 DEF PhaseInv, vars
  <2> QED
    BY <2>1, <2>2, <2>3, <2>4
<1> QED
  BY <1>3, <1>4 DEF RoundsInv, InvF

\* What a side writes at the place of bit l of test t.
LEMMA MaskedIs ==
  ASSUME params \in ParamSet, size \in Nat \ {0}, NEW s, NEW t \in Tests, NEW l \in 0..(size - 1)
  PROVE  Masked(s)[size * t + l] = xor(Bit(share[s][t], l), rsi[s][round + 1][t][l])
<1>1. params.tests \in Nat /\ t \in 0..(params.tests - 1)
  BY ParamsAre
<1>2. PICK q : q = size * t + l
  OBVIOUS
<1>3. q \in 0..(size * params.tests - 1) /\ q \div size = t /\ q % size = l
  BY <1>1, <1>2, PlaceOf
<1>4. Masked(s)[q] = xor(reduced(s, t)[l], rsi[s][round + 1][t][l])
  BY <1>3 DEF Masked, Below
<1>5. reduced(s, t)[l] = Bit(share[s][t], l)
  BY DEF reduced, fromUInt, Below, Bit
<1> QED
  BY <1>2, <1>4, <1>5

\* The bits of the share of a side.
BitsOf(s, t) == [l \in 0..(size - 1) |-> Bit(share[s][t], l)]

LEMMA RoundIs ==
  ASSUME params \in ParamSet, size \in Nat \ {0}, ReduceRound, NEW t \in Tests
  PROVE  \E z : /\ Seen(size, z, BitsOf("sender", t), BitsOf("receiver", t),
                        rsi["sender"][round + 1][t], rsi["receiver"][round + 1][t])
                /\ \A s \in Sides : share'[s][t] = NextShare(s, z, abi[s][round + 1][t], size)
<1> DEFINE zt(x, u) == [l \in Below(size) |-> xor(x["sender"][size * u + l], x["receiver"][size * u + l])]
<1>1. PICK x : x = [s \in Sides |-> Masked(s)]
  OBVIOUS
<1>2. share' = [s \in Sides |-> [u \in Tests |-> NextShare(s, zt(x, u), abi[s][round + 1][u], size)]]
  BY <1>1 DEF ReduceRound
<1>3. PICK z : z = zt(x, t)
  OBVIOUS
<1>4. \A s \in Sides : share'[s][t] = NextShare(s, z, abi[s][round + 1][t], size)
  <2> HIDE DEF zt
  <2> QED
    BY <1>2, <1>3
<1>5. Seen(size, z, BitsOf("sender", t), BitsOf("receiver", t),
           rsi["sender"][round + 1][t], rsi["receiver"][round + 1][t])
  <2>1. ASSUME NEW l \in 0..(size - 1)
        PROVE  xor(x["sender"][size * t + l], x["receiver"][size * t + l]) =
                 xor(xor(BitsOf("sender", t)[l], rsi["sender"][round + 1][t][l]),
                     xor(BitsOf("receiver", t)[l], rsi["receiver"][round + 1][t][l]))
    <3>1. /\ Masked("sender")[size * t + l] = xor(Bit(share["sender"][t], l), rsi["sender"][round + 1][t][l])
          /\ Masked("receiver")[size * t + l] = xor(Bit(share["receiver"][t], l), rsi["receiver"][round + 1][t][l])
      BY MaskedIs
    <3>2. x["sender"] = Masked("sender") /\ x["receiver"] = Masked("receiver")
      BY <1>1 DEF Sides
    <3>3. BitsOf("sender", t)[l] = Bit(share["sender"][t], l) /\ BitsOf("receiver", t)[l] = Bit(share["receiver"][t], l)
      BY DEF BitsOf
    <3> QED
      BY <3>1, <3>2, <3>3
  <2>2. z = [l \in 0..(size - 1) |-> xor(x["sender"][size * t + l], x["receiver"][size * t + l])]
    BY <1>3 DEF Below
  <2> QED
    BY <2>1, <2>2 DEF Seen
<1> QED
  BY <1>4, <1>5

\* The round that comes next has been prepared, for its size.
LEMMA RoundPrepared ==
  ASSUME NEW F, InvF(F), phase = "run", size > params.threshold
  PROVE  /\ params \in ParamSet /\ round \in 0..(Prepared - 1) /\ size = F[round]
         /\ size \in 1..params.length /\ size \in Nat \ {0} /\ F[round + 1] = CeilLog2(size + 1)
         /\ \A t \in Tests :
              MasksOf(size, abi["sender"][round + 1][t], abi["receiver"][round + 1][t],
                            rsi["sender"][round + 1][t], rsi["receiver"][round + 1][t])
<1>1. TypesOK /\ Sizes(F) /\ MasksInv(F) /\ PhaseInv(F)
  BY DEF InvF
<1>2. PICK R : R = Prepared
  OBVIOUS
<1>3. params \in ParamSet /\ round \in 0..R /\ size = F[round] /\ F[R] <= params.threshold
  BY <1>1, <1>2 DEF TypesOK, PhaseInv
<1>4. R \in Nat
  <2>1. rsi["sender"] \in Seq([Tests -> Vectors])
    BY <1>1 DEF TypesOK, Sides
  <2> QED
    BY <1>2, <2>1, LenProperties DEF Prepared
<1>5. size \in 1..params.length /\ params.length \in Nat /\ params.threshold \in Nat
  BY <1>1, <1>2, <1>3, ParamsAre DEF Sizes
<1>6. size \in Nat \ {0} /\ round # R
  BY <1>3, <1>5
<1>7. round \in 0..(R - 1) /\ round + 1 \in 1..R /\ (round + 1) - 1 = round
  BY <1>3, <1>4, <1>6
<1>8. F[round + 1] = CeilLog2(size + 1)
  <2>1. \A i \in 1..R : F[i] = CeilLog2(F[i - 1] + 1)
    BY <1>1, <1>2 DEF Sizes
  <2> QED
    BY <1>3, <1>7, <2>1
<1>9. ASSUME NEW t \in Tests
      PROVE  MasksOf(size, abi["sender"][round + 1][t], abi["receiver"][round + 1][t],
                            rsi["sender"][round + 1][t], rsi["receiver"][round + 1][t])
  BY <1>1, <1>2, <1>3, <1>7 DEF MasksInv
<1> QED
  BY <1>2, <1>3, <1>5, <1>6, <1>7, <1>8, <1>9

LEMMA RoundKeeps == RoundsInv /\ ReduceRound => RoundsInv'
<1> SUFFICES ASSUME NEW F, InvF(F), ReduceRound PROVE RoundsInv'
  BY DEF RoundsInv
<1>1. TypesOK /\ Sizes(F) /\ MasksInv(F) /\ SharesInv(F) /\ PhaseInv(F) /\ EqualityKept
  BY DEF InvF
<1>2. phase = "run" /\ size > params.threshold
  BY DEF ReduceRound
<1>3. /\ UNCHANGED <<params, phase, input, rsi, abi>>
      /\ size' = CeilLog2(size + 1) /\ round' = round + 1
  BY DEF ReduceRound
<1>4. /\ params \in ParamSet /\ round \in 0..(Prepared - 1) /\ size = F[round]
      /\ size \in 1..params.length /\ size \in Nat \ {0} /\ F[round + 1] = CeilLog2(size + 1)
      /\ \A t \in Tests :
           MasksOf(size, abi["sender"][round + 1][t], abi["receiver"][round + 1][t],
                         rsi["sender"][round + 1][t], rsi["receiver"][round + 1][t])
  BY <1>2, RoundPrepared
<1>5. Prepared' = Prepared /\ Tests' = Tests /\ Vectors' = Vectors
  BY <1>3 DEF Prepared, Tests, Vectors
<1>6. TypesOK' /\ Sizes(F)' /\ MasksInv(F)'
  <2>1. PICK R : R = Prepared
    OBVIOUS
  <2>2. R \in Nat
    <3>1. rsi["sender"] \in Seq([Tests -> Vectors])
      BY <1>1 DEF TypesOK, Sides
    <3> QED
      BY <2>1, <3>1, LenProperties DEF Prepared
  <2>3. round' \in 0..Prepared
    BY <1>3, <1>4, <2>1, <2>2
  <2> QED
    BY <1>1, <1>3, <1>5, <2>3 DEF TypesOK, Sizes, MasksInv
<1>7. ASSUME NEW t \in Tests
      PROVE  /\ share'["sender"][t] \in 0..size /\ share'["receiver"][t] \in 0..size
             /\ share'["sender"][t] = share'["receiver"][t] <=> share["sender"][t] = share["receiver"][t]
  <2>1. PICK p, q, a, b : /\ p = rsi["sender"][round + 1][t] /\ q = rsi["receiver"][round + 1][t]
                          /\ a = abi["sender"][round + 1][t] /\ b = abi["receiver"][round + 1][t]
    OBVIOUS
  <2>2. MasksOf(size, a, b, p, q)
    BY <1>4, <2>1
  <2>3. PICK z : /\ Seen(size, z, BitsOf("sender", t), BitsOf("receiver", t), p, q)
                 /\ \A s \in Sides : share'[s][t] = NextShare(s, z, abi[s][round + 1][t], size)
    BY <1>4, <2>1, RoundIs
  <2>4. share'["sender"][t] = NextShare("sender", z, a, size) /\ share'["receiver"][t] = NextShare("receiver", z, b, size)
    BY <2>1, <2>3 DEF Sides
  <2>5. PICK n, m : n = share["sender"][t] /\ m = share["receiver"][t]
    OBVIOUS
  <2>6. n \in 0..(2^size - 1) /\ m \in 0..(2^size - 1)
    BY <1>1, <1>4, <2>5 DEF SharesInv, Sides
  <2>7. n \in Nat /\ m \in Nat
    BY <2>6
  <2>8. PICK u, v : u = BitsOf("sender", t) /\ v = BitsOf("receiver", t)
    OBVIOUS
  <2>9. u \in [0..(size - 1) -> {0, 1}] /\ v \in [0..(size - 1) -> {0, 1}]
    <3>1. \A l \in 0..(size - 1) : Bit(n, l) \in {0, 1} /\ Bit(m, l) \in {0, 1}
      BY <2>7, BitType
    <3> QED
      BY <2>5, <2>8, <3>1 DEF BitsOf
  <2>10. (\A l \in 0..(size - 1) : u[l] = v[l]) <=> n = m
    <3>1. SameTo(size, n, m) <=> n = m
      BY <1>4, <2>6, BitsDetermine
    <3>2. \A l \in 0..(size - 1) : u[l] = Bit(n, l) /\ v[l] = Bit(m, l)
      BY <2>5, <2>8 DEF BitsOf
    <3> QED
      BY <3>1, <3>2 DEF SameTo
  <2>11. /\ NextShare("sender", z, a, size) \in 0..size
         /\ NextShare("receiver", z, b, size) \in 0..size
         /\ NextShare("sender", z, a, size) = NextShare("receiver", z, b, size)
              <=> \A l \in 0..(size - 1) : u[l] = v[l]
    <3>1. Seen(size, z, u, v, p, q)
      BY <2>3, <2>8
    <3>2. size \in Nat \ {0}
      BY <1>4
    <3>3. MasksOf(size, a, b, p, q)
      BY <2>2
    <3> QED
      BY <3>2, <3>3, <2>9, <3>1, SharesOfRound
  <2> QED
    BY <2>4, <2>5, <2>10, <2>11
<1>8. SharesInv(F)'
  <2>1. PICK n, c : n = CeilLog2(size + 1) /\ c = 2^n
    OBVIOUS
  <2>2. c >= size + 1 /\ n \in Nat /\ c \in Nat /\ size \in Nat
    <3>1. n \in 1..size /\ c >= size + 1
      BY <1>4, <2>1, NextSize
    <3> QED
      BY <1>4, <2>1, <3>1, Powers
  <2>3. 0..size \subseteq 0..(c - 1)
    BY <2>2
  <2>4. \A s \in Sides : share'[s] \in [Tests -> 0..size]
    <3>1. share' = [s \in Sides |-> share'[s]] /\ \A s \in Sides : share'[s] = [t \in Tests |-> share'[s][t]]
      BY DEF ReduceRound
    <3>2. \A s \in Sides : \A t \in Tests : share'[s][t] \in 0..size
      BY <1>7 DEF Sides
    <3> QED
      BY <3>1, <3>2
  <2>5. share' \in [Sides -> [Tests -> 0..(c - 1)]]
    <3>1. share' = [s \in Sides |-> share'[s]]
      BY DEF ReduceRound
    <3>2. \A s \in Sides : share'[s] \in [Tests -> 0..(c - 1)]
      BY <2>3, <2>4
    <3> QED
      BY <3>1, <3>2
  <2>6. 2^F[round'] = c
    BY <1>3, <1>4, <2>1
  <2> QED
    BY <1>1, <1>3, <1>5, <2>5, <2>6 DEF SharesInv
<1>9. PhaseInv(F)'
  BY <1>1, <1>2, <1>3, <1>4, <1>5 DEF PhaseInv
<1>10. EqualityKept'
  BY <1>1, <1>3, <1>5, <1>7 DEF EqualityKept
<1> QED
  BY <1>6, <1>8, <1>9, <1>10 DEF RoundsInv, InvF

-----------------------------------------------------------------------------
\* The rounds, of every run: the sizes of the rounds are those that CeilLog2
\* gives, the masks of each fit together, and the shares are equal just when the
\* inputs are.
THEOREM RoundsCorrect == Spec => []RoundsInv
<1>1. RoundsInv /\ [Next]_vars => RoundsInv'
  <2> SUFFICES ASSUME RoundsInv, [Next]_vars PROVE RoundsInv'
    OBVIOUS
  <2>1. CASE SizeReduction
    BY <2>1, ReductionKeeps
  <2>2. CASE ReduceRound
    BY <2>2, RoundKeeps
  <2>3. CASE ProductSharing \/ ThresholdError \/ CrossTerms \/ UNCHANGED vars
    BY <2>3, QuietKeeps
  <2>4. CASE Stop
    BY <2>4, QuietKeeps DEF Stop
  <2> QED
    BY <2>1, <2>2, <2>3, <2>4 DEF Next
<1> QED
  BY RoundsStart, <1>1, PTL DEF Spec

\* Whatever is drawn, and for every length: what the two sides get from a size
\* reduction adds up, modulo the size of the round plus one, to the exclusive or
\* of the bits that hide the inputs (EqTest::sizeReduction).
THEOREM MasksFit == Spec => []ReductionMasks
<1>1. RoundsInv => ReductionMasks
  <2> SUFFICES ASSUME NEW F, InvF(F), NEW i \in DOMAIN rsi["sender"], NEW t \in Tests
               PROVE  LET j == Cardinality(DOMAIN rsi["sender"][i][t])
                      IN  \A l \in Below(j) :
                            (abi["sender"][i][t][l] + abi["receiver"][i][t][l]) % (j + 1) =
                              xor(rsi["sender"][i][t][l], rsi["receiver"][i][t][l])
    BY DEF RoundsInv, ReductionMasks
  <2>1. TypesOK /\ Sizes(F) /\ MasksInv(F)
    BY DEF InvF
  <2>2. PICK R : R = Prepared
    OBVIOUS
  <2>3. rsi["sender"] \in Seq([Tests -> Vectors])
    BY <2>1 DEF TypesOK, Sides
  <2>4. R \in Nat /\ i \in 1..R
    BY <2>2, <2>3, LenProperties DEF Prepared
  <2>5. PICK j : j = F[i - 1]
    OBVIOUS
  <2>6. j \in Nat \ {0}
    <3>1. i - 1 \in 0..R
      BY <2>4
    <3>2. j \in 1..params.length
      BY <2>1, <2>2, <2>5, <3>1 DEF Sizes
    <3> QED
      BY <3>2
  <2>7. MasksOf(j, abi["sender"][i][t], abi["receiver"][i][t], rsi["sender"][i][t], rsi["receiver"][i][t])
    BY <2>1, <2>2, <2>4, <2>5 DEF MasksInv
  <2>8. DOMAIN rsi["sender"][i][t] = 0..(j - 1)
    BY <2>7 DEF MasksOf
  <2>9. Cardinality(0..(j - 1)) = j
    <3>1. Cardinality(0..(j - 1)) = (j - 1) - 0 + 1
      BY <2>6, FS_Interval
    <3> QED
      BY <2>6, <3>1
  <2>10. \A l \in 0..(j - 1) : (abi["sender"][i][t][l] + abi["receiver"][i][t][l]) % (j + 1) =
                                 xor(rsi["sender"][i][t][l], rsi["receiver"][i][t][l])
    BY <2>7 DEF MasksOf
  <2> QED
    BY Zenon, <2>8, <2>9, <2>10 DEF Below
<1> QED
  BY <1>1, RoundsCorrect, PTL

\* However many rounds run() takes, the shares of a test are equal after each just
\* when its inputs are (the loop over `i` of EqTest::run).
THEOREM RoundsKeepEquality == Spec => []EqualityKept
<1>1. RoundsInv => EqualityKept
  BY DEF RoundsInv, InvF
<1> QED
  BY <1>1, RoundsCorrect, PTL

\* With the threshold of PCGParams, or a smaller one, run() throws "threshold
\* error" for no input but one that is shorter than the threshold to begin with.
THEOREM ThresholdReached == Spec => []ThresholdMet
<1>1. RoundsInv => ThresholdMet
  <2> SUFFICES ASSUME NEW F, InvF(F), phase = "error", ~(params.threshold > 3)
               PROVE  params.length < params.threshold
    BY DEF RoundsInv, ThresholdMet
  <2>1. TypesOK /\ Sizes(F) /\ PhaseInv(F)
    BY DEF InvF
  <2>2. params \in ParamSet /\ round \in 0..Prepared /\ size = F[round] /\ size < params.threshold
    BY <2>1 DEF TypesOK, PhaseInv
  <2>3. params.threshold \in {2, 3}
    <3>1. params.threshold \in Nat \ {0, 1}
      BY <2>2, ParamsAre
    <3> QED
      BY <3>1
  <2>4. round = 0
    <3> SUFFICES ASSUME round # 0 PROVE FALSE
      OBVIOUS
    <3>1. PICK R : R = Prepared
      OBVIOUS
    <3>2. R \in Nat
      <4>1. rsi["sender"] \in Seq([Tests -> Vectors])
        BY <2>1 DEF TypesOK, Sides
      <4> QED
        BY <3>1, <4>1, LenProperties DEF Prepared
    <3>3. round \in 1..R /\ round - 1 \in 0..R
      BY <2>2, <3>1, <3>2
    <3>4. PICK j : j = F[round - 1]
      OBVIOUS
    <3>5. j \in 1..params.length /\ j > params.threshold /\ size = CeilLog2(j + 1)
      BY <2>1, <2>2, <3>1, <3>3, <3>4 DEF Sizes
    <3>6. j \in Nat \ {0} /\ j > params.threshold
      BY <3>5
    <3>7. CeilLog2(j + 1) \in 1..j /\ (j > 2 => CeilLog2(j + 1) >= 2) /\ (j > 3 => CeilLog2(j + 1) >= 3)
      BY <3>6, NextSize
    <3>8. size \in Nat /\ (j > 2 => size >= 2) /\ (j > 3 => size >= 3)
      BY <3>5, <3>7
    <3> QED
      BY <2>2, <2>3, <3>6, <3>8
  <2> QED
    BY <2>1, <2>2, <2>4 DEF Sizes
<1> QED
  BY <1>1, RoundsCorrect, PTL


-----------------------------------------------------------------------------
\* The subsets of the bits.  One is met by u and v if u is 0 at each of its bits
\* and v is 1 at each of the others.
Both(n, u, v, k) == \A l \in 0..(n - 1) : IF Bit(k, l) = 1 THEN u[l] = 0 ELSE v[l] = 1
Subsets(n, u, v) == [k \in 0..(2^n - 1) |-> Bool(Both(n, u, v, k))]
Same(n, u, v) == \A l \in 0..(n - 1) : u[l] = v[l]
Shifted(n, u) == [l \in 0..(n - 1) |-> u[l + 1]]

LEMMA BothSplits ==
  ASSUME NEW n \in Nat, NEW u, NEW v, NEW m \in Nat, NEW b \in {0, 1}
  PROVE  Both(n + 1, u, v, 2 * m + b) <=>
           (IF b = 1 THEN u[0] = 0 ELSE v[0] = 1) /\ Both(n, Shifted(n, u), Shifted(n, v), m)
<1>1. PICK k : k = 2 * m + b
  OBVIOUS
<1>2. k \in Nat /\ k \div 2 = m /\ k % 2 = b
  BY <1>1
<1>3. Bit(k, 0) = b /\ \A l \in Nat : Bit(k, l + 1) = Bit(m, l)
  BY <1>2, HalfBits
<1>4. \A l \in 0..(n - 1) : Shifted(n, u)[l] = u[l + 1] /\ Shifted(n, v)[l] = v[l + 1]
  BY DEF Shifted
<1>5. ASSUME Both(n + 1, u, v, k)
      PROVE  (IF b = 1 THEN u[0] = 0 ELSE v[0] = 1) /\ Both(n, Shifted(n, u), Shifted(n, v), m)
  <2>1. 0 \in 0..((n + 1) - 1)
    OBVIOUS
  <2>2. IF b = 1 THEN u[0] = 0 ELSE v[0] = 1
    BY <1>3, <1>5, <2>1 DEF Both
  <2>3. ASSUME NEW l \in 0..(n - 1)
        PROVE  IF Bit(m, l) = 1 THEN Shifted(n, u)[l] = 0 ELSE Shifted(n, v)[l] = 1
    <3>1. l \in Nat /\ l + 1 \in 0..((n + 1) - 1)
      OBVIOUS
    <3>2. IF Bit(k, l + 1) = 1 THEN u[l + 1] = 0 ELSE v[l + 1] = 1
      BY <1>5, <3>1 DEF Both
    <3> QED
      BY <1>3, <1>4, <3>1, <3>2
  <2> QED
    BY <2>2, <2>3 DEF Both
<1>6. ASSUME IF b = 1 THEN u[0] = 0 ELSE v[0] = 1, Both(n, Shifted(n, u), Shifted(n, v), m)
      PROVE  Both(n + 1, u, v, k)
  <2> SUFFICES ASSUME NEW l \in 0..((n + 1) - 1) PROVE IF Bit(k, l) = 1 THEN u[l] = 0 ELSE v[l] = 1
    BY DEF Both
  <2>1. CASE l = 0
    BY <1>3, <1>6, <2>1
  <2>2. CASE l # 0
    <3>1. PICK i : i = l - 1
      OBVIOUS
    <3>2. i \in 0..(n - 1) /\ i \in Nat /\ l = i + 1
      BY <2>2, <3>1
    <3>3. IF Bit(m, i) = 1 THEN Shifted(n, u)[i] = 0 ELSE Shifted(n, v)[i] = 1
      BY <1>6, <3>2 DEF Both
    <3> QED
      BY <1>3, <1>4, <3>2, <3>3
  <2> QED
    BY <2>1, <2>2
<1> QED
  BY <1>1, <1>5, <1>6

\* The values of a vector of numbers 0 and 1.
LEMMA SubsetsAre ==
  ASSUME NEW n \in Nat, NEW u, NEW v
  PROVE  /\ 2^n \in Nat \ {0} /\ Values(Subsets(n, u, v), 2^n)
         /\ \A k \in 0..(2^n - 1) : Subsets(n, u, v)[k] = Bool(Both(n, u, v, k))
         /\ \A k \in 0..(2^n - 1) : Subsets(n, u, v)[k] \in {0, 1}
<1>1. PICK p : p = 2^n
  OBVIOUS
<1>2. p \in Nat \ {0}
  BY <1>1, Powers
<1>3. \A k \in 0..(p - 1) : Subsets(n, u, v)[k] = Bool(Both(n, u, v, k))
  BY <1>1 DEF Subsets
<1>4. \A k \in 0..(p - 1) : Bool(Both(n, u, v, k)) \in {0, 1}
  BY DEF Bool
<1>5. Subsets(n, u, v) \in [0..(p - 1) -> Int]
  <2>1. \A k \in 0..(p - 1) : Bool(Both(n, u, v, k)) \in Int
    BY <1>4
  <2> QED
    BY <1>1, <2>1 DEF Subsets
<1> QED
  BY <1>1, <1>2, <1>3, <1>4, <1>5 DEF Values

\* Two sums of which one takes in two steps what the other takes in one, c times.
Times(c, x, y) ==
  \/ c = 0 /\ x = 0
  \/ c = 1 /\ x = y
  \/ c = 2 /\ x = 2 * y

LEMMA TimesStep ==
  ASSUME NEW a \in {0, 1}, NEW b \in {0, 1}, NEW y \in {0, 1}, NEW x \in Int, NEW z \in Int,
         NEW c, c = 1 + b - a, Times(c, x, z),
         NEW w, w = x + (IF b = 1 THEN y ELSE 0) + (IF a = 0 THEN y ELSE 0)
  PROVE  Times(c, w, z + y)
<1>1. CASE a = 1 /\ b = 0
  <2>1. c = 0 /\ w = x + 0 + 0
    BY <1>1
  <2> QED
    BY <2>1 DEF Times
<1>2. CASE a = b
  <2>1. c = 1 /\ w = x + y
    BY <1>2
  <2> QED
    BY <2>1 DEF Times
<1>3. CASE a = 0 /\ b = 1
  <2>1. c = 2 /\ w = x + y + y
    BY <1>3
  <2>2. x = 2 * z
    BY <2>1 DEF Times
  <2>3. w = 2 * (z + y)
    BY <2>1, <2>2
  <2> QED
    BY <2>1, <2>3 DEF Times
<1> QED
  BY <1>1, <1>2, <1>3

LEMMA SubsetsHalve ==
  ASSUME NEW n \in Nat, NEW u \in [0..n -> {0, 1}], NEW v \in [0..n -> {0, 1}]
  PROVE  Times(1 + v[0] - u[0], SumFunction(Subsets(n + 1, u, v)),
                                SumFunction(Subsets(n, Shifted(n, u), Shifted(n, v))))
<1>1. PICK f, g : f = Subsets(n + 1, u, v) /\ g = Subsets(n, Shifted(n, u), Shifted(n, v))
  OBVIOUS
<1>2. PICK p : p = 2^n
  OBVIOUS
<1>3. p \in Nat \ {0} /\ 2^(n + 1) = 2 * p
  BY <1>2, Powers
<1>4. /\ Values(f, 2 * p) /\ \A k \in 0..(2 * p - 1) : f[k] = Bool(Both(n + 1, u, v, k))
      /\ Values(g, p) /\ \A k \in 0..(p - 1) : g[k] = Bool(Both(n, Shifted(n, u), Shifted(n, v), k))
      /\ \A k \in 0..(p - 1) : g[k] \in {0, 1}
  <2>1. n + 1 \in Nat
    OBVIOUS
  <2>2. Values(f, 2 * p) /\ \A k \in 0..(2 * p - 1) : f[k] = Bool(Both(n + 1, u, v, k))
    <3>1. /\ Values(Subsets(n + 1, u, v), 2^(n + 1))
          /\ \A k \in 0..(2^(n + 1) - 1) : Subsets(n + 1, u, v)[k] = Bool(Both(n + 1, u, v, k))
      BY <2>1, SubsetsAre
    <3> QED
      BY <1>1, <1>3, <3>1
  <2>3. /\ Values(g, p) /\ \A k \in 0..(p - 1) : g[k] = Bool(Both(n, Shifted(n, u), Shifted(n, v), k))
        /\ \A k \in 0..(p - 1) : g[k] \in {0, 1}
    <3>1. PICK x, y : x = Shifted(n, u) /\ y = Shifted(n, v)
      OBVIOUS
    <3>2. /\ Values(Subsets(n, x, y), 2^n)
          /\ \A k \in 0..(2^n - 1) : Subsets(n, x, y)[k] = Bool(Both(n, x, y, k))
          /\ \A k \in 0..(2^n - 1) : Subsets(n, x, y)[k] \in {0, 1}
      BY SubsetsAre
    <3> QED
      BY <1>1, <1>2, <3>1, <3>2
  <2> QED
    BY <2>2, <2>3
<1>5. PICK G : Runs(G, f, 2 * p) /\ G[2 * p] = SumFunction(f)
  BY <1>4, SumRuns DEF SumIs
<1>6. PICK H : Runs(H, g, p) /\ H[p] = SumFunction(g)
  BY <1>4, SumRuns DEF SumIs
<1>7. PICK a, b : a = u[0] /\ b = v[0]
  OBVIOUS
<1>8. a \in {0, 1} /\ b \in {0, 1}
  BY <1>7
<1>9. PICK c : c = 1 + b - a
  OBVIOUS
<1> DEFINE S == {m \in 0..p : Times(c, G[2 * m], H[m])}
<1>10. 0 \in S
  <2>1. G[0] = 0 /\ H[0] = 0 /\ 2 * 0 = 0
    BY <1>5, <1>6 DEF Runs
  <2>2. c \in {0, 1, 2}
    BY <1>8, <1>9
  <2>3. Times(c, 0, 0)
    BY <2>2 DEF Times
  <2> QED
    BY <1>3, <2>1, <2>3
<1>11. ASSUME NEW m \in 0..(p - 1), m \in S PROVE m + 1 \in S
  <2>1. /\ m \in Nat /\ 2 * m \in 0..(2 * p - 1) /\ 2 * m + 1 \in 0..(2 * p - 1)
        /\ (2 * m + 1) + 1 = 2 * (m + 1) /\ m + 1 \in 0..p
    BY <1>3
  <2>2. G[2 * m + 1] = G[2 * m] + f[2 * m] /\ G[2 * (m + 1)] = G[2 * m + 1] + f[2 * m + 1]
    <3>1. \A k \in 0..(2 * p - 1) : G[k + 1] = G[k] + f[k]
      BY <1>5 DEF Runs
    <3> QED
      BY <2>1, <3>1
  <2>3. H[m + 1] = H[m] + g[m]
    BY <1>6 DEF Runs
  <2>4. G[2 * m] \in Int /\ H[m] \in Int
    <3>1. m \in 0..p /\ 2 * m \in 0..(2 * p)
      BY <1>3
    <3> QED
      BY <1>5, <1>6, <3>1 DEF Runs
  <2>5. PICK y \in {0, 1} : y = g[m]
    BY <1>4
  <2>6. y = 1 <=> Both(n, Shifted(n, u), Shifted(n, v), m)
    BY <1>4, <2>5 DEF Bool
  <2>7. f[2 * m] = IF b = 1 THEN y ELSE 0
    <3>1. PICK e \in {0, 1} : e = 0
      OBVIOUS
    <3>2. Both(n + 1, u, v, 2 * m + e) <=>
            (IF e = 1 THEN u[0] = 0 ELSE v[0] = 1) /\ Both(n, Shifted(n, u), Shifted(n, v), m)
      BY <2>1, BothSplits
    <3>3. 2 * m + e = 2 * m
      BY <2>1, <3>1
    <3>4. Both(n + 1, u, v, 2 * m) <=> v[0] = 1 /\ Both(n, Shifted(n, u), Shifted(n, v), m)
      BY <3>1, <3>2, <3>3
    <3>5. f[2 * m] = Bool(b = 1 /\ y = 1)
      BY <1>4, <1>7, <2>1, <2>6, <3>4 DEF Bool
    <3> QED
      BY <2>5, <3>5 DEF Bool
  <2>8. f[2 * m + 1] = IF a = 0 THEN y ELSE 0
    <3>1. Both(n + 1, u, v, 2 * m + 1) <=> u[0] = 0 /\ Both(n, Shifted(n, u), Shifted(n, v), m)
      BY <2>1, BothSplits
    <3>2. f[2 * m + 1] = Bool(a = 0 /\ y = 1)
      BY <1>4, <1>7, <2>1, <2>6, <3>1 DEF Bool
    <3> QED
      BY <2>5, <3>2 DEF Bool
  <2>9. PICK x, z, w : x = G[2 * m] /\ z = H[m] /\ w = G[2 * (m + 1)]
    OBVIOUS
  <2>10. w = x + (IF b = 1 THEN y ELSE 0) + (IF a = 0 THEN y ELSE 0)
    BY <2>2, <2>4, <2>5, <2>7, <2>8, <2>9
  <2>11. Times(c, x, z)
    BY <1>11, <2>9
  <2>12. x \in Int /\ z \in Int
    BY <2>4, <2>9
  <2>13. Times(c, w, z + y)
    BY <1>8, <1>9, <2>5, <2>10, <2>11, <2>12, TimesStep
  <2> QED
    BY <2>1, <2>3, <2>5, <2>9, <2>13
<1> HIDE DEF S
<1>12. 0..p \subseteq S
  BY Zenon, <1>3, <1>10, <1>11, IntervalInduction
<1>13. p \in S
  BY <1>3, <1>12
<1> QED
  BY <1>1, <1>5, <1>6, <1>7, <1>9, <1>13 DEF S

\* The number of subsets that are met is odd just when u and v are the same.
LEMMA SubsetsOdd ==
  ASSUME NEW n \in Nat, NEW u \in [0..(n - 1) -> {0, 1}], NEW v \in [0..(n - 1) -> {0, 1}]
  PROVE  /\ SumFunction(Subsets(n, u, v)) \in Nat
         /\ SumFunction(Subsets(n, u, v)) % 2 = Bool(Same(n, u, v))
<1> DEFINE S == {m \in Nat : \A x, y \in [0..(m - 1) -> {0, 1}] :
                   SumFunction(Subsets(m, x, y)) % 2 = Bool(Same(m, x, y))}
<1>1. ASSUME NEW m \in Nat, NEW x, NEW y PROVE SumFunction(Subsets(m, x, y)) \in Nat
  <2>1. /\ Values(Subsets(m, x, y), 2^m)
        /\ \A k \in 0..(2^m - 1) : Subsets(m, x, y)[k] \in {0, 1}
    BY SubsetsAre
  <2>2. \A k \in 0..(2^m - 1) : Subsets(m, x, y)[k] \in Nat
    BY <2>1
  <2> QED
    BY <2>1, <2>2, SumOfNats
<1>2. 0 \in S
  <2> SUFFICES ASSUME NEW x, NEW y PROVE SumFunction(Subsets(0, x, y)) % 2 = Bool(Same(0, x, y))
    OBVIOUS
  <2>1. Both(0, x, y, 0) /\ Same(0, x, y)
    BY DEF Both, Same
  <2>2. PICK f : f = Subsets(0, x, y)
    OBVIOUS
  <2>3. Values(f, 1) /\ f[0] = 1
    <3>1. 2^0 = 1
      BY Powers
    <3>2. PICK e \in Nat : e = 0
      OBVIOUS
    <3>3. /\ Values(Subsets(e, x, y), 2^e)
          /\ \A k \in 0..(2^e - 1) : Subsets(e, x, y)[k] = Bool(Both(e, x, y, k))
      BY SubsetsAre
    <3>4. Values(f, 1) /\ \A k \in 0..(1 - 1) : f[k] = Bool(Both(0, x, y, k))
      BY <2>2, <3>1, <3>2, <3>3
    <3>5. 0 \in 0..(1 - 1)
      OBVIOUS
    <3> QED
      BY <2>1, <3>4, <3>5 DEF Bool
  <2>4. SumFunction(f) = 1
    <3>1. PICK G : Runs(G, f, 1) /\ G[1] = SumFunction(f)
      BY <2>3, SumRuns DEF SumIs
    <3>2. G[0 + 1] = G[0] + f[0] /\ G[0] = 0
      BY <3>1 DEF Runs
    <3> QED
      BY <2>3, <3>1, <3>2
  <2> QED
    BY <2>1, <2>2, <2>4 DEF Bool
<1>3. ASSUME NEW m \in Nat, m \in S PROVE m + 1 \in S
  <2> SUFFICES ASSUME NEW x \in [0..m -> {0, 1}], NEW y \in [0..m -> {0, 1}]
               PROVE  SumFunction(Subsets(m + 1, x, y)) % 2 = Bool(Same(m + 1, x, y))
    OBVIOUS
  <2>1. PICK x1, y1 : x1 = Shifted(m, x) /\ y1 = Shifted(m, y)
    OBVIOUS
  <2>2. x1 \in [0..(m - 1) -> {0, 1}] /\ y1 \in [0..(m - 1) -> {0, 1}]
    BY <2>1 DEF Shifted
  <2>3. PICK P, Q : P = SumFunction(Subsets(m + 1, x, y)) /\ Q = SumFunction(Subsets(m, x1, y1))
    OBVIOUS
  <2>4. P \in Nat /\ Q \in Nat
    <3>1. m + 1 \in Nat
      OBVIOUS
    <3> QED
      BY <1>1, <2>3, <3>1
  <2>5. Q % 2 = Bool(Same(m, x1, y1))
    BY <1>3, <2>2, <2>3
  <2>6. Times(1 + y[0] - x[0], P, Q)
    BY <2>1, <2>3, SubsetsHalve
  <2>7. x[0] \in {0, 1} /\ y[0] \in {0, 1}
    OBVIOUS
  <2>8. Same(m + 1, x, y) <=> x[0] = y[0] /\ Same(m, x1, y1)
    <3>1. \A l \in 0..(m - 1) : x1[l] = x[l + 1] /\ y1[l] = y[l + 1] /\ l + 1 \in 0..m
      BY <2>1 DEF Shifted
    <3>2. ASSUME Same(m + 1, x, y) PROVE x[0] = y[0] /\ Same(m, x1, y1)
      <4>1. \A l \in 0..m : x[l] = y[l]
        BY <3>2 DEF Same
      <4> QED
        BY <3>1, <4>1 DEF Same
    <3>3. ASSUME x[0] = y[0], Same(m, x1, y1) PROVE Same(m + 1, x, y)
      <4> SUFFICES ASSUME NEW l \in 0..m PROVE x[l] = y[l]
        BY DEF Same
      <4>1. PICK i : i = l - 1
        OBVIOUS
      <4>2. l = 0 \/ (i \in 0..(m - 1) /\ l = i + 1)
        BY <4>1
      <4>3. \A k \in 0..(m - 1) : x1[k] = y1[k]
        BY <3>3 DEF Same
      <4> QED
        BY <3>1, <3>3, <4>2, <4>3
    <3> QED
      BY <3>2, <3>3
  <2>9. PICK a, b : a = x[0] /\ b = y[0]
    OBVIOUS
  <2>10. a \in {0, 1} /\ b \in {0, 1} /\ Times(1 + b - a, P, Q)
    BY <2>6, <2>7, <2>9
  <2>11. P % 2 = IF a = b THEN Q % 2 ELSE 0
    <3>1. CASE a = b
      <4>1. P = Q
        BY <2>10, <3>1 DEF Times
      <4> QED
        BY <3>1, <4>1
    <3>2. CASE a # b
      <4>1. P = 0 \/ P = 2 * Q
        BY <2>4, <2>10, <3>2 DEF Times
      <4>2. PICK h \in Nat : h = IF P = 0 THEN 0 ELSE Q
        BY <2>4
      <4>3. P = h * 2 + 0 /\ 0 \in 0..(2 - 1) /\ 2 \in Nat \ {0}
        BY <2>4, <4>1, <4>2
      <4>4. P % 2 = 0
        BY <4>3, DividesAs
      <4> QED
        BY <3>2, <4>4
    <3> QED
      BY <3>1, <3>2
  <2> QED
    BY <2>3, <2>5, <2>8, <2>9, <2>11 DEF Bool
<1> HIDE DEF S
<1>4. n \in S
  BY <1>2, <1>3, SetInduction
<1> QED
  BY <1>1, <1>4 DEF S

\* The empty subset and the full one.
LEMMA BitsOfZero ==
  ASSUME NEW l \in Nat
  PROVE  Bit(0, l) = 0
<1>1. PICK p : p = 2^l
  OBVIOUS
<1>2. p \in Nat \ {0}
  BY <1>1, Powers
<1>3. PICK z \in Nat : z = 0
  OBVIOUS
<1>4. z = z * p + z /\ z \in 0..(p - 1)
  BY <1>2, <1>3
<1>5. z \div p = z
  BY <1>2, <1>4, DividesAs
<1>6. Bit(z, l) = z % 2
  BY <1>1, <1>5 DEF Bit
<1> QED
  BY <1>3, <1>6

LEMMA BitsOfOnes ==
  ASSUME NEW n \in Nat, NEW l \in 0..(n - 1)
  PROVE  Bit(2^n - 1, l) = 1
<1> DEFINE S == {m \in Nat : \A i \in 0..(m - 1) : Bit(2^m - 1, i) = 1}
<1>1. 0 \in S
  OBVIOUS
<1>2. ASSUME NEW m \in Nat, m \in S PROVE m + 1 \in S
  <2>1. PICK p : p = 2^m
    OBVIOUS
  <2>2. p \in Nat \ {0} /\ 2^(m + 1) = 2 * p
    BY <2>1, Powers
  <2>3. PICK k, h : k = 2 * p - 1 /\ h = p - 1
    OBVIOUS
  <2>4. k \in Nat /\ k \div 2 = h /\ k % 2 = 1
    BY <2>2, <2>3
  <2>5. Bit(k, 0) = 1 /\ \A i \in Nat : Bit(k, i + 1) = Bit(h, i)
    BY <2>4, HalfBits
  <2>6. \A i \in 0..(m - 1) : Bit(h, i) = 1
    BY <1>2, <2>1, <2>3
  <2>7. ASSUME NEW i \in 0..((m + 1) - 1) PROVE Bit(k, i) = 1
    <3>1. CASE i = 0
      BY <2>5, <3>1
    <3>2. CASE i # 0
      <4>1. PICK j : j = i - 1
        OBVIOUS
      <4>2. j \in 0..(m - 1) /\ j \in Nat /\ i = j + 1
        BY <3>2, <4>1
      <4> QED
        BY <2>5, <2>6, <4>2
    <3> QED
      BY <3>1, <3>2
  <2>8. 2^(m + 1) - 1 = k
    BY <2>2, <2>3
  <2> QED
    BY <2>7, <2>8
<1> HIDE DEF S
<1>3. n \in S
  BY <1>1, <1>2, SetInduction
<1> QED
  BY <1>3 DEF S

SameParity(a, b) == a % 2 = b % 2

LEMMA ParityAdd ==
  ASSUME NEW i \in Nat, NEW w \in Nat, NEW j \in Nat, NEW y \in Nat,
         SameParity(i, w), SameParity(j, y)
  PROVE  SameParity(i + j, w + y)
<1>1. PICK a, b, c, d : a = i \div 2 /\ b = w \div 2 /\ c = j \div 2 /\ d = y \div 2
  OBVIOUS
<1>2. PICK p, q : p = i % 2 /\ q = j % 2
  OBVIOUS
<1>3. /\ a \in Nat /\ b \in Nat /\ c \in Nat /\ d \in Nat /\ p \in {0, 1} /\ q \in {0, 1}
      /\ i = 2 * a + p /\ w = 2 * b + p /\ j = 2 * c + q /\ y = 2 * d + q
  BY <1>1, <1>2 DEF SameParity
<1> QED
  BY <1>3 DEF SameParity

\* The subsets between them give the parity too, with what the sides know of these.
InnerParts(n, u, v, c, f, g) ==
  /\ c = 2^n - 2 /\ Values(f, c) /\ Values(g, c)
  /\ \A k \in 0..(c - 1) : f[k] \in {0, 1} /\ g[k] \in {0, 1}
  /\ \A k \in 0..(c - 1) : (f[k] + g[k]) % 2 = Bool(Both(n, u, v, k + 1))

InnerOdd(n, u, v, f, g) ==
  /\ SumFunction(f) \in Nat /\ SumFunction(g) \in Nat
  /\ (Bool(\A l \in 0..(n - 1) : u[l] = 0) + Bool(\A l \in 0..(n - 1) : v[l] = 1)
        + SumFunction(f) + SumFunction(g)) % 2 = Bool(Same(n, u, v))

LEMMA InnerSum ==
  ASSUME NEW n \in Nat \ {0}, NEW u \in [0..(n - 1) -> {0, 1}], NEW v \in [0..(n - 1) -> {0, 1}],
         NEW c, NEW f, NEW g, InnerParts(n, u, v, c, f, g)
  PROVE  InnerOdd(n, u, v, f, g)
<1>0. /\ c = 2^n - 2 /\ Values(f, c) /\ Values(g, c)
      /\ \A k \in 0..(c - 1) : f[k] \in {0, 1} /\ g[k] \in {0, 1}
      /\ \A k \in 0..(c - 1) : (f[k] + g[k]) % 2 = Bool(Both(n, u, v, k + 1))
  BY DEF InnerParts
<1>1. PICK p : p = 2^n
  OBVIOUS
<1>2. p \in Nat /\ p >= 2 /\ c = p - 2 /\ c \in Nat /\ p - 1 = c + 1
  <2>1. p >= n + 1 /\ p \in Nat
    BY <1>1, Powers, PowersGrow
  <2>2. c = p - 2
    BY <1>0, <1>1
  <2> QED
    BY <2>1, <2>2
<1>3. PICK h : h = Subsets(n, u, v)
  OBVIOUS
<1>4. /\ Values(h, p) /\ \A k \in 0..(p - 1) : h[k] = Bool(Both(n, u, v, k))
      /\ \A k \in 0..(p - 1) : h[k] \in {0, 1}
  BY <1>1, <1>3, SubsetsAre
<1>5. SumFunction(h) \in Nat /\ SumFunction(h) % 2 = Bool(Same(n, u, v))
  BY <1>3, SubsetsOdd
<1>6. PICK F : Runs(F, f, c) /\ F[c] = SumFunction(f)
  BY <1>0, SumRuns DEF SumIs
<1>7. PICK G : Runs(G, g, c) /\ G[c] = SumFunction(g)
  BY <1>0, SumRuns DEF SumIs
<1>8. PICK H : Runs(H, h, p) /\ H[p] = SumFunction(h)
  BY <1>4, SumRuns DEF SumIs
<1>9. PICK e, d : e = h[0] /\ d = h[c + 1]
  OBVIOUS
<1> DEFINE S == {k \in 0..c : /\ F[k] \in Nat /\ G[k] \in Nat /\ H[k + 1] \in Nat
                              /\ (F[k] + G[k] + e) % 2 = H[k + 1] % 2}
<1>10. e \in {0, 1} /\ d \in {0, 1}
  <2>1. 0 \in 0..(p - 1) /\ c + 1 \in 0..(p - 1)
    BY <1>2
  <2> QED
    BY <1>4, <1>9, <2>1
<1>11. 0 \in S
  <2>1. F[0] = 0 /\ G[0] = 0 /\ H[0] = 0
    BY <1>6, <1>7, <1>8 DEF Runs
  <2>2. 0 \in 0..(p - 1)
    BY <1>2
  <2>3. H[0 + 1] = H[0] + h[0]
    BY <1>8, <2>2 DEF Runs
  <2>4. H[0 + 1] = e
    BY <1>9, <1>10, <2>1, <2>3
  <2>5. (F[0] + G[0] + e) % 2 = H[0 + 1] % 2
    BY <1>10, <2>1, <2>4
  <2>6. 0 \in 0..c /\ F[0] \in Nat /\ G[0] \in Nat /\ H[0 + 1] \in Nat
    BY <1>2, <1>10, <2>1, <2>4
  <2> QED
    BY <2>5, <2>6
<1>12. ASSUME NEW k \in 0..(c - 1), k \in S PROVE k + 1 \in S
  <2>1. k \in Nat /\ k + 1 \in 0..c /\ k + 1 \in 0..(p - 1)
    BY <1>2
  <2>2. F[k + 1] = F[k] + f[k] /\ G[k + 1] = G[k] + g[k]
    BY <1>6, <1>7 DEF Runs
  <2>3. H[(k + 1) + 1] = H[k + 1] + h[k + 1]
    BY <1>8, <2>1 DEF Runs
  <2>4. (f[k] + g[k]) % 2 = h[k + 1]
    BY <1>0, <1>4, <2>1
  <2>5. PICK a, b, y : a = f[k] /\ b = g[k] /\ y = h[k + 1]
    OBVIOUS
  <2>6. a \in {0, 1} /\ b \in {0, 1} /\ y = (a + b) % 2
    BY <1>0, <2>4, <2>5
  <2>7. PICK x, z, w : x = F[k] /\ z = G[k] /\ w = H[k + 1]
    OBVIOUS
  <2>8. x \in Nat /\ z \in Nat /\ w \in Nat /\ (x + z + e) % 2 = w % 2
    BY <1>12, <2>7
  <2>9. y \in {0, 1} /\ (x + a) + (z + b) + e \in Nat /\ ((x + a) + (z + b) + e) % 2 = (w + y) % 2
    <3>1. PICK i, j : i = x + z + e /\ j = a + b
      OBVIOUS
    <3>2. i \in Nat /\ j \in {0, 1, 2} /\ w \in Nat /\ i % 2 = w % 2 /\ y = j % 2
      BY <1>10, <2>6, <2>8, <3>1
    <3>3. SameParity(i, w) /\ SameParity(j, y) /\ y \in {0, 1}
      BY <3>2 DEF SameParity
    <3>4. SameParity(i + j, w + y)
      <4>1. i \in Nat /\ w \in Nat /\ j \in Nat /\ y \in Nat
        BY <3>2, <3>3
      <4>2. SameParity(i, w) /\ SameParity(j, y)
        BY <3>3
      <4> QED
        BY Zenon, <4>1, <4>2, ParityAdd
    <3>5. y \in {0, 1} /\ (i + j) % 2 = (w + y) % 2
      BY <3>3, <3>4 DEF SameParity
    <3>6. (x + a) + (z + b) + e = i + j
      BY <1>10, <2>6, <2>8, <3>1
    <3> QED
      BY <3>2, <3>5, <3>6
  <2>10. F[k + 1] = x + a /\ G[k + 1] = z + b /\ H[(k + 1) + 1] = w + y
    BY <2>2, <2>3, <2>5, <2>7
  <2>11. x + a \in Nat /\ z + b \in Nat /\ w + y \in Nat
    BY <2>6, <2>8, <2>9
  <2> QED
    BY <2>1, <2>9, <2>10, <2>11
<1> HIDE DEF S
<1>13. 0..c \subseteq S
  BY Zenon, <1>2, <1>11, <1>12, IntervalInduction
<1>14. c \in S
  BY <1>2, <1>13
<1>15. PICK x, z, w : x = SumFunction(f) /\ z = SumFunction(g) /\ w = SumFunction(h)
  OBVIOUS
<1>16. x \in Nat /\ z \in Nat /\ w \in Nat /\ (x + z + e + d) % 2 = w % 2
  <2>1. x \in Nat /\ z \in Nat /\ H[c + 1] \in Nat /\ (x + z + e) % 2 = H[c + 1] % 2
    BY <1>6, <1>7, <1>14, <1>15 DEF S
  <2>2. H[(c + 1) + 1] = H[c + 1] + h[c + 1]
    <3>1. c + 1 \in 0..(p - 1)
      BY <1>2
    <3> QED
      BY <1>8, <3>1 DEF Runs
  <2>3. (c + 1) + 1 = p
    BY <1>2
  <2>4. PICK q : q = H[c + 1]
    OBVIOUS
  <2>5. w = q + d /\ q \in Nat /\ (x + z + e) % 2 = q % 2
    BY <1>8, <1>9, <1>15, <2>1, <2>2, <2>3, <2>4
  <2> QED
    BY <1>10, <2>1, <2>5
<1>17. e = Bool(\A l \in 0..(n - 1) : v[l] = 1)
  <2>1. \A l \in 0..(n - 1) : Bit(0, l) = 0
    BY BitsOfZero
  <2>2. Both(n, u, v, 0) <=> \A l \in 0..(n - 1) : v[l] = 1
    BY <2>1 DEF Both
  <2>3. 0 \in 0..(p - 1)
    BY <1>2
  <2> QED
    BY <1>4, <1>9, <2>2, <2>3 DEF Bool
<1>18. d = Bool(\A l \in 0..(n - 1) : u[l] = 0)
  <2>1. c + 1 = p - 1 /\ c + 1 \in 0..(p - 1)
    BY <1>2
  <2>2. \A l \in 0..(n - 1) : Bit(2^n - 1, l) = 1
    BY BitsOfOnes
  <2>3. \A l \in 0..(n - 1) : Bit(c + 1, l) = 1
    BY <1>1, <2>1, <2>2
  <2>4. Both(n, u, v, c + 1) <=> \A l \in 0..(n - 1) : u[l] = 0
    BY <2>3 DEF Both
  <2> QED
    BY <1>4, <1>9, <2>1, <2>4 DEF Bool
<1>19. (d + e + x + z) % 2 = w % 2
  BY <1>10, <1>16
<1> QED
  BY <1>5, <1>15, <1>16, <1>17, <1>18, <1>19 DEF InnerOdd

-----------------------------------------------------------------------------
\* What productSharing leaves: random bits, of which the receiver's sharing is
\* the sender's, or that and the sender's bit if its own choice is 1.
CrossInv ==
  phase # "prepare" =>
    \A t \in Tests, k \in 0..(Cross - 1) :
      /\ rs["sender"][t][k] \in {0, 1} /\ rs["receiver"][t][k] \in {0, 1}
      /\ ab["sender"][t][k] \in {0, 1}
      /\ ab["receiver"][t][k] = IF rs["receiver"][t][k] = 1
                                THEN xor(ab["sender"][t][k], rs["sender"][t][k])
                                ELSE ab["sender"][t][k]

\* The bits that are drawn for the cross terms.
LEMMA CrossIs ==
  ASSUME params \in ParamSet
  PROVE  /\ Cross \in Nat \ {0}
         /\ \A x \in Draw(Cross, 2) : x \in [0..(Cross - 1) -> {0, 1}]
         /\ \A x \in Draw(Cross * params.tests, 2) : x \in [0..(Cross * params.tests - 1) -> {0, 1}]
         /\ \A x \in Draw(params.tests, 2) : x \in [0..(params.tests - 1) -> {0, 1}]
<1>1. PICK L, T, c, n : L = params.length /\ T = params.tests /\ c = 2^params.threshold /\ n = Cross
  OBVIOUS
<1>2. L \in Nat \ {0} /\ T \in Nat \ {0} /\ c \in Nat /\ n = c - 2 /\ c >= 3
  <2>1. params.threshold \in Nat \ {0, 1}
    BY ParamsAre
  <2>2. 2^params.threshold >= params.threshold + 1 /\ 2^params.threshold \in Nat
    BY <2>1, Powers, PowersGrow
  <2>3. c \in Nat /\ c >= 3
    BY <1>1, <2>1, <2>2
  <2> QED
    BY <1>1, <2>3, ParamsAre DEF Cross
<1>3. \A i \in 0..(T * (L + c)), m \in 2..(L + 1) : Draw(i, m) \subseteq [0..(i - 1) -> 0..(m - 1)]
  BY <1>1, DrawAssumption
<1>4. n * T \in Nat /\ n * T <= T * (L + c) /\ n <= T * (L + c) /\ T <= T * (L + c)
  <2>1. n * T <= (L + c) * T /\ (L + c) * T = T * (L + c) /\ n * T \in Nat
    BY <1>2
  <2>2. n <= n * T
    BY <1>2
  <2>3. T * 1 <= T * (L + c) /\ T * 1 = T
    BY <1>2
  <2> QED
    BY <1>2, <2>1, <2>2, <2>3
<1>5. n \in 0..(T * (L + c)) /\ n * T \in 0..(T * (L + c)) /\ T \in 0..(T * (L + c)) /\ 2 \in 2..(L + 1)
  <2>1. T * (L + c) \in Nat
    BY <1>2
  <2> QED
    BY <1>2, <1>4, <2>1
<1>6. 0..(2 - 1) = {0, 1}
  OBVIOUS
<1>7. Draw(n, 2) \subseteq [0..(n - 1) -> 0..(2 - 1)]
  BY Zenon, <1>3, <1>5
<1>8. Draw(n * T, 2) \subseteq [0..(n * T - 1) -> 0..(2 - 1)]
  BY Zenon, <1>3, <1>5
<1>9. Draw(T, 2) \subseteq [0..(T - 1) -> 0..(2 - 1)]
  BY Zenon, <1>3, <1>5
<1>10. n \in Nat \ {0}
  BY <1>2
<1> QED
  BY <1>1, <1>6, <1>7, <1>8, <1>9, <1>10

LEMMA CrossStarts ==
  ASSUME params \in ParamSet, ProductSharing
  PROVE  CrossInv'
<1>1. /\ Cross \in Nat \ {0}
      /\ \A x \in Draw(Cross, 2) : x \in [0..(Cross - 1) -> {0, 1}]
      /\ \A x \in Draw(Cross * params.tests, 2) : x \in [0..(Cross * params.tests - 1) -> {0, 1}]
  BY CrossIs
<1> DEFINE slice(w, t) == [k \in 0..(Cross - 1) |-> w[t * Cross + k]]
           got(x, a, w, t) == [k \in 0..(Cross - 1) |->
             IF slice(w, t)[k] = 1 THEN xor(a[t][k], x[t][k]) ELSE a[t][k]]
<1>2. PICK x \in [Tests -> Draw(Cross, 2)], a \in [Tests -> Draw(Cross, 2)], w \in Draw(Cross * params.tests, 2) :
        /\ rs' = [sender |-> x, receiver |-> [t \in Tests |-> slice(w, t)]]
        /\ ab' = [sender |-> a, receiver |-> [t \in Tests |-> got(x, a, w, t)]]
  BY DEF ProductSharing, Below
<1>3. UNCHANGED params
  BY DEF ProductSharing
<1>4. Tests' = Tests /\ Cross' = Cross
  BY <1>3 DEF Tests, Cross
<1>5. ASSUME NEW t \in Tests, NEW k \in 0..(Cross - 1)
      PROVE  /\ x[t][k] \in {0, 1} /\ a[t][k] \in {0, 1} /\ slice(w, t)[k] \in {0, 1}
  <2>1. x[t] \in [0..(Cross - 1) -> {0, 1}] /\ a[t] \in [0..(Cross - 1) -> {0, 1}]
    BY <1>1, <1>2
  <2>2. w \in [0..(Cross * params.tests - 1) -> {0, 1}]
    BY <1>1, <1>2
  <2>3. t \in 0..(params.tests - 1) /\ params.tests \in Nat
    BY ParamsAre
  <2>4. t * Cross + k \in 0..(Cross * params.tests - 1)
    BY <1>1, <2>3, PlaceOf
  <2>5. w[t * Cross + k] \in {0, 1}
    BY <2>2, <2>4
  <2> QED
    BY <2>1, <2>5
<1>6. ASSUME NEW t \in Tests, NEW k \in 0..(Cross - 1)
      PROVE  /\ rs'["sender"][t][k] = x[t][k] /\ rs'["receiver"][t][k] = slice(w, t)[k]
             /\ ab'["sender"][t][k] = a[t][k]
             /\ ab'["receiver"][t][k] = IF slice(w, t)[k] = 1 THEN xor(a[t][k], x[t][k]) ELSE a[t][k]
  <2>1. got(x, a, w, t)[k] = IF slice(w, t)[k] = 1 THEN xor(a[t][k], x[t][k]) ELSE a[t][k]
    OBVIOUS
  <2> HIDE DEF slice, got
  <2> QED
    BY <1>2, <2>1
<1> HIDE DEF slice, got
<1> QED
  BY <1>4, <1>5, <1>6 DEF CrossInv

LEMMA CrossKeeps ==
  ASSUME params \in ParamSet, CrossInv, [Next]_vars
  PROVE  CrossInv'
<1>1. CASE ProductSharing
  BY <1>1, CrossStarts
<1>2. CASE SizeReduction
  <2>1. phase' = "prepare"
    BY <1>2 DEF SizeReduction
  <2> QED
    BY <2>1 DEF CrossInv
<1>3. CASE ReduceRound \/ ThresholdError \/ CrossTerms \/ Stop \/ UNCHANGED vars
  <2>1. UNCHANGED <<params, rs, ab>> /\ (phase = "prepare" => phase' = "prepare")
    BY <1>3 DEF ReduceRound, ThresholdError, CrossTerms, Stop, vars
  <2>2. Tests' = Tests /\ Cross' = Cross
    BY <2>1 DEF Tests, Cross
  <2> QED
    BY <2>1, <2>2 DEF CrossInv
<1> QED
  BY <1>1, <1>2, <1>3 DEF Next

-----------------------------------------------------------------------------
\* One cross term: the two sides' parts add up to the product of their bits.
TermParts(x, y, p, q, a, b, f, g) ==
  /\ b = IF q = 1 THEN xor(a, p) ELSE a
  /\ f = xor(a, xor(y, q) * x) /\ g = xor(b, xor(x, p) * q)

LEMMA OneTerm ==
  ASSUME NEW x \in {0, 1}, NEW y \in {0, 1}, NEW p \in {0, 1}, NEW q \in {0, 1}, NEW a \in {0, 1},
         NEW b, NEW f, NEW g, TermParts(x, y, p, q, a, b, f, g)
  PROVE  f \in {0, 1} /\ g \in {0, 1} /\ (f + g) % 2 = Bool(x = 1 /\ y = 1)
<1>0. /\ b = IF q = 1 THEN xor(a, p) ELSE a
      /\ f = xor(a, xor(y, q) * x) /\ g = xor(b, xor(x, p) * q)
  BY DEF TermParts
<1>1. PICK c, d : c = xor(y, q) /\ d = xor(x, p)
  OBVIOUS
<1>2. c \in {0, 1} /\ d \in {0, 1} /\ c = (IF y = q THEN 0 ELSE 1) /\ d = (IF x = p THEN 0 ELSE 1)
  BY <1>1, XorIs
<1>3. b \in {0, 1} /\ b = (IF q = 1 /\ p = 1 THEN 1 - a ELSE a)
  <2>1. xor(a, p) = IF a = p THEN 0 ELSE 1
    BY XorIs
  <2> QED
    BY <1>0, <2>1
<1>4. c * x = (IF x = 1 THEN c ELSE 0) /\ d * q = (IF q = 1 THEN d ELSE 0)
  BY <1>2
<1>5. f = (IF a = (IF x = 1 THEN c ELSE 0) THEN 0 ELSE 1)
  <2>1. PICK e \in {0, 1} : e = IF x = 1 THEN c ELSE 0
    BY <1>2
  <2>2. f = xor(a, e)
    BY <1>0, <1>1, <1>4, <2>1
  <2> QED
    BY <2>1, <2>2, XorIs
<1>6. g = (IF b = (IF q = 1 THEN d ELSE 0) THEN 0 ELSE 1)
  <2>1. PICK e \in {0, 1} : e = IF q = 1 THEN d ELSE 0
    BY <1>2
  <2>2. g = xor(b, e)
    BY <1>0, <1>1, <1>4, <2>1
  <2> QED
    BY <1>3, <2>1, <2>2, XorIs
<1>7. f \in {0, 1} /\ g \in {0, 1} /\ (f = g <=> ~(x = 1 /\ y = 1))
  BY <1>2, <1>3, <1>5, <1>6
<1> QED
  BY <1>7 DEF Bool

\* The factors of the two sides for a subset, and their terms without the other.
FactorsFit(t, u, v) ==
  /\ \A k \in Nat, s \in Sides : Factor(s, t, k) \in {0, 1}
  /\ \A k \in Nat : (Factor("sender", t, k) = 1 /\ Factor("receiver", t, k) = 1) <=> Both(size, u, v, k)
  /\ Base("sender", t) = Bool(\A l \in 0..(size - 1) : u[l] = 0)
  /\ Base("receiver", t) = Bool(\A l \in 0..(size - 1) : v[l] = 1)

LEMMA FactorsAre ==
  ASSUME params \in ParamSet, size = params.threshold, NEW t \in Tests,
         NEW u, NEW v, u = BitsOf("sender", t), v = BitsOf("receiver", t)
  PROVE  FactorsFit(t, u, v)
<1>1. \A l \in 0..(size - 1) : reduced("sender", t)[l] = u[l] /\ reduced("receiver", t)[l] = v[l]
  BY DEF reduced, fromUInt, Below, Bit, BitsOf
<1>2. Below(params.threshold) = 0..(size - 1)
  BY DEF Below
<1>3. ASSUME NEW k \in Nat
      PROVE  /\ Factor("sender", t, k) = Bool(\A l \in 0..(size - 1) : Bit(k, l) = 1 => u[l] = 0)
             /\ Factor("receiver", t, k) = Bool(\A l \in 0..(size - 1) : Bit(k, l) # 1 => v[l] = 1)
  <2>1. (\A l \in 0..(size - 1) : HasBit(k, l) => reduced("sender", t)[l] = 0) <=>
          \A l \in 0..(size - 1) : Bit(k, l) = 1 => u[l] = 0
    BY <1>1 DEF HasBit, Bit
  <2>2. (\A l \in 0..(size - 1) : ~HasBit(k, l) => reduced("receiver", t)[l] = 1) <=>
          \A l \in 0..(size - 1) : Bit(k, l) # 1 => v[l] = 1
    BY <1>1 DEF HasBit, Bit
  <2> QED
    BY <1>2, <2>1, <2>2 DEF Factor, Bool
<1>4. \A k \in Nat, s \in Sides : Factor(s, t, k) \in {0, 1}
  BY DEF Factor, Bool
<1>5. ASSUME NEW k \in Nat
      PROVE  (Factor("sender", t, k) = 1 /\ Factor("receiver", t, k) = 1) <=> Both(size, u, v, k)
  <2>1. (Factor("sender", t, k) = 1 /\ Factor("receiver", t, k) = 1) <=>
          /\ \A l \in 0..(size - 1) : Bit(k, l) = 1 => u[l] = 0
          /\ \A l \in 0..(size - 1) : Bit(k, l) # 1 => v[l] = 1
    BY <1>3 DEF Bool
  <2> QED
    BY <2>1 DEF Both
<1>6. Base("sender", t) = Bool(\A l \in 0..(size - 1) : u[l] = 0)
  BY <1>1, <1>2 DEF Base, Bool
<1>7. Base("receiver", t) = Bool(\A l \in 0..(size - 1) : v[l] = 1)
  BY <1>1, <1>2 DEF Base, Bool
<1> QED
  BY <1>4, <1>5, <1>6, <1>7 DEF FactorsFit

\* What crosses over: the masked factors, then a random bit for each test.
Alpha(r) ==
  [s \in Sides |-> [q \in Below(Cross * params.tests + params.tests) |->
     IF q >= Cross * params.tests THEN r[s][q - Cross * params.tests]
     ELSE xor(Factor(s, q \div Cross, (q % Cross) + 1), rs[s][q \div Cross][q % Cross])]]

TermOf(s, t, k, beta) ==
  xor(ab[s][t][k], beta[StartBit(t) + k] * (IF s = "sender" THEN Factor(s, t, k + 1) ELSE rs[s][t][k]))

LEMMA AlphaIs ==
  ASSUME params \in ParamSet, NEW r \in [Sides -> Draw(params.tests, 2)], NEW s \in Sides, NEW t \in Tests
  PROVE  /\ Alpha(r)[s][Cross * params.tests + t] \in {0, 1}
         /\ \A k \in 0..(Cross - 1) :
              Alpha(r)[s][StartBit(t) + k] = xor(Factor(s, t, k + 1), rs[s][t][k])
<1>1. /\ Cross \in Nat \ {0} /\ \A x \in Draw(params.tests, 2) : x \in [0..(params.tests - 1) -> {0, 1}]
  BY CrossIs
<1>2. PICK n, T, m : n = Cross /\ T = params.tests /\ m = Cross * params.tests
  OBVIOUS
<1>3. n \in Nat \ {0} /\ T \in Nat \ {0} /\ t \in 0..(T - 1) /\ m \in Nat /\ m = n * T
  <2>1. n \in Nat \ {0} /\ T \in Nat \ {0} /\ t \in 0..(T - 1) /\ m = n * T
    BY <1>1, <1>2, ParamsAre
  <2>2. n * T \in Nat
    BY <2>1
  <2> QED
    BY <2>1, <2>2
<1>4. ASSUME NEW q \in 0..(m + T - 1)
      PROVE  Alpha(r)[s][q] = IF q >= m THEN r[s][q - m]
                              ELSE xor(Factor(s, q \div n, (q % n) + 1), rs[s][q \div n][q % n])
  <2>1. q \in Below(Cross * params.tests + params.tests)
    <3>1. 0..(m + T - 1) = 0..((m + T) - 1)
      BY <1>3
    <3> QED
      BY <1>2, <3>1 DEF Below
  <2>2. Alpha(r)[s][q] = IF q >= Cross * params.tests THEN r[s][q - Cross * params.tests]
                         ELSE xor(Factor(s, q \div Cross, (q % Cross) + 1), rs[s][q \div Cross][q % Cross])
    BY Zenon, <2>1 DEF Alpha
  <2> QED
    BY <1>2, <2>2
<1>5. Alpha(r)[s][m + t] \in {0, 1}
  <2>1. PICK q : q = m + t
    OBVIOUS
  <2>2. q \in 0..(m + T - 1) /\ q >= m /\ q - m = t
    BY <1>3, <2>1
  <2>3. Alpha(r)[s][q] = r[s][t]
    BY <1>4, <2>2
  <2>4. r[s] \in [0..(T - 1) -> {0, 1}]
    BY <1>1, <1>2
  <2> QED
    BY <1>3, <2>1, <2>3, <2>4
<1>6. ASSUME NEW k \in 0..(n - 1)
      PROVE  Alpha(r)[s][StartBit(t) + k] = xor(Factor(s, t, k + 1), rs[s][t][k])
  <2>1. PICK q : q = t * n + k
    OBVIOUS
  <2>2. q \in 0..(m - 1) /\ q \div n = t /\ q % n = k
    BY <1>3, <2>1, PlaceOf
  <2>3. q \in 0..(m + T - 1) /\ ~(q >= m)
    BY <1>3, <2>2
  <2>4. Alpha(r)[s][q] = xor(Factor(s, q \div n, (q % n) + 1), rs[s][q \div n][q % n])
    BY <1>4, <2>3
  <2>5. StartBit(t) + k = q
    BY <1>2, <2>1 DEF StartBit
  <2> QED
    BY <2>2, <2>4, <2>5
<1> QED
  BY <1>2, <1>5, <1>6

\* For a test, what the two sides put out is the parity of all the subsets.
LEMMA CrossTermsIs ==
  ASSUME CrossTerms
  PROVE  \E r \in [Sides -> Draw(params.tests, 2)] : \A t \in Tests :
           /\ out'["sender"][t] =
                (Base("sender", t) + SumFunction([k \in 0..(Cross - 1) |-> TermOf("sender", t, k, Alpha(r)["receiver"])])
                  + Alpha(r)["sender"][Cross * params.tests + t] + Alpha(r)["receiver"][Cross * params.tests + t]) % 2
           /\ out'["receiver"][t] =
                (Base("receiver", t) + SumFunction([k \in 0..(Cross - 1) |-> TermOf("receiver", t, k, Alpha(r)["sender"])])
                  + Alpha(r)["receiver"][Cross * params.tests + t] + Alpha(r)["sender"][Cross * params.tests + t]) % 2
<1> DEFINE X(s, t, k) == Factor(s, t, k + 1)
           alpha(r) == [s \in Sides |-> [q \in Below(Cross * params.tests + params.tests) |->
             IF q >= Cross * params.tests THEN r[s][q - Cross * params.tests]
             ELSE xor(X(s, q \div Cross, q % Cross), rs[s][q \div Cross][q % Cross])]]
           beta(r) == [sender |-> alpha(r)["receiver"], receiver |-> alpha(r)["sender"]]
           term(r, s, t, k) ==
             xor(ab[s][t][k], beta(r)[s][StartBit(t) + k] * (IF s = "sender" THEN X(s, t, k) ELSE rs[s][t][k]))
<1>1. PICK r \in [Sides -> Draw(params.tests, 2)] :
        out' = [s \in Sides |-> [t \in Tests |->
                 (Base(s, t) + SumFunction([k \in Below(Cross) |-> term(r, s, t, k)])
                    + alpha(r)[s][Cross * params.tests + t] + beta(r)[s][Cross * params.tests + t]) % 2]]
  BY Zenon DEF CrossTerms
<1>2. alpha(r) = Alpha(r)
  BY Zenon DEF Alpha
<1>3. beta(r)["sender"] = Alpha(r)["receiver"] /\ beta(r)["receiver"] = Alpha(r)["sender"]
  <2> HIDE DEF alpha
  <2> QED
    BY <1>2
<1>4. \A s \in Sides : \A t, k : term(r, s, t, k) = TermOf(s, t, k, beta(r)[s])
  BY Zenon DEF TermOf
<1> HIDE DEF alpha, beta, term
<1>5. ASSUME NEW t \in Tests, NEW s \in Sides
      PROVE  out'[s][t] =
               (Base(s, t) + SumFunction([k \in 0..(Cross - 1) |-> TermOf(s, t, k, beta(r)[s])])
                 + Alpha(r)[s][Cross * params.tests + t] + beta(r)[s][Cross * params.tests + t]) % 2
  <2>1. [k \in Below(Cross) |-> term(r, s, t, k)] = [k \in 0..(Cross - 1) |-> TermOf(s, t, k, beta(r)[s])]
    <3>1. \A k : term(r, s, t, k) = TermOf(s, t, k, beta(r)[s])
      BY <1>4
    <3>2. Below(Cross) = 0..(Cross - 1)
      BY DEF Below
    <3> QED
      BY <3>1, <3>2
  <2>2. out'[s][t] =
          (Base(s, t) + SumFunction([k \in Below(Cross) |-> term(r, s, t, k)])
             + alpha(r)[s][Cross * params.tests + t] + beta(r)[s][Cross * params.tests + t]) % 2
    BY Zenon, <1>1
  <2> QED
    BY Zenon, <1>2, <2>1, <2>2
<1>6. "sender" \in Sides /\ "receiver" \in Sides
  BY DEF Sides
<1> QED
  BY Zenon, <1>3, <1>5, <1>6

LEMMA OutputsRight ==
  ASSUME RoundsInv, CrossInv, CrossTerms, NEW t \in Tests
  PROVE  xor(out'["sender"][t], out'["receiver"][t]) = Bool(input["sender"][t] = input["receiver"][t])
<1>1. PICK F : InvF(F)
  BY DEF RoundsInv
<1>2. /\ params \in ParamSet /\ phase = "run" /\ size = params.threshold /\ size = F[round]
      /\ share \in [Sides -> [Tests -> 0..(2^F[round] - 1)]]
      /\ EqualityKept
  BY <1>1 DEF InvF, TypesOK, PhaseInv, SharesInv, CrossTerms
<1>3. size \in Nat \ {0} /\ Cross = 2^size - 2
  <2>1. params.threshold \in Nat \ {0, 1}
    BY <1>2, ParamsAre
  <2> QED
    BY <1>2, <2>1 DEF Cross
<1>4. PICK n, m : n = share["sender"][t] /\ m = share["receiver"][t]
  OBVIOUS
<1>5. n \in 0..(2^size - 1) /\ m \in 0..(2^size - 1)
  BY <1>2, <1>4 DEF Sides
<1>6. n \in Nat /\ m \in Nat
  BY <1>5
<1>7. PICK u, v : u = BitsOf("sender", t) /\ v = BitsOf("receiver", t)
  OBVIOUS
<1>8. u \in [0..(size - 1) -> {0, 1}] /\ v \in [0..(size - 1) -> {0, 1}]
  <2>1. \A l \in 0..(size - 1) : Bit(n, l) \in {0, 1} /\ Bit(m, l) \in {0, 1}
    BY <1>6, BitType
  <2> QED
    BY <1>4, <1>7, <2>1 DEF BitsOf
<1>9. Same(size, u, v) <=> input["sender"][t] = input["receiver"][t]
  <2>1. SameTo(size, n, m) <=> n = m
    BY <1>3, <1>5, BitsDetermine
  <2>2. \A l \in 0..(size - 1) : u[l] = Bit(n, l) /\ v[l] = Bit(m, l)
    BY <1>4, <1>7 DEF BitsOf
  <2>3. n = m <=> input["sender"][t] = input["receiver"][t]
    BY <1>2, <1>4 DEF EqualityKept
  <2> QED
    BY <2>1, <2>2, <2>3 DEF SameTo, Same
<1>10. PICK r \in [Sides -> Draw(params.tests, 2)] : \A i \in Tests :
         /\ out'["sender"][i] =
              (Base("sender", i) + SumFunction([k \in 0..(Cross - 1) |-> TermOf("sender", i, k, Alpha(r)["receiver"])])
                + Alpha(r)["sender"][Cross * params.tests + i] + Alpha(r)["receiver"][Cross * params.tests + i]) % 2
         /\ out'["receiver"][i] =
              (Base("receiver", i) + SumFunction([k \in 0..(Cross - 1) |-> TermOf("receiver", i, k, Alpha(r)["sender"])])
                + Alpha(r)["receiver"][Cross * params.tests + i] + Alpha(r)["sender"][Cross * params.tests + i]) % 2
  BY CrossTermsIs
<1>11. PICK A, B : A = Alpha(r)["sender"] /\ B = Alpha(r)["receiver"]
  OBVIOUS
<1>12. PICK f, g : /\ f = [k \in 0..(Cross - 1) |-> TermOf("sender", t, k, B)]
                   /\ g = [k \in 0..(Cross - 1) |-> TermOf("receiver", t, k, A)]
  OBVIOUS
<1>13. /\ \A k \in Nat, s \in Sides : Factor(s, t, k) \in {0, 1}
       /\ \A k \in Nat : (Factor("sender", t, k) = 1 /\ Factor("receiver", t, k) = 1) <=> Both(size, u, v, k)
       /\ Base("sender", t) = Bool(\A l \in 0..(size - 1) : u[l] = 0)
       /\ Base("receiver", t) = Bool(\A l \in 0..(size - 1) : v[l] = 1)
  <2>1. FactorsFit(t, u, v)
    BY Zenon, <1>2, <1>7, FactorsAre
  <2> QED
    BY <2>1 DEF FactorsFit
<1>14. /\ "sender" \in Sides /\ "receiver" \in Sides /\ Cross \in Nat
  BY <1>2, CrossIs DEF Sides
<1>15. PICK a, b : a = A[Cross * params.tests + t] /\ b = B[Cross * params.tests + t]
  OBVIOUS
<1>16. a \in {0, 1} /\ b \in {0, 1}
  BY Zenon, <1>2, <1>11, <1>14, <1>15, AlphaIs
<1>17. ASSUME NEW k \in 0..(Cross - 1)
       PROVE  f[k] \in {0, 1} /\ g[k] \in {0, 1} /\ (f[k] + g[k]) % 2 = Bool(Both(size, u, v, k + 1))
  <2>1. k + 1 \in Nat
    BY <1>14
  <2>2. PICK x \in {0, 1}, y \in {0, 1} : x = Factor("sender", t, k + 1) /\ y = Factor("receiver", t, k + 1)
    BY <1>13, <1>14, <2>1
  <2>3. PICK p \in {0, 1}, q \in {0, 1}, e \in {0, 1} :
          /\ p = rs["sender"][t][k] /\ q = rs["receiver"][t][k] /\ e = ab["sender"][t][k]
          /\ ab["receiver"][t][k] = IF q = 1 THEN xor(e, p) ELSE e
    BY <1>2 DEF CrossInv
  <2>4. PICK d : d = ab["receiver"][t][k] /\ d = IF q = 1 THEN xor(e, p) ELSE e
    BY <2>3
  <2>5. A[StartBit(t) + k] = xor(x, p) /\ B[StartBit(t) + k] = xor(y, q)
    <3>1. /\ A[StartBit(t) + k] = xor(Factor("sender", t, k + 1), rs["sender"][t][k])
          /\ B[StartBit(t) + k] = xor(Factor("receiver", t, k + 1), rs["receiver"][t][k])
      BY Zenon, <1>2, <1>11, <1>14, AlphaIs
    <3> QED
      BY Zenon, <2>2, <2>3, <3>1
  <2>6. f[k] = xor(e, xor(y, q) * x)
    <3>1. f[k] = TermOf("sender", t, k, B)
      BY <1>12
    <3> QED
      BY <2>2, <2>3, <2>5, <3>1 DEF TermOf
  <2>7. g[k] = xor(d, xor(x, p) * q)
    <3>1. g[k] = TermOf("receiver", t, k, A)
      BY <1>12
    <3> QED
      BY <2>2, <2>3, <2>5, <2>4, <3>1 DEF TermOf
  <2>8. f[k] \in {0, 1} /\ g[k] \in {0, 1} /\ (f[k] + g[k]) % 2 = Bool(x = 1 /\ y = 1)
    <3>1. PICK fk, gk : fk = f[k] /\ gk = g[k]
      OBVIOUS
    <3>2. fk \in {0, 1} /\ gk \in {0, 1} /\ (fk + gk) % 2 = Bool(x = 1 /\ y = 1)
      <4>1. TermParts(x, y, p, q, e, d, fk, gk)
        BY <2>6, <2>7, <2>4, <3>1 DEF TermParts
      <4> QED
        BY <4>1, OneTerm
    <3> QED
      BY <3>1, <3>2
  <2>9. (x = 1 /\ y = 1) <=> Both(size, u, v, k + 1)
    BY <1>13, <2>1, <2>2
  <2> QED
    BY <2>8, <2>9 DEF Bool
<1>18. Values(f, Cross) /\ Values(g, Cross)
  <2>1. \A k \in 0..(Cross - 1) : f[k] \in Int /\ g[k] \in Int
    BY <1>17
  <2>2. /\ f = [k \in 0..(Cross - 1) |-> f[k]] /\ g = [k \in 0..(Cross - 1) |-> g[k]]
    BY <1>12
  <2>3. f \in [0..(Cross - 1) -> Int] /\ g \in [0..(Cross - 1) -> Int]
    BY <2>1, <2>2
  <2> QED
    BY <1>14, <2>3 DEF Values
<1>19. PICK c, d, x, y : /\ c = Base("sender", t) /\ d = Base("receiver", t)
                         /\ x = SumFunction(f) /\ y = SumFunction(g)
  OBVIOUS
<1>20. x \in Nat /\ y \in Nat /\ (c + d + x + y) % 2 = Bool(Same(size, u, v))
  <2>1. /\ SumFunction(f) \in Nat /\ SumFunction(g) \in Nat
        /\ (Bool(\A l \in 0..(size - 1) : u[l] = 0) + Bool(\A l \in 0..(size - 1) : v[l] = 1)
              + SumFunction(f) + SumFunction(g)) % 2 = Bool(Same(size, u, v))
    <3>1. PICK z : z = Cross
      OBVIOUS
    <3>2. InnerParts(size, u, v, z, f, g)
      BY <1>3, <1>17, <1>18, <3>1 DEF InnerParts
    <3>3. InnerOdd(size, u, v, f, g)
      BY <1>3, <1>8, <3>2, InnerSum
    <3> QED
      BY <3>3 DEF InnerOdd
  <2> QED
    BY Zenon, <1>13, <1>19, <2>1
<1>21. c \in {0, 1} /\ d \in {0, 1}
  BY <1>13, <1>19 DEF Bool
<1>22. out'["sender"][t] = (c + x + a + b) % 2 /\ out'["receiver"][t] = (d + y + b + a) % 2
  BY Zenon, <1>10, <1>11, <1>12, <1>15, <1>19
<1>23. xor((c + x + a + b) % 2, (d + y + b + a) % 2) = (c + d + x + y) % 2
  <2>1. PICK i, j : i = c + x + a + b /\ j = d + y + b + a
    OBVIOUS
  <2>2. i \in Nat /\ j \in Nat /\ i + j = (c + d + x + y) + 2 * (a + b)
    BY <1>16, <1>20, <1>21, <2>1
  <2>3. PICK w, h : w = c + d + x + y /\ h = a + b
    OBVIOUS
  <2>4. w \in Nat /\ h \in Nat /\ i + j = w + 2 * h
    BY <1>16, <1>20, <1>21, <2>2, <2>3
  <2>5. ((i % 2) + (j % 2)) % 2 = w % 2
    BY <2>2, <2>4
  <2> QED
    BY <2>1, <2>3, <2>5 DEF xor
<1> QED
  BY <1>9, <1>20, <1>22, <1>23 DEF Bool

\* For every length and threshold, every batch and all random bits: when a run of
\* the equality test ends, the exclusive or of the two outputs for a test is 1 if
\* its inputs are equal and 0 if they are not (the out of EqTest::run).
THEOREM AnswersShared == Spec => []OutputShares
<1> DEFINE Inv == RoundsInv /\ CrossInv /\ OutputShares
<1>1. Init => Inv
  BY RoundsStart DEF Init, CrossInv, OutputShares
<1>2. Inv /\ RoundsInv' /\ [Next]_vars => Inv'
  <2> SUFFICES ASSUME Inv, RoundsInv', [Next]_vars PROVE CrossInv' /\ OutputShares'
    OBVIOUS
  <2>1. params \in ParamSet
    BY DEF RoundsInv, InvF, TypesOK
  <2>2. CrossInv'
    BY <2>1, CrossKeeps
  <2>3. OutputShares'
    <3>1. CASE CrossTerms
      <4>1. Tests' = Tests /\ UNCHANGED input
        BY <3>1 DEF CrossTerms, Tests
      <4>2. \A t \in Tests :
              xor(out'["sender"][t], out'["receiver"][t]) = Bool(input["sender"][t] = input["receiver"][t])
        BY <3>1, OutputsRight
      <4> QED
        BY <4>1, <4>2 DEF OutputShares
    <3>2. CASE SizeReduction \/ ProductSharing \/ ReduceRound \/ ThresholdError
      <4>1. phase' # "done"
        BY <3>2 DEF SizeReduction, ProductSharing, ReduceRound, ThresholdError
      <4> QED
        BY <4>1 DEF OutputShares
    <3>3. CASE Stop \/ UNCHANGED vars
      <4>1. UNCHANGED <<params, phase, input, out>>
        BY <3>3 DEF Stop, vars
      <4> QED
        BY <4>1 DEF OutputShares, Tests
    <3> QED
      BY <3>1, <3>2, <3>3 DEF Next
  <2> QED
    BY <2>2, <2>3
<1>3. Inv => OutputShares
  OBVIOUS
<1> QED
  BY <1>1, <1>2, <1>3, RoundsCorrect, PTL DEF Spec
=============================================================================
