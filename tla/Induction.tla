----------------------------- MODULE Induction -----------------------------
(***************************************************************************)
(* Induction on the natural numbers for the proofs of this project.  The   *)
(* library's induction theorems take the formula to be proved as an        *)
(* operator; here it is the set of the numbers for which it holds, which   *)
(* the provers can be given.  What is defined by recursion exists by the   *)
(* same induction.  And the arithmetic of quotients, powers of two and     *)
(* least numbers that several proofs need.                                 *)
(***************************************************************************)
EXTENDS Integers, FiniteSetsExt, SequencesExt, TLAPS, WellFoundedInduction,
        SequenceTheorems, FiniteSetTheorems

\* A set of numbers that has 0, and the successor of each that it has, has all.
LEMMA SetInduction ==
  ASSUME NEW S, 0 \in S, \A n \in Nat : n \in S => n + 1 \in S
  PROVE  Nat \subseteq S
<1> SUFFICES ASSUME Nat \ S # {} PROVE FALSE
  OBVIOUS
<1> DEFINE R == OpToRel(<, Nat)
<1>1. IsWellFoundedOn(R, Nat)
  BY NatLessThanWellFounded
<1>2. \A x, y \in Nat : <<x, y>> \in R <=> x < y
  BY DEF OpToRel
<1> HIDE DEF R
<1>3. PICK m \in Nat \ S : \A k \in Nat \ S : <<k, m>> \notin R
  BY <1>1, WFMin
<1>4. m # 0
  OBVIOUS
<1>5. m - 1 \in Nat /\ m = (m - 1) + 1 /\ m - 1 < m
  BY <1>4
<1>6. m - 1 \in S
  BY <1>2, <1>3, <1>5
<1> QED
  BY <1>5, <1>6

\* The same up to a bound.
LEMMA IntervalInduction ==
  ASSUME NEW n \in Nat, NEW S, 0 \in S, \A i \in 0..(n - 1) : i \in S => i + 1 \in S
  PROVE  0..n \subseteq S
<1> DEFINE T == {i \in Nat : i <= n => i \in S}
<1>1. 0 \in T /\ \A i \in Nat : i \in T => i + 1 \in T
  OBVIOUS
<1> HIDE DEF T
<1>2. Nat \subseteq T
  BY <1>1, SetInduction
<1> QED
  BY <1>2 DEF T

\* Counts have running totals.
RunningTotal(F, c, n) == F[0] = 0 /\ \A i \in 1..n : F[i] = F[i - 1] + c[i]

LEMMA RunningTotals ==
  ASSUME NEW n \in Nat, NEW c \in [1..n -> Nat]
  PROVE  \E F \in [0..n -> Nat] : RunningTotal(F, c, n)
<1> DEFINE S == {k \in 0..n : \E F \in [0..k -> Nat] : RunningTotal(F, c, k)}
<1>1. 0 \in S
  <2>1. [i \in 0..0 |-> 0] \in [0..0 -> Nat] /\ RunningTotal([i \in 0..0 |-> 0], c, 0)
    BY DEF RunningTotal
  <2> QED
    BY <2>1
<1>2. ASSUME NEW k \in 0..(n - 1), k \in S PROVE k + 1 \in S
  <2>1. PICK F \in [0..k -> Nat] : RunningTotal(F, c, k)
    BY <1>2
  <2>2. PICK G : G = [i \in 0..(k + 1) |-> IF i = k + 1 THEN F[k] + c[k + 1] ELSE F[i]]
    OBVIOUS
  <2>3. G \in [0..(k + 1) -> Nat] /\ G[k + 1] = F[k] + c[k + 1] /\ \A i \in 0..k : G[i] = F[i]
    BY <2>2
  <2>4. ASSUME NEW i \in 1..(k + 1) PROVE G[i] = G[i - 1] + c[i]
    <3>1. CASE i = k + 1
      BY <2>3, <3>1
    <3>2. CASE i # k + 1
      <4>1. i \in 1..k /\ i - 1 \in 0..k
        BY <3>2
      <4> QED
        BY <2>1, <2>3, <4>1 DEF RunningTotal
    <3> QED
      BY <3>1, <3>2
  <2>5. G[0] = 0
    BY <2>1, <2>3 DEF RunningTotal
  <2>6. RunningTotal(G, c, k + 1)
    BY <2>4, <2>5 DEF RunningTotal
  <2> QED
    BY <2>3, <2>6
<1> HIDE DEF S
<1>3. 0..n \subseteq S
  BY <1>1, <1>2, IntervalInduction
<1>4. n \in S
  BY <1>3
<1> QED
  BY <1>4 DEF S

\* Running totals do not decrease, and are the only ones.
LEMMA TotalsGrow ==
  ASSUME NEW n \in Nat, NEW c, NEW F \in [0..n -> Nat], RunningTotal(F, c, n),
         \A i \in 1..n : c[i] \in Nat, NEW j \in 0..n, NEW k \in 0..j
  PROVE  F[k] <= F[j]
<1> DEFINE S == {m \in 0..n : m < k \/ F[k] <= F[m]}
<1>1. 0 \in S
  OBVIOUS
<1>2. ASSUME NEW m \in 0..(n - 1), m \in S PROVE m + 1 \in S
  <2>1. F[m + 1] = F[m] + c[m + 1] /\ c[m + 1] \in Nat /\ F[m] \in Nat /\ F[k] \in Nat
    <3>1. m + 1 \in 1..n /\ (m + 1) - 1 = m
      OBVIOUS
    <3> QED
      BY <3>1 DEF RunningTotal
  <2>2. CASE m + 1 = k
    BY <2>1, <2>2
  <2>3. CASE m + 1 # k
    BY <1>2, <2>1, <2>3
  <2> QED
    BY <2>2, <2>3
<1> HIDE DEF S
<1>3. 0..n \subseteq S
  BY <1>1, <1>2, IntervalInduction
<1> QED
  BY <1>3 DEF S

LEMMA TotalsUnique ==
  ASSUME NEW n \in Nat, NEW c, NEW F \in [0..n -> Nat], RunningTotal(F, c, n),
         NEW G \in [0..n -> Nat], RunningTotal(G, c, n), NEW k \in 0..n
  PROVE  F[k] = G[k]
<1> DEFINE S == {m \in 0..n : F[m] = G[m]}
<1>1. 0 \in S
  BY DEF RunningTotal
<1>2. ASSUME NEW m \in 0..(n - 1), m \in S PROVE m + 1 \in S
  <2>1. m + 1 \in 1..n /\ (m + 1) - 1 = m
    OBVIOUS
  <2> QED
    BY <1>2, <2>1 DEF RunningTotal
<1> HIDE DEF S
<1>3. 0..n \subseteq S
  BY <1>1, <1>2, IntervalInduction
<1> QED
  BY <1>3 DEF S

\* A set of numbers up to n that is not empty has a largest.
LEMMA LargestExists ==
  ASSUME NEW n \in Nat, NEW S \in SUBSET (0..n), S # {}
  PROVE  \E x \in S : \A y \in S : x >= y
<1> DEFINE T == {k \in 0..n : S \cap 0..k # {} => \E x \in S \cap 0..k : \A y \in S \cap 0..k : x >= y}
<1>1. 0 \in T
  OBVIOUS
<1>2. ASSUME NEW k \in 0..(n - 1), k \in T PROVE k + 1 \in T
  <2>1. CASE k + 1 \in S
    <3>1. \A y \in S \cap 0..(k + 1) : k + 1 >= y
      OBVIOUS
    <3>2. k + 1 \in S \cap 0..(k + 1)
      BY <2>1
    <3>3. k + 1 \in 0..n
      OBVIOUS
    <3> QED
      BY <3>1, <3>2, <3>3
  <2>2. CASE k + 1 \notin S
    <3>1. S \cap 0..(k + 1) = S \cap 0..k /\ k + 1 \in 0..n
      BY <2>2
    <3> QED
      BY <1>2, <3>1
  <2> QED
    BY <2>1, <2>2
<1> HIDE DEF T
<1>3. n \in T
  BY <1>1, <1>2, IntervalInduction
<1>4. S \cap 0..n = S
  OBVIOUS
<1> QED
  BY <1>3, <1>4 DEF T

\* Max of the community modules does find it.
LEMMA MaxIsLargest ==
  ASSUME NEW m \in Nat
  PROVE  \A s \in SUBSET (1..m) : s # {} => Max(s) \in s /\ \A y \in s : Max(s) >= y
<1> SUFFICES ASSUME NEW s \in SUBSET (1..m), s # {}
             PROVE  Max(s) \in s /\ \A y \in s : Max(s) >= y
  OBVIOUS
<1>1. s \in SUBSET (0..m)
  OBVIOUS
<1>2. \E x \in s : \A y \in s : x >= y
  BY <1>1, LargestExists
<1> QED
  BY <1>2 DEF Max

\* The elements of a sequence that was made longer.
LEMMA Lengthened ==
  ASSUME NEW S, NEW s \in Seq(S), NEW L \in Nat, NEW e \in [1..L -> S]
  PROVE  /\ s \o e \in Seq(S) /\ Len(s \o e) = Len(s) + L /\ Len(s) \in Nat
         /\ \A i \in 1..Len(s) : (s \o e)[i] = s[i]
         /\ \A i \in 1..L : (s \o e)[Len(s) + i] = e[i]
<1>1. e \in Seq(S) /\ Len(e) = L /\ Len(s) \in Nat
  OBVIOUS
<1>2. /\ s \o e \in Seq(S) /\ Len(s \o e) = Len(s) + Len(e)
      /\ \A i \in 1..(Len(s) + Len(e)) :
           (s \o e)[i] = IF i <= Len(s) THEN s[i] ELSE e[i - Len(s)]
  BY <1>1, ConcatProperties
<1>3. ASSUME NEW i \in 1..L PROVE (s \o e)[Len(s) + i] = e[i]
  <2>1. Len(s) + i \in 1..(Len(s) + Len(e)) /\ ~(Len(s) + i <= Len(s)) /\ Len(s) + i - Len(s) = i
    BY <1>1
  <2> QED
    BY <1>2, <2>1
<1>4. ASSUME NEW i \in 1..Len(s) PROVE (s \o e)[i] = s[i]
  <2>1. i \in 1..(Len(s) + Len(e)) /\ i <= Len(s)
    BY <1>1
  <2> QED
    BY <1>2, <2>1
<1> QED
  BY <1>1, <1>2, <1>3, <1>4

-----------------------------------------------------------------------------
\* Division rounds down.
LEMMA Dividing ==
  ASSUME NEW a \in Nat, NEW b \in Nat \ {0}
  PROVE  a \div b \in Nat /\ b * (a \div b) <= a /\ a < b * (a \div b) + b
OBVIOUS

LEMMA Stretch ==
  ASSUME NEW a \in Nat, NEW b \in Nat, NEW c \in Nat, a < b
  PROVE  a * c \in Nat /\ b * c \in Nat /\ a * c + c <= b * c
OBVIOUS

\* Quotient and remainder are the only ones.
LEMMA DividesAs ==
  ASSUME NEW b \in Nat \ {0}, NEW m \in Nat, NEW r \in 0..(b - 1), NEW a, a = m * b + r
  PROVE  a \in Nat /\ a \div b = m /\ a % b = r
<1>1. m * b \in Nat /\ a \in Nat
  OBVIOUS
<1> DEFINE q == a \div b
<1>2. q \in Nat /\ b * q <= a /\ a < b * q + b /\ b * q = q * b /\ a = b * q + (a % b)
  BY <1>1, Dividing
<1> HIDE DEF q
<1>3. ~(q < m)
  <2> SUFFICES ASSUME q < m PROVE FALSE
    OBVIOUS
  <2>1. q * b + b <= m * b
    BY <1>2, Stretch
  <2> QED
    BY <1>1, <1>2, <2>1
<1>4. ~(m < q)
  <2> SUFFICES ASSUME m < q PROVE FALSE
    OBVIOUS
  <2>1. m * b + b <= q * b
    BY <1>2, Stretch
  <2> QED
    BY <1>1, <1>2, <2>1
<1>5. q = m
  BY <1>2, <1>3, <1>4
<1> QED
  BY <1>1, <1>2, <1>5 DEF q

LEMMA Divided ==
  ASSUME NEW a \in Nat, NEW b \in Nat \ {0}
  PROVE  /\ a \div b \in Nat /\ a % b \in 0..(b - 1) /\ a = (a \div b) * b + (a % b)
OBVIOUS

\* Powers of two: the subsets of one more element are twice as many.
LEMMA Powers ==
  /\ 2^0 = 1
  /\ \A d \in Nat : 2^d \in Nat \ {0} /\ 2^(d + 1) = 2 * 2^d
<1>1. 2^0 = 1
  <2>1. Cardinality(SUBSET {}) = 2^0
    BY FS_EmptySet, FS_SUBSET
  <2>2. SUBSET {} = {{}}
    OBVIOUS
  <2> QED
    BY <2>1, <2>2, FS_Singleton
<1>2. ASSUME NEW d \in Nat PROVE 2^(d + 1) = 2 * 2^d /\ 2^d \in Nat
  <2> DEFINE S == 1..d
             T == 1..(d + 1)
             e == d + 1
             U == {s \in SUBSET T : e \in s}
  <2>1. /\ IsFiniteSet(S) /\ Cardinality(S) = d /\ IsFiniteSet(T) /\ Cardinality(T) = d + 1
        /\ e \in T /\ S = T \ {e} /\ e \notin S
    <3>1. IsFiniteSet(1..d) /\ Cardinality(1..d) = IF 1 > d THEN 0 ELSE d - 1 + 1
      BY FS_Interval
    <3>2. IsFiniteSet(1..(d + 1)) /\ Cardinality(1..(d + 1)) = IF 1 > d + 1 THEN 0 ELSE d + 1 - 1 + 1
      BY FS_Interval
    <3>3. Cardinality(1..d) = d /\ Cardinality(1..(d + 1)) = d + 1
      BY <3>1, <3>2
    <3> QED
      BY <3>1, <3>2, <3>3
  <2> HIDE DEF S, T, e
  <2>2. /\ IsFiniteSet(SUBSET S) /\ Cardinality(SUBSET S) = 2^d
        /\ IsFiniteSet(SUBSET T) /\ Cardinality(SUBSET T) = 2^(d + 1)
    BY <2>1, FS_SUBSET
  <2>3. SUBSET T = (SUBSET S) \cup U /\ (SUBSET S) \cap U = {} /\ U \subseteq SUBSET T
    BY <2>1
  <2>4. IsFiniteSet(U) /\ Cardinality(U) = 2^d
    <3> DEFINE f == [s \in SUBSET S |-> s \cup {e}]
    <3>1. f \in [SUBSET S -> U]
      BY <2>1
    <3>2. \A x, y \in SUBSET S : f[x] = f[y] => x = y
      BY <2>1
    <3>3. \A y \in U : \E x \in SUBSET S : f[x] = y
      <4> TAKE y \in U
      <4>1. y \ {e} \in SUBSET S /\ (y \ {e}) \cup {e} = y
        BY <2>1
      <4> QED
        BY <4>1
    <3> HIDE DEF f, U
    <3>4. f \in Bijection(SUBSET S, U)
      BY <3>1, <3>2, <3>3 DEF Bijection, Injection, Surjection, IsInjective
    <3> QED
      BY <2>2, <3>4, FS_Bijection DEF ExistsBijection
  <2>5. Cardinality((SUBSET S) \cup U) = Cardinality(SUBSET S) + Cardinality(U) - Cardinality({})
    BY <2>2, <2>3, <2>4, FS_Union
  <2> PICK x, y : x = 2^d /\ y = 2^(d + 1)
    OBVIOUS
  <2>6. x \in Nat
    BY <2>2, FS_CardinalityType
  <2>7. y = x + x - 0
    BY <2>2, <2>3, <2>4, <2>5, FS_EmptySet
  <2>8. y = 2 * x
    BY <2>6, <2>7
  <2> QED
    BY <2>6, <2>8
<1>3. Nat \subseteq {d \in Nat : 2^d # 0}
  <2> DEFINE P == {d \in Nat : 2^d # 0}
  <2>1. 0 \in P
    BY <1>1
  <2>2. \A d \in Nat : d \in P => d + 1 \in P
    BY <1>2
  <2> HIDE DEF P
  <2>3. Nat \subseteq P
    BY <2>1, <2>2, SetInduction
  <2> QED
    BY <2>3 DEF P
<1> QED
  BY <1>1, <1>2, <1>3

\* A set of numbers that is not empty has a least.
LEMMA LeastExists ==
  ASSUME NEW S \in SUBSET Nat, S # {}
  PROVE  \E x \in S : \A y \in S : x <= y
<1> DEFINE R == OpToRel(<, Nat)
<1>1. IsWellFoundedOn(R, Nat)
  BY NatLessThanWellFounded
<1>2. \A x, y \in Nat : <<x, y>> \in R <=> x < y
  BY DEF OpToRel
<1> HIDE DEF R
<1>3. PICK x \in S : \A y \in S : <<y, x>> \notin R
  BY <1>1, WFMin
<1>4. ASSUME NEW y \in S PROVE x <= y
  <2>1. x \in Nat /\ y \in Nat
    OBVIOUS
  <2>2. <<y, x>> \notin R
    BY <1>3
  <2> QED
    BY <1>2, <2>1, <2>2
<1> QED
  BY <1>4

LEMMA SmallRemainder ==
  ASSUME NEW b \in Nat \ {0}, NEW a \in 0..(b - 1)
  PROVE  a \div b = 0 /\ a % b = a
<1>1. PICK q : q = a \div b
  OBVIOUS
<1>2. q \in Nat /\ b * q <= a /\ b * q = q * b /\ a = q * b + (a % b)
  BY <1>1, Divided, Dividing
<1>3. ~(q >= 1)
  <2> SUFFICES ASSUME q >= 1 PROVE FALSE
    OBVIOUS
  <2>1. b * q >= b
    BY <1>2
  <2> QED
    BY <1>2, <2>1
<1>4. q = 0
  BY <1>2, <1>3
<1> QED
  BY <1>1, <1>2, <1>4

-----------------------------------------------------------------------------
\* Powers of two grow, and faster than their exponents.
LEMMA PowersGrow ==
  ASSUME NEW b \in Nat
  PROVE  2^b >= b + 1 /\ \A a \in 0..b : 2^a <= 2^b
<1> DEFINE S == {n \in Nat : 2^n >= n + 1 /\ \A a \in 0..n : 2^a <= 2^n}
<1>1. 0 \in S
  <2> PICK p : p = 2^0
    OBVIOUS
  <2>1. p = 1
    BY Powers
  <2>2. \A a \in 0..0 : a = 0
    OBVIOUS
  <2>3. p >= 0 + 1 /\ \A a \in 0..0 : 2^a <= p
    BY <2>1, <2>2
  <2> QED
    BY <2>3
<1>2. ASSUME NEW n \in Nat, n \in S PROVE n + 1 \in S
  <2> PICK p, q : p = 2^n /\ q = 2^(n + 1)
    OBVIOUS
  <2>1. p \in Nat \ {0} /\ q = 2 * p /\ p >= n + 1
    BY <1>2, Powers
  <2>2. q >= (n + 1) + 1 /\ p <= q /\ q <= q
    BY <2>1
  <2>3. ASSUME NEW a \in 0..(n + 1) PROVE 2^a <= q
    <3>1. CASE a = n + 1
      BY <2>2, <3>1
    <3>2. CASE a # n + 1
      <4>1. a \in 0..n /\ a \in Nat
        BY <3>2
      <4> PICK c : c = 2^a
        OBVIOUS
      <4>2. c \in Nat /\ c <= p
        BY <1>2, <4>1, Powers
      <4>3. c <= q
        BY <2>1, <4>2
      <4> QED
        BY <4>3
    <3> QED
      BY <3>1, <3>2
  <2> QED
    BY <2>2, <2>3
<1>3. b \in S
  <2> HIDE DEF S
  <2> QED
    BY <1>1, <1>2, SetInduction
<1> QED
  BY <1>3

\* The least exponent whose power of two is not below n.
BitsFor(n) == CHOOSE d \in 0..n : 2^d >= n /\ (d = 0 \/ 2^(d - 1) < n)

LEMMA BitsForIs ==
  ASSUME NEW n \in Nat \ {0}
  PROVE  /\ BitsFor(n) \in Nat /\ 2^BitsFor(n) >= n
         /\ BitsFor(n) = 0 \/ 2^(BitsFor(n) - 1) < n
<1> DEFINE S == {d \in Nat : 2^d >= n}
<1>1. n \in S
  <2> PICK p : p = 2^n
    OBVIOUS
  <2>1. p \in Nat /\ p >= n + 1
    BY Powers, PowersGrow
  <2> QED
    BY <2>1
<1>2. PICK d \in S : \A e \in S : d <= e
  <2>1. S \in SUBSET Nat /\ S # {}
    BY <1>1
  <2> HIDE DEF S
  <2> QED
    BY <2>1, LeastExists
<1>3. d \in 0..n /\ 2^d >= n
  BY <1>1, <1>2
<1>4. d = 0 \/ 2^(d - 1) < n
  <2> SUFFICES ASSUME d # 0 PROVE 2^(d - 1) < n
    OBVIOUS
  <2> PICK e : e = d - 1
    OBVIOUS
  <2>1. e \in Nat /\ ~(d <= e)
    BY <1>3
  <2>2. ~(2^e >= n) /\ 2^e \in Nat
    BY <1>2, <2>1, Powers
  <2> PICK p : p = 2^e
    OBVIOUS
  <2>3. p < n
    BY <2>2
  <2> QED
    BY <2>3
<1>5. BitsFor(n) \in 0..n /\ 2^BitsFor(n) >= n /\ (BitsFor(n) = 0 \/ 2^(BitsFor(n) - 1) < n)
  BY <1>3, <1>4 DEF BitsFor
<1> QED
  BY <1>5

\* What the numbers to `j` need is not above `j`, and passes over neither 2 nor 3.
LEMMA NextBits ==
  ASSUME NEW j \in Nat \ {0}
  PROVE  /\ BitsFor(j + 1) \in 1..j
         /\ 2^BitsFor(j + 1) >= j + 1
         /\ j > 2 => BitsFor(j + 1) >= 2
         /\ j > 3 => BitsFor(j + 1) >= 3
<1> PICK d : d = BitsFor(j + 1)
  OBVIOUS
<1>1. d \in Nat /\ 2^d >= j + 1 /\ (d = 0 \/ 2^(d - 1) < j + 1)
  BY BitsForIs
<1>2. 2^0 = 1 /\ 2^1 = 2 /\ 2^2 = 4
  <2>1. 2^(0 + 1) = 2 * 2^0 /\ 2^(1 + 1) = 2 * 2^1 /\ 2^0 = 1
    BY Powers
  <2> QED
    BY <2>1
<1>3. d # 0 /\ (j > 2 => d # 1) /\ (j > 3 => d # 2)
  <2> PICK p : p = 2^d
    OBVIOUS
  <2>1. p >= j + 1 /\ (d = 0 => p = 1) /\ (d = 1 => p = 2) /\ (d = 2 => p = 4)
    BY <1>1, <1>2
  <2>2. d # 0 /\ (j > 2 => d # 1)
    BY <2>1
  <2>3. j > 3 => d # 2 \/ j = 3
    BY <2>1
  <2> QED
    BY <2>2, <2>3
<1>4. d <= j
  <2> SUFFICES ASSUME d > j PROVE FALSE
    BY <1>1
  <2> PICK e : e = d - 1
    OBVIOUS
  <2>1. e \in Nat /\ j \in 0..e
    BY <1>1
  <2> PICK p, q : p = 2^e /\ q = 2^j
    OBVIOUS
  <2>2. p \in Nat /\ q \in Nat /\ q >= j + 1 /\ q <= p
    BY <2>1, Powers, PowersGrow
  <2>3. p < j + 1
    BY <1>1, <1>3
  <2> QED
    BY <2>2, <2>3
<1> QED
  BY <1>1, <1>3, <1>4

-----------------------------------------------------------------------------
\* How the community module's FlattenSeq comes about.
LinkedTo(s, g, i) == IF i = 1 THEN s[i] ELSE g[i - 1] \o s[i]
Flattening(s, m, g) == g = [i \in 1..m |-> LinkedTo(s, g, i)]

\* The recursion has a solution.
LEMMA FlatteningExists ==
  ASSUME NEW s, NEW n \in Nat
  PROVE  \E g : Flattening(s, n, g)
<1> DEFINE S == {m \in 0..n : \E g : g = [i \in 1..m |-> LinkedTo(s, g, i)]}
<1>1. 0 \in S
  <2>1. PICK g : g = [i \in 1..0 |-> s]
    OBVIOUS
  <2>2. g = [i \in 1..0 |-> LinkedTo(s, g, i)]
    BY <2>1
  <2>3. 0 \in 0..n
    OBVIOUS
  <2> QED
    BY Zenon, <2>2, <2>3
<1>2. ASSUME NEW m \in 0..(n - 1), m \in S PROVE m + 1 \in S
  <2>1. PICK g : g = [i \in 1..m |-> LinkedTo(s, g, i)]
    BY <1>2
  <2>2. PICK h : h = [i \in 1..(m + 1) |-> LinkedTo(s, g, i)]
    OBVIOUS
  <2>3. \A i \in 1..m : h[i] = g[i]
    <3>1. \A i \in 1..m : i \in 1..(m + 1)
      OBVIOUS
    <3> QED
      BY <2>1, <2>2, <3>1
  <2>4. ASSUME NEW i \in 1..(m + 1) PROVE LinkedTo(s, g, i) = LinkedTo(s, h, i)
    <3>1. i # 1 => i - 1 \in 1..m
      OBVIOUS
    <3> QED
      BY <2>3, <3>1 DEF LinkedTo
  <2>5. h = [i \in 1..(m + 1) |-> LinkedTo(s, h, i)]
    BY <2>2, <2>4
  <2>6. m + 1 \in 0..n
    OBVIOUS
  <2> QED
    BY <2>5, <2>6
<1> HIDE DEF S
<1>3. n \in S
  BY <1>1, <1>2, IntervalInduction
<1> QED
  BY <1>3 DEF S, Flattening

\* FlattenSeq is the last of a solution.
LEMMA FlattenIs ==
  ASSUME NEW s, Len(s) \in Nat, Len(s) # 0
  PROVE  \E g : Flattening(s, Len(s), g) /\ FlattenSeq(s) = g[Len(s)]
<1> DEFINE flatten == CHOOSE g : g = [i \in 1..Len(s) |->
                                IF i = 1 THEN s[i] ELSE g[i - 1] \o s[i]]
<1>1. FlattenSeq(s) = flatten[Len(s)]
  BY DEF FlattenSeq
<1>2. \E g : g = [i \in 1..Len(s) |-> IF i = 1 THEN s[i] ELSE g[i - 1] \o s[i]]
  <2>1. PICK g : Flattening(s, Len(s), g)
    BY FlatteningExists
  <2>2. g = [i \in 1..Len(s) |-> IF i = 1 THEN s[i] ELSE g[i - 1] \o s[i]]
    BY <2>1 DEF Flattening, LinkedTo
  <2> QED
    BY <2>2
<1>3. Flattening(s, Len(s), flatten)
  BY <1>2 DEF Flattening, LinkedTo
<1> HIDE DEF flatten
<1> QED
  BY <1>1, <1>3

\* Where a part begins and what it has, when parts stand one after the other; the
\* part k begins behind F[k - 1] elements.
Laid(A, s, F, m, t) ==
  /\ t \in Seq(A) /\ Len(t) = F[m]
  /\ \A k \in 1..m : \A p \in 1..Len(s[k]) : t[F[k - 1] + p] = s[k][p]

\* One sequence behind another.  The names keep the provers from looking into
\* what they need not see.
IsOver(A, s) == s \in Seq(A)
Behind(s, e) == s \o e
StandsBehind(A, s, e, u) ==
  /\ u \in Seq(A) /\ Len(u) = Len(s) + Len(e)
  /\ \A i \in 1..Len(s) : u[i] = s[i]
  /\ \A i \in 1..Len(e) : u[Len(s) + i] = e[i]

LEMMA Continued ==
  ASSUME NEW A, NEW s, NEW e, IsOver(A, s), IsOver(A, e)
  PROVE  StandsBehind(A, s, e, Behind(s, e))
<1>1. e \in [1..Len(e) -> A] /\ Len(e) \in Nat /\ Len(s) \in Nat /\ s \in Seq(A)
  BY LenProperties DEF IsOver
<1> QED
  BY <1>1, Lengthened DEF Behind, StandsBehind

\* One part more.
LEMMA PartsStep ==
  ASSUME NEW A, NEW n \in Nat, NEW s \in [1..n -> Seq(A)],
         NEW F \in [0..n -> Nat], RunningTotal(F, [k \in 1..n |-> Len(s[k])], n),
         NEW m \in 0..(n - 1), NEW t, Laid(A, s, F, m, t)
  PROVE  Laid(A, s, F, m + 1, t \o s[m + 1])
<1>0. PICK j \in 1..n : j = m + 1
  OBVIOUS
<1>1. /\ F[j] = F[m] + Len(s[j]) /\ F[m] \in Nat /\ s[j] \in Seq(A)
      /\ \A k \in 1..n : F[k] = F[k - 1] + Len(s[k]) /\ Len(s[k]) \in Nat
      /\ \A k \in 1..n : F[k] \in Nat /\ F[k - 1] \in Nat
  BY <1>0 DEF RunningTotal
<1>2. PICK v \in Seq(A) : v = t
  BY DEF Laid
<1>3. PICK e \in Seq(A) : e = s[j]
  BY <1>1
<1>4. PICK u : u = Behind(v, e)
  OBVIOUS
<1>5. /\ u \in Seq(A) /\ Len(u) = Len(v) + Len(e)
      /\ \A i \in 1..Len(v) : u[i] = v[i]
      /\ \A p \in 1..Len(e) : u[Len(v) + p] = e[p]
  <2>1. IsOver(A, v) /\ IsOver(A, e)
    BY <1>2, <1>3 DEF IsOver
  <2>2. StandsBehind(A, v, e, u)
    BY <1>4, <2>1, Continued
  <2> QED
    BY <2>2 DEF StandsBehind
<1>7. Len(v) = F[m] /\ Len(e) = Len(s[j])
  BY <1>2, <1>3 DEF Laid
<1>6. \A k \in 1..j : \A p \in 1..Len(s[k]) : u[F[k - 1] + p] = s[k][p]
  <2> SUFFICES ASSUME NEW k \in 1..j, NEW p \in 1..Len(s[k]) PROVE u[F[k - 1] + p] = s[k][p]
    OBVIOUS
  <2>1. CASE k = j
    <3>1. p \in 1..Len(e) /\ s[k] = e /\ F[k - 1] = Len(v)
      BY <1>0, <1>3, <1>7, <2>1
    <3> QED
      BY <1>5, <3>1
  <2>2. CASE k # j
    <3>1. k \in 1..m /\ k \in 1..n /\ k \in 0..m
      BY <1>0, <2>2
    <3>2. v[F[k - 1] + p] = s[k][p]
      BY <1>2, <3>1 DEF Laid
    <3>3. F[k] <= F[m]
      <4>1. PICK c : c = [i \in 1..n |-> Len(s[i])]
        OBVIOUS
      <4>2. RunningTotal(F, c, n) /\ \A i \in 1..n : c[i] \in Nat
        BY <1>1, <4>1
      <4>3. m \in 0..n /\ k \in 0..m
        BY <3>1
      <4> QED
        BY <4>2, <4>3, TotalsGrow
    <3>4. F[k - 1] + p \in 1..Len(v)
      <4>1. /\ F[k] = F[k - 1] + Len(s[k]) /\ Len(s[k]) \in Nat
            /\ F[k] \in Nat /\ F[k - 1] \in Nat
        BY <1>1, <3>1
      <4>2. PICK x, y, z \in Nat : x = F[k] /\ y = F[k - 1] /\ z = Len(s[k])
        BY <4>1
      <4>3. PICK w \in Nat : w = Len(v)
        BY <1>1, <1>7
      <4>4. x = y + z /\ x <= w /\ p \in 1..z
        BY <1>7, <3>3, <4>1, <4>2, <4>3
      <4>5. y + p \in 1..w
        BY <4>4
      <4> QED
        BY <4>2, <4>3, <4>5
    <3> QED
      BY <1>5, <3>2, <3>4
  <2> QED
    BY <2>1, <2>2
<1>8. t \o s[m + 1] = u
  BY <1>0, <1>2, <1>3, <1>4 DEF Behind
<1>9. Len(u) = F[j]
  BY <1>1, <1>5, <1>7
<1>10. Laid(A, s, F, j, u)
  BY <1>5, <1>6, <1>9 DEF Laid
<1> QED
  BY <1>0, <1>8, <1>10

LEMMA FlattenParts ==
  ASSUME NEW A, NEW n \in Nat, NEW s \in [1..n -> Seq(A)],
         NEW F \in [0..n -> Nat], RunningTotal(F, [k \in 1..n |-> Len(s[k])], n)
  PROVE  Laid(A, s, F, n, FlattenSeq(s))
<1>0. Len(s) = n /\ F[0] = 0
  BY DEF RunningTotal
<1>1. CASE n = 0
  <2>1. FlattenSeq(s) = s /\ s \in Seq(A)
    BY <1>0, <1>1 DEF FlattenSeq
  <2> QED
    BY <1>0, <1>1, <2>1 DEF Laid
<1>2. CASE n # 0
  <2>1. PICK f : Flattening(s, n, f) /\ FlattenSeq(s) = f[n]
    BY <1>0, <1>2, FlattenIs
  <2>2. f[1] = s[1] /\ \A m \in 1..(n - 1) : f[m + 1] = f[m] \o s[m + 1]
    <3>1. \A i \in 1..n : f[i] = LinkedTo(s, f, i)
      BY <2>1 DEF Flattening
    <3>2. f[1] = s[1]
      BY <1>2, <3>1 DEF LinkedTo
    <3>3. ASSUME NEW m \in 1..(n - 1) PROVE f[m + 1] = f[m] \o s[m + 1]
      <4>1. f[m + 1] = LinkedTo(s, f, m + 1)
        BY <3>1
      <4>2. m + 1 # 1 /\ (m + 1) - 1 = m
        OBVIOUS
      <4> QED
        BY <4>1, <4>2 DEF LinkedTo
    <3> QED
      BY <3>2, <3>3
  <2> DEFINE S == {m \in 0..n : m # 0 => Laid(A, s, F, m, f[m])}
  <2>3. 0 \in S
    BY SMT
  <2>4. ASSUME NEW m \in 0..(n - 1), m \in S PROVE m + 1 \in S
    <3>0. m + 1 \in 0..n
      OBVIOUS
    <3>1. CASE m = 0
      <4>1. f[1] = <<>> \o s[1]
        BY <1>2, <2>2
      <4>2. Laid(A, s, F, m, <<>>)
        BY <1>0, <3>1 DEF Laid
      <4>3. Laid(A, s, F, m + 1, <<>> \o s[m + 1])
        BY <4>2, PartsStep
      <4>4. m + 1 = 1
        BY <3>1
      <4> QED
        BY <3>0, <4>1, <4>3, <4>4
    <3>2. CASE m # 0
      <4>1. Laid(A, s, F, m, f[m]) /\ m \in 1..(n - 1)
        BY <2>4, <3>2
      <4>2. f[m + 1] = f[m] \o s[m + 1]
        BY <2>2, <4>1
      <4>3. Laid(A, s, F, m + 1, f[m] \o s[m + 1])
        BY <4>1, PartsStep
      <4> QED
        BY <3>0, <4>2, <4>3
    <3> QED
      BY <3>1, <3>2
  <2> HIDE DEF S
  <2>5. 0..n \subseteq S
    BY Zenon, <2>3, <2>4, IntervalInduction
  <2>6. n \in S
    BY <2>5
  <2> QED
    BY <1>2, <2>1, <2>6 DEF S
<1> QED
  BY <1>1, <1>2

\* The parts are put behind one another in their order.
Linked(A, n, s, g) ==
  /\ g \in [0..n -> Seq(A)] /\ g[0] = <<>>
  /\ \A m \in 1..n : g[m] = g[m - 1] \o s[m]

LEMMA FlattenSteps ==
  ASSUME NEW A, NEW n \in Nat, NEW s \in [1..n -> Seq(A)]
  PROVE  \E g : Linked(A, n, s, g) /\ g[n] = FlattenSeq(s)
<1>0. Len(s) = n
  OBVIOUS
<1>1. CASE n = 0
  <2>1. FlattenSeq(s) = s /\ s = <<>> /\ <<>> \in Seq(A)
    BY <1>0, <1>1 DEF FlattenSeq
  <2>2. PICK g : g = [m \in 0..n |-> <<>>]
    OBVIOUS
  <2>3. g \in [0..n -> Seq(A)] /\ g[0] = <<>> /\ g[n] = FlattenSeq(s) /\ 1..n = {}
    BY <1>1, <2>1, <2>2
  <2> QED
    BY <2>3 DEF Linked
<1>2. CASE n # 0
  <2>1. PICK f : Flattening(s, n, f) /\ FlattenSeq(s) = f[n]
    BY <1>0, <1>2, FlattenIs
  <2>2. PICK g : g = [m \in 0..n |-> IF m = 0 THEN <<>> ELSE f[m]]
    OBVIOUS
  <2>3. g[0] = <<>> /\ g[n] = FlattenSeq(s)
    BY <1>2, <2>1, <2>2
  <2>4. \A m \in 1..n : f[m] = LinkedTo(s, f, m)
    BY <2>1 DEF Flattening
  <2>5. ASSUME NEW m \in 1..n PROVE g[m] = g[m - 1] \o s[m] /\ g[m] = f[m] /\ s[m] \in Seq(A)
    <3>1. CASE m = 1
      <4>1. g[m] = s[m] /\ g[m - 1] = <<>> /\ s[m] \in Seq(A) /\ g[m] = f[m]
        BY <2>2, <2>3, <2>4, <3>1 DEF LinkedTo
      <4>2. <<>> \o s[m] = s[m]
        BY <4>1
      <4> QED
        BY <4>1, <4>2
    <3>2. CASE m # 1
      <4>1. m - 1 \in 1..n /\ m - 1 \in 0..n /\ m \in 0..n /\ m - 1 # 0 /\ m # 0
        BY <3>2
      <4> QED
        BY <2>2, <2>4, <3>2, <4>1 DEF LinkedTo
    <3> QED
      BY <3>1, <3>2
  <2> DEFINE S == {m \in 0..n : g[m] \in Seq(A)}
  <2>6. 0 \in S
    <3>1. <<>> \in Seq(A) /\ 0 \in 0..n
      OBVIOUS
    <3> QED
      BY <2>3, <3>1
  <2>7. ASSUME NEW m \in 0..(n - 1), m \in S PROVE m + 1 \in S
    <3>1. m + 1 \in 1..n /\ (m + 1) - 1 = m /\ m + 1 \in 0..n
      OBVIOUS
    <3>2. g[m + 1] = g[m] \o s[m + 1] /\ s[m + 1] \in Seq(A) /\ g[m] \in Seq(A)
      BY <2>5, <2>7, <3>1
    <3>3. \A v, w \in Seq(A) : v \o w \in Seq(A)
      BY ConcatProperties
    <3>4. g[m + 1] \in Seq(A)
      BY <3>2, <3>3
    <3> QED
      BY <3>1, <3>4
  <2> HIDE DEF S
  <2>8. 0..n \subseteq S
    BY <2>6, <2>7, IntervalInduction
  <2>9. g \in [0..n -> Seq(A)]
    BY <2>2, <2>8 DEF S
  <2> QED
    BY <2>3, <2>5, <2>9 DEF Linked
<1> QED
  BY <1>1, <1>2
=============================================================================
