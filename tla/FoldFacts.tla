----------------------------- MODULE FoldFacts -----------------------------
(***************************************************************************)
(* Facts about the folds of the community modules.  A fold is a recursion  *)
(* on sets; the lemmas give its equations and what holds of it by          *)
(* induction.  They are for one operator, base and order of the elements:  *)
(* a proof takes an instance of this module for each it needs.             *)
(***************************************************************************)
EXTENDS Induction, FiniteSets, FiniteSetTheorems

CONSTANTS op(_, _), base, choose(_)

\* MapThenFoldSet(op, base, LAMBDA i : f[i], choose, S), written out.
Fold(f, S) ==
  LET iter[s \in SUBSET S] ==
        IF s = {} THEN base ELSE op(f[choose(s)], iter[s \ {choose(s)}])
  IN  iter[S]

\* choose() finds an element in every subset of S that has one.
Chooses(S) == \A s \in SUBSET S : s # {} => choose(s) \in s

Step(f, g, s) == IF s = {} THEN base ELSE op(f[choose(s)], g[s \ {choose(s)}])

\* The recursion that defines the fold over S.
Folding(f, g, S) == g = [s \in SUBSET S |-> Step(f, g, s)]

\* A property of finite sets that the empty set has, and each set has when it is
\* left by the removal of its chosen element, is one of all subsets of S.
LEMMA SubsetInduction ==
  ASSUME NEW S, IsFiniteSet(S), Chooses(S), NEW P, {} \in P,
         \A s \in SUBSET S : s # {} /\ s \ {choose(s)} \in P => s \in P
  PROVE  SUBSET S \subseteq P
<1> DEFINE T == {k \in Nat : \A s \in SUBSET S : Cardinality(s) = k => s \in P}
<1>0. \A s \in SUBSET S : IsFiniteSet(s) /\ Cardinality(s) \in Nat
  BY FS_Subset, FS_CardinalityType
<1>1. 0 \in T
  BY <1>0, FS_EmptySet
<1>2. ASSUME NEW k \in Nat, k \in T PROVE k + 1 \in T
  <2> SUFFICES ASSUME NEW s \in SUBSET S, Cardinality(s) = k + 1 PROVE s \in P
    OBVIOUS
  <2>1. s # {}
    BY FS_EmptySet
  <2>2. choose(s) \in s
    BY <2>1 DEF Chooses
  <2>3. Cardinality(s \ {choose(s)}) = k /\ s \ {choose(s)} \in SUBSET S
    BY SMTT(30), <1>0, <2>2, FS_RemoveElement
  <2> QED
    BY <1>2, <2>1, <2>3
<1> HIDE DEF T
<1>3. Nat \subseteq T
  BY <1>1, <1>2, SetInduction
<1> QED
  BY <1>0, <1>3 DEF T

\* The recursion has a solution.
LEMMA FoldingExists ==
  ASSUME NEW S, IsFiniteSet(S), Chooses(S), NEW f
  PROVE  \E g : Folding(f, g, S)
<1> DEFINE D(k) == {s \in SUBSET S : Cardinality(s) <= k}
           T == {k \in Nat : \E g : g = [s \in D(k) |-> Step(f, g, s)]}
<1>0. \A s \in SUBSET S : IsFiniteSet(s) /\ Cardinality(s) \in Nat
  BY FS_Subset, FS_CardinalityType
<1>1. 0 \in T
  <2>1. \A s \in D(0) : s = {}
    BY <1>0, FS_EmptySet
  <2>2. [s \in D(0) |-> base] = [u \in D(0) |-> Step(f, [s \in D(0) |-> base], u)]
    BY <2>1 DEF Step
  <2> QED
    BY <2>2
<1>2. ASSUME NEW k \in Nat, k \in T PROVE k + 1 \in T
  <2>1. PICK g : g = [s \in D(k) |-> Step(f, g, s)]
    BY <1>2
  <2>2. PICK h : h = [s \in D(k + 1) |-> Step(f, g, s)]
    OBVIOUS
  <2>3. ASSUME NEW s \in D(k + 1), s # {} PROVE s \ {choose(s)} \in D(k)
    <3>1. choose(s) \in s
      BY <2>3 DEF Chooses
    <3>2. Cardinality(s \ {choose(s)}) = Cardinality(s) - 1
      BY <1>0, <3>1, FS_RemoveElement
    <3> QED
      BY <1>0, <3>2
  <2>4. \A s \in D(k) : h[s] = g[s]
    <3> SUFFICES ASSUME NEW s \in D(k) PROVE h[s] = g[s]
      OBVIOUS
    <3>1. s \in D(k + 1)
      BY <1>0
    <3> HIDE DEF D
    <3> QED
      BY <2>1, <2>2, <3>1
  <2>5. \A s \in D(k + 1) : Step(f, g, s) = Step(f, h, s)
    BY <2>3, <2>4 DEF Step
  <2> HIDE DEF D
  <2>6. h = [s \in D(k + 1) |-> Step(f, h, s)]
    BY <2>2, <2>5
  <2> QED
    BY <2>6
<1> HIDE DEF T
<1>3. Nat \subseteq T
  BY <1>1, <1>2, SetInduction
<1>4. Cardinality(S) \in T
  BY <1>0, <1>3
<1>5. D(Cardinality(S)) = SUBSET S
  BY <1>0, FS_Subset
<1> QED
  BY <1>4, <1>5 DEF T, Folding

\* Two that agree on the elements have the same solutions.
LEMMA FoldingUnique ==
  ASSUME NEW S, IsFiniteSet(S), NEW R \in SUBSET S, Chooses(S),
         NEW f, NEW e, \A x \in R : f[x] = e[x],
         NEW g, Folding(f, g, S), NEW h, Folding(e, h, R)
  PROVE  h[R] = g[R]
<1> DEFINE P == {s \in SUBSET R : h[s] = g[s]}
<1>1. /\ \A s \in SUBSET R : h[s] = Step(e, h, s) /\ g[s] = Step(f, g, s)
      /\ Chooses(R) /\ IsFiniteSet(R)
  BY FS_Subset DEF Folding, Chooses
<1>2. {} \in P
  BY <1>1 DEF Step
<1>3. ASSUME NEW s \in SUBSET R, s # {}, s \ {choose(s)} \in P PROVE s \in P
  <2>1. choose(s) \in R
    BY <1>1, <1>3 DEF Chooses
  <2> QED
    BY <1>1, <1>3, <2>1 DEF Step
<1> HIDE DEF P
<1>4. SUBSET R \subseteq P
  BY <1>1, <1>2, <1>3, SubsetInduction
<1> QED
  BY <1>4 DEF P

\* A fold is what any solution comes to.
LEMMA FoldIs ==
  ASSUME NEW S, IsFiniteSet(S), NEW R \in SUBSET S, Chooses(S),
         NEW f, NEW e, \A x \in R : f[x] = e[x], NEW g, Folding(f, g, S)
  PROVE  Fold(e, R) = g[R]
<1> DEFINE iter == CHOOSE h : h = [s \in SUBSET R |-> IF s = {} THEN base
                                    ELSE op(e[choose(s)], h[s \ {choose(s)}])]
<1>1. Fold(e, R) = iter[R]
  BY DEF Fold
<1>2. Chooses(R) /\ IsFiniteSet(R)
  BY FS_Subset DEF Chooses
<1>3. \E h : h = [s \in SUBSET R |-> IF s = {} THEN base
                                    ELSE op(e[choose(s)], h[s \ {choose(s)}])]
  <2>1. PICK h : Folding(e, h, R)
    BY <1>2, FoldingExists
  <2>2. h = [s \in SUBSET R |-> IF s = {} THEN base
                                ELSE op(e[choose(s)], h[s \ {choose(s)}])]
    BY <2>1 DEF Folding, Step
  <2> QED
    BY <2>2
<1>4. Folding(e, iter, R)
  BY <1>3 DEF Folding, Step
<1> HIDE DEF iter
<1> QED
  BY <1>1, <1>4, FoldingUnique

\* The equations of the fold.
LEMMA FoldEmpty ==
  ASSUME NEW f
  PROVE  Fold(f, {}) = base
<1>1. IsFiniteSet({}) /\ Chooses({})
  BY FS_EmptySet DEF Chooses
<1>2. PICK g : Folding(f, g, {})
  BY <1>1, FoldingExists
<1>3. g[{}] = base
  BY <1>2 DEF Folding, Step
<1> QED
  BY <1>1, <1>2, <1>3, FoldIs

LEMMA FoldStep ==
  ASSUME NEW S, IsFiniteSet(S), Chooses(S), S # {}, NEW f
  PROVE  /\ choose(S) \in S
         /\ Fold(f, S) = op(f[choose(S)], Fold(f, S \ {choose(S)}))
<1>1. PICK g : Folding(f, g, S)
  BY FoldingExists
<1>2. g[S] = op(f[choose(S)], g[S \ {choose(S)}])
  BY <1>1 DEF Folding, Step
<1>3. Fold(f, S) = g[S] /\ Fold(f, S \ {choose(S)}) = g[S \ {choose(S)}]
  BY <1>1, FoldIs
<1> QED
  BY <1>2, <1>3 DEF Chooses

\* What is folded is only the values on the set.
LEMMA FoldAgrees ==
  ASSUME NEW S, IsFiniteSet(S), Chooses(S), NEW f, NEW e, \A x \in S : f[x] = e[x]
  PROVE  Fold(f, S) = Fold(e, S)
<1>1. PICK g : Folding(f, g, S)
  BY FoldingExists
<1>2. Fold(f, S) = g[S]
  BY <1>1, FoldIs
<1>3. Fold(e, S) = g[S]
  BY <1>1, FoldIs
<1> QED
  BY <1>2, <1>3

\* choose() finds the largest element of every set of numbers up to n: the fold
\* of a sequence goes from its end to its begin.
ChoosesLargest(n) ==
  \A s \in SUBSET (1..n) : s # {} => choose(s) \in s /\ \A y \in s : choose(s) >= y

LEMMA FoldInterval ==
  ASSUME NEW n \in Nat, ChoosesLargest(n + 1), NEW f
  PROVE  Fold(f, 1..(n + 1)) = op(f[n + 1], Fold(f, 1..n))
<1>1. IsFiniteSet(1..(n + 1)) /\ Chooses(1..(n + 1)) /\ 1..(n + 1) # {}
  <2>1. IsFiniteSet(1..(n + 1))
    BY FS_Interval
  <2>2. n + 1 \in 1..(n + 1)
    OBVIOUS
  <2> QED
    BY <2>1, <2>2 DEF Chooses, ChoosesLargest
<1>2. choose(1..(n + 1)) \in 1..(n + 1) /\ choose(1..(n + 1)) >= n + 1
  BY DEF ChoosesLargest
<1>3. choose(1..(n + 1)) = n + 1 /\ (1..(n + 1)) \ {n + 1} = 1..n
  BY <1>2
<1> QED
  BY <1>1, <1>3, FoldStep

-----------------------------------------------------------------------------
\* op is commutative and associative on the values A, of which base is one.
Monoid(A) ==
  /\ base \in A
  /\ \A x, y \in A : op(x, y) \in A /\ op(x, y) = op(y, x)
  /\ \A x, y, z \in A : op(op(x, y), z) = op(x, op(y, z))

\* A fold of values of A is one.
LEMMA FoldType ==
  ASSUME NEW A, Monoid(A), NEW S, IsFiniteSet(S), Chooses(S), NEW f, \A x \in S : f[x] \in A
  PROVE  Fold(f, S) \in A
<1> DEFINE P == {s \in SUBSET S : Fold(f, s) \in A}
<1>1. {} \in P
  BY FoldEmpty DEF Monoid
<1>2. ASSUME NEW s \in SUBSET S, s # {}, s \ {choose(s)} \in P PROVE s \in P
  <2>1. /\ choose(s) \in s
        /\ Fold(f, s) = op(f[choose(s)], Fold(f, s \ {choose(s)}))
    BY <1>2, FoldStep, FS_Subset DEF Chooses
  <2>2. f[choose(s)] \in A /\ Fold(f, s \ {choose(s)}) \in A
    BY <1>2, <2>1
  <2>3. \A u, v \in A : op(u, v) \in A
    BY Zenon DEF Monoid
  <2>4. op(f[choose(s)], Fold(f, s \ {choose(s)})) \in A
    BY Zenon, <2>2, <2>3
  <2> QED
    BY <2>1, <2>4
<1> HIDE DEF P
<1>3. SUBSET S \subseteq P
  BY <1>1, <1>2, SubsetInduction
<1> QED
  BY <1>3 DEF P

\* Any element may be taken out first.
LEMMA FoldTakeOut ==
  ASSUME NEW A, Monoid(A), NEW S, IsFiniteSet(S), Chooses(S), NEW f, \A x \in S : f[x] \in A,
         NEW x \in S
  PROVE  Fold(f, S) = op(f[x], Fold(f, S \ {x}))
<1> DEFINE T == {k \in Nat : \A s \in SUBSET S : Cardinality(s) = k =>
                   \A y \in s : Fold(f, s) = op(f[y], Fold(f, s \ {y}))}
<1>0. \A s \in SUBSET S : IsFiniteSet(s) /\ Cardinality(s) \in Nat /\ Chooses(s)
  BY FS_Subset, FS_CardinalityType DEF Chooses
<1>1. 0 \in T
  BY <1>0, FS_EmptySet
<1>2. ASSUME NEW k \in Nat, k \in T PROVE k + 1 \in T
  <2> SUFFICES ASSUME NEW s \in SUBSET S, Cardinality(s) = k + 1, NEW y \in s
               PROVE  Fold(f, s) = op(f[y], Fold(f, s \ {y}))
    OBVIOUS
  <2> DEFINE c == choose(s)
             r == (s \ {c}) \ {y}
  <2>1. c \in s /\ Fold(f, s) = op(f[c], Fold(f, s \ {c}))
    BY <1>0, FoldStep
  <2>2. CASE y = c
    BY <2>1, <2>2
  <2>3. CASE y # c
    <3>1. /\ Cardinality(s \ {c}) = k /\ s \ {c} \in SUBSET S /\ y \in s \ {c}
          /\ Cardinality(s \ {y}) = k /\ s \ {y} \in SUBSET S /\ c \in s \ {y}
      BY <1>0, <2>1, <2>3, FS_RemoveElement
    <3>2. Fold(f, s \ {c}) = op(f[y], Fold(f, r))
      BY <1>2, <3>1
    <3>3. Fold(f, s \ {y}) = op(f[c], Fold(f, r))
      <4>1. (s \ {y}) \ {c} = r
        OBVIOUS
      <4> HIDE DEF c, r
      <4> QED
        BY <1>2, <3>1, <4>1
    <3>4. Fold(f, r) \in A /\ f[y] \in A /\ f[c] \in A
      <4>1. r \in SUBSET S
        OBVIOUS
      <4>2. Fold(f, r) \in A
        BY <1>0, <4>1, FoldType
      <4> QED
        BY <2>1, <4>2
    <3> HIDE DEF c, r
    <3>5. op(f[c], op(f[y], Fold(f, r))) = op(f[y], op(f[c], Fold(f, r)))
      <4> PICK u, v, w \in A : u = f[c] /\ v = f[y] /\ w = Fold(f, r)
        BY <3>4
      <4>1. \A a, b, d \in A : op(op(a, b), d) = op(a, op(b, d))
        BY DEF Monoid
      <4>2. op(op(u, v), w) = op(u, op(v, w)) /\ op(op(v, u), w) = op(v, op(u, w))
        BY <4>1
      <4>3. op(u, v) = op(v, u)
        BY DEF Monoid
      <4> QED
        BY <4>2, <4>3
    <3> QED
      BY <2>1, <3>2, <3>3, <3>5
  <2> QED
    BY <2>2, <2>3
<1> HIDE DEF T
<1>3. Nat \subseteq T
  BY <1>1, <1>2, SetInduction
<1>4. Cardinality(S) \in T /\ S \in SUBSET S
  BY <1>0, <1>3
<1> QED
  BY <1>4 DEF T
=============================================================================
