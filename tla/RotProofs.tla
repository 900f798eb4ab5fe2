----------------------------- MODULE RotProofs -----------------------------
(***************************************************************************)
(* Proofs about the transfers of module Rot, for pools of every size and   *)
(* calls of every shape: the receiver finds each message where the sender  *)
(* has put it, the pads cancel, the two cursors stay together, and what    *)
(* the pools do are steps of the ideal transfers.                          *)
(***************************************************************************)
EXTENDS Rot, RotPool, Induction

-----------------------------------------------------------------------------
\* The sizes of the transfers, added up.
AddTo(x, y) == y + x

Adding == INSTANCE FoldFacts WITH op <- AddTo, base <- 0, choose <- Max

\* The fold adds one number after the other.
LEMMA AddedUp ==
  ASSUME NEW n \in Nat, NEW c \in [1..n -> Nat], NEW F \in [0..n -> Nat], RunningTotal(F, c, n)
  PROVE  Adding!Fold(c, 1..n) = F[n]
<1> DEFINE S == {m \in 0..n : Adding!Fold(c, 1..m) = F[m]}
<1>1. 0 \in S
  <2>1. 1..0 = {} /\ 0 \in 0..n
    OBVIOUS
  <2>2. Adding!Fold(c, 1..0) = 0
    BY <2>1, Adding!FoldEmpty
  <2> QED
    BY <2>1, <2>2 DEF RunningTotal
<1>2. ASSUME NEW m \in 0..(n - 1), m \in S PROVE m + 1 \in S
  <2>1. m \in Nat /\ m + 1 \in Nat /\ m + 1 \in 1..n /\ m + 1 \in 0..n
    OBVIOUS
  <2>2. Adding!ChoosesLargest(m + 1)
    BY Zenon, <2>1, MaxIsLargest DEF Adding!ChoosesLargest
  <2>3. Adding!Fold(c, 1..(m + 1)) = AddTo(c[m + 1], Adding!Fold(c, 1..m))
    BY <2>1, <2>2, Adding!FoldInterval
  <2>4. F[m + 1] = F[m] + c[m + 1]
    BY <2>1 DEF RunningTotal
  <2> QED
    BY <1>2, <2>1, <2>3, <2>4 DEF AddTo
<1> HIDE DEF S
<1>3. 0..n \subseteq S
  BY Zenon, <1>1, <1>2, IntervalInduction
<1>4. n \in S
  BY <1>3
<1> QED
  BY <1>4 DEF S

LEMMA OffsetFold ==
  ASSUME NEW w, NEW k
  PROVE  Offset(w, k) = 2 * Adding!Fold(SubSeq(w, 1, k - 1), DOMAIN SubSeq(w, 1, k - 1))
BY DEF Offset, FoldLeft, MapThenFoldSet, Adding!Fold, AddTo

\* The pair of a transfer begins behind the pairs before it.
LEMMA OffsetIs ==
  ASSUME NEW n \in Nat, NEW w \in [1..n -> Nat], NEW F \in [0..n -> Nat], RunningTotal(F, w, n),
         NEW k \in 1..(n + 1)
  PROVE  Offset(w, k) = 2 * F[k - 1]
<1>1. PICK m \in 0..n : m = k - 1
  OBVIOUS
<1>2. PICK v \in [1..m -> Nat] : v = SubSeq(w, 1, m) /\ \A i \in 1..m : v[i] = w[i]
  <2>1. w \in Seq(Nat) /\ Len(w) = n
    BY LenProperties
  <2>2. /\ SubSeq(w, 1, m) \in Seq(Nat) /\ Len(SubSeq(w, 1, m)) = m
        /\ \A i \in 1..m : SubSeq(w, 1, m)[i] = w[i]
    BY <2>1
  <2> QED
    BY <2>2, LenProperties
<1>3. PICK G \in [0..m -> Nat] : G = [i \in 0..m |-> F[i]]
  <2>1. \A i \in 0..m : F[i] \in Nat
    OBVIOUS
  <2> QED
    BY <2>1
<1>4. RunningTotal(G, v, m)
  <2>1. \A i \in 1..m : i \in 1..n /\ i \in 0..m /\ i - 1 \in 0..m
    OBVIOUS
  <2>2. F[0] = 0 /\ \A i \in 1..n : F[i] = F[i - 1] + w[i]
    BY DEF RunningTotal
  <2> QED
    BY <1>2, <1>3, <2>1, <2>2 DEF RunningTotal
<1>5. Adding!Fold(v, 1..m) = G[m]
  <2>1. v \in [1..m -> Nat] /\ G \in [0..m -> Nat] /\ m \in Nat
    BY SMTT(30), <1>2, <1>3
  <2> QED
    BY Zenon, <1>4, <2>1, AddedUp
<1>6. Offset(w, k) = 2 * Adding!Fold(SubSeq(w, 1, k - 1), DOMAIN SubSeq(w, 1, k - 1))
  BY OffsetFold
<1>7. SubSeq(w, 1, k - 1) = v
  BY <1>1, <1>2
<1>8. DOMAIN v = 1..m
  BY <1>2
<1>9. Adding!Fold(v, DOMAIN v) = G[m]
  BY Zenon, <1>5, <1>8
<1>10. Offset(w, k) = 2 * Adding!Fold(v, DOMAIN v)
  BY Zenon, <1>6, <1>7
<1>11. G[m] = F[k - 1]
  BY <1>1, <1>3
<1> QED
  BY Zenon, <1>9, <1>10, <1>11

\* Transfers of one size stand at multiples of it.
OneSize(n, w, v) == \A i \in 1..n : w[i] = v
Multiples(n, F, v) == \A k \in 0..n : F[k] = k * v

LEMMA EqualSizes ==
  ASSUME NEW n \in Nat, NEW w, NEW F \in [0..n -> Nat], RunningTotal(F, w, n),
         NEW v \in Nat, OneSize(n, w, v)
  PROVE  Multiples(n, F, v)
<1> DEFINE S == {m \in 0..n : F[m] = m * v}
<1>1. 0 \in S
  <2>1. F[0] = 0 /\ 0 * v = 0
    BY DEF RunningTotal
  <2> QED
    BY <2>1
<1>2. ASSUME NEW m \in 0..(n - 1), m \in S PROVE m + 1 \in S
  <2>1. m + 1 \in 1..n /\ m \in Nat /\ (m + 1) * v = m * v + v
    OBVIOUS
  <2>2. F[m + 1] = F[m] + v
    BY SMTT(30), <2>1 DEF RunningTotal, OneSize
  <2> QED
    BY <1>2, <2>1, <2>2
<1> HIDE DEF S
<1>3. 0..n \subseteq S
  BY Zenon, <1>1, <1>2, IntervalInduction
<1> QED
  BY <1>3 DEF S, Multiples

-----------------------------------------------------------------------------
\* What the sender writes, and where the receiver looks for it.
\* A part of a sequence is found at its place.
LEMMA FoundAt ==
  ASSUME NEW A, NEW t \in Seq(A), NEW e \in Seq(A), NEW v, v = Len(e), NEW from \in Nat,
         from + v <= Len(t), \A p \in 1..v : t[from + p] = e[p]
  PROVE  SubSeq(t, from + 1, from + v) = e
<1>1. v \in Nat /\ Len(t) \in Nat
  OBVIOUS
<1> PICK u : u = SubSeq(t, from + 1, from + v)
  OBVIOUS
<1>2. u \in Seq(A) /\ Len(u) = v /\ \A p \in 1..v : u[p] = t[from + p]
  <2>1. from + 1 \in Int /\ from + v \in Int
    BY <1>1
  <2>2. \A i \in (from + 1)..(from + v) : i \in 1..Len(t)
    BY <1>1
  <2>3. Len(u) = v
    BY <1>1, SubSeqProperties
  <2>4. \A p \in 1..v : u[p] = t[from + p]
    BY <1>1, <2>3, SubSeqProperties
  <2>5. u \in Seq(A)
    BY <1>1, <2>1, <2>2, SubSeqProperties
  <2> QED
    BY <2>3, <2>4, <2>5
<1>3. u = e
  BY <1>1, <1>2, SeqEqual
<1> QED
  BY <1>3

\* The two messages of a transfer of w[k] bits.
Pairs(A, n, w, m0, m1) ==
  /\ m0 \in [1..n -> Seq(A)] /\ m1 \in [1..n -> Seq(A)]
  /\ \A k \in 1..n : Len(m0[k]) = w[k] /\ Len(m1[k]) = w[k]

\* Two of one length.
Rows(A, n, x, y, u) ==
  u \in Seq(A) /\ Len(u) = 2 * n /\ \A k \in 1..n : u[k] = x[k] /\ u[n + k] = y[k]

LEMMA TwoRows ==
  ASSUME NEW A, NEW n \in Nat, NEW x, IsOver(A, x), Len(x) = n, NEW y, IsOver(A, y), Len(y) = n
  PROVE  Rows(A, n, x, y, Behind(x, y))
<1>1. StandsBehind(A, x, y, Behind(x, y))
  BY Continued
<1> QED
  BY <1>1 DEF Rows, StandsBehind

LEMMA OnePair ==
  ASSUME NEW A, NEW n, NEW w, NEW m0, NEW m1, Pairs(A, n, w, m0, m1), NEW k \in 1..n,
         w[k] \in Nat
  PROVE  Rows(A, w[k], m0[k], m1[k], Behind(m0[k], m1[k]))
<1>1. IsOver(A, m0[k]) /\ IsOver(A, m1[k]) /\ Len(m0[k]) = w[k] /\ Len(m1[k]) = w[k]
  BY DEF Pairs, IsOver
<1> QED
  BY <1>1, TwoRows

PairsAt(A, n, w, F, m0, m1, t) ==
  /\ t \in Seq(A) /\ Len(t) = 2 * F[n]
  /\ \A k \in 1..n : \A p \in 1..w[k] :
       t[2 * F[k - 1] + p] = m0[k][p] /\ t[2 * F[k - 1] + w[k] + p] = m1[k][p]

BitsAt(A, n, m0, m1, t) ==
  /\ t \in Seq(A) /\ Len(t) = 2 * n
  /\ \A k \in 1..n : t[k] = m0[k][1] /\ t[n + k] = m1[k][1]

\* Pair after pair.
LEMMA PairsLaid ==
  ASSUME NEW A, NEW n \in Nat, NEW w \in [1..n -> Nat],
         NEW F \in [0..n -> Nat], RunningTotal(F, w, n),
         NEW m0, NEW m1, Pairs(A, n, w, m0, m1),
         NEW t, t = FlattenSeq([k \in 1..n |-> m0[k] \o m1[k]])
  PROVE  PairsAt(A, n, w, F, m0, m1, t)
<1>1. PICK s : s = [k \in 1..n |-> m0[k] \o m1[k]]
  OBVIOUS
<1>2. ASSUME NEW k \in 1..n
      PROVE  /\ s[k] \in Seq(A) /\ Len(s[k]) = 2 * w[k]
             /\ \A p \in 1..w[k] : s[k][p] = m0[k][p] /\ s[k][w[k] + p] = m1[k][p]
  <2>1. w[k] \in Nat
    OBVIOUS
  <2>2. PICK u : u = Behind(m0[k], m1[k])
    OBVIOUS
  <2>3. Rows(A, w[k], m0[k], m1[k], u)
    BY <2>1, <2>2, OnePair
  <2>4. s[k] = u
    BY <1>1, <2>2 DEF Behind
  <2> QED
    BY <2>3, <2>4 DEF Rows
<1>3. PICK G \in [0..n -> Nat] : G = [i \in 0..n |-> 2 * F[i]]
  <2>1. \A i \in 0..n : 2 * F[i] \in Nat
    OBVIOUS
  <2> QED
    BY <2>1
<1>4. s \in [1..n -> Seq(A)]
  BY <1>1, <1>2
<1>5. RunningTotal(G, [k \in 1..n |-> Len(s[k])], n)
  <2>1. F[0] = 0 /\ \A i \in 1..n : F[i] = F[i - 1] + w[i]
    BY DEF RunningTotal
  <2>2. G[0] = 0
    BY <1>3, <2>1
  <2>3. ASSUME NEW i \in 1..n PROVE G[i] = G[i - 1] + Len(s[i])
    <3>1. i \in 0..n /\ i - 1 \in 0..n
      OBVIOUS
    <3>2. G[i] = 2 * F[i] /\ G[i - 1] = 2 * F[i - 1] /\ F[i] = F[i - 1] + w[i] /\ Len(s[i]) = 2 * w[i]
      BY <1>2, <1>3, <2>1, <3>1
    <3>3. F[i] \in Nat /\ F[i - 1] \in Nat /\ w[i] \in Nat
      BY <3>1
    <3> QED
      BY <3>2, <3>3
  <2> QED
    BY <2>2, <2>3 DEF RunningTotal
<1>6. Laid(A, s, G, n, t)
  <2>1. Laid(A, s, G, n, FlattenSeq(s))
    BY <1>3, <1>4, <1>5, FlattenParts
  <2> QED
    BY <1>1, <2>1
<1>7. t \in Seq(A) /\ Len(t) = 2 * F[n]
  BY <1>3, <1>6 DEF Laid
<1>8. ASSUME NEW k \in 1..n, NEW p \in 1..w[k]
      PROVE  t[2 * F[k - 1] + p] = m0[k][p] /\ t[2 * F[k - 1] + w[k] + p] = m1[k][p]
  <2>1. k - 1 \in 0..n /\ w[k] \in Nat /\ F[k - 1] \in Nat
    OBVIOUS
  <2>2. G[k - 1] = 2 * F[k - 1]
    BY <1>3, <2>1
  <2>3. p \in 1..Len(s[k]) /\ w[k] + p \in 1..Len(s[k])
    <3>1. PICK v \in Nat : v = w[k]
      BY <2>1
    <3>2. Len(s[k]) = 2 * v /\ p \in 1..v
      BY <1>2, <3>1
    <3>3. p \in 1..(2 * v) /\ v + p \in 1..(2 * v)
      BY <3>1, <3>2
    <3> QED
      BY <3>1, <3>2, <3>3
  <2>4. t[G[k - 1] + p] = s[k][p] /\ t[G[k - 1] + (w[k] + p)] = s[k][w[k] + p]
    BY <1>6, <2>3 DEF Laid
  <2>5. G[k - 1] + (w[k] + p) = 2 * F[k - 1] + w[k] + p
    BY SMTT(30), <2>1, <2>2
  <2> QED
    BY <1>2, <2>2, <2>4, <2>5
<1> QED
  BY <1>7, <1>8 DEF PairsAt

\* All of the first bits and then all of the second.
LEMMA BitsLaid ==
  ASSUME NEW A, NEW n \in Nat, NEW w \in [1..n -> Nat], \A k \in 1..n : w[k] = 1,
         NEW m0, NEW m1, Pairs(A, n, w, m0, m1),
         NEW t, t = FlattenSeq(m0) \o FlattenSeq(m1)
  PROVE  BitsAt(A, n, m0, m1, t)
<1>1. ASSUME NEW s \in [1..n -> Seq(A)], \A k \in 1..n : Len(s[k]) = 1
      PROVE  /\ FlattenSeq(s) \in Seq(A) /\ Len(FlattenSeq(s)) = n
             /\ \A k \in 1..n : FlattenSeq(s)[k] = s[k][1]
  <2>1. PICK F \in [0..n -> Nat] : F = [i \in 0..n |-> i]
    <3>1. \A i \in 0..n : i \in Nat
      OBVIOUS
    <3> QED
      BY <3>1
  <2>2. RunningTotal(F, [k \in 1..n |-> Len(s[k])], n)
    <3>1. F[0] = 0
      BY <2>1
    <3>2. ASSUME NEW k \in 1..n PROVE F[k] = F[k - 1] + Len(s[k])
      <4>1. k \in 0..n /\ k - 1 \in 0..n
        OBVIOUS
      <4>2. F[k] = k /\ F[k - 1] = k - 1 /\ Len(s[k]) = 1
        BY <1>1, <2>1, <4>1
      <4> QED
        BY <4>2
    <3> QED
      BY <3>1, <3>2 DEF RunningTotal
  <2>3. Laid(A, s, F, n, FlattenSeq(s))
    BY <2>1, <2>2, FlattenParts
  <2>4. FlattenSeq(s) \in Seq(A) /\ Len(FlattenSeq(s)) = n
    BY <2>1, <2>3 DEF Laid
  <2>5. ASSUME NEW k \in 1..n PROVE FlattenSeq(s)[k] = s[k][1]
    <3>1. 1 \in 1..Len(s[k]) /\ F[k - 1] + 1 = k
      <4>1. k - 1 \in 0..n
        OBVIOUS
      <4>2. F[k - 1] = k - 1 /\ Len(s[k]) = 1
        BY <1>1, <2>1, <4>1
      <4> QED
        BY <4>2
    <3>2. FlattenSeq(s)[F[k - 1] + 1] = s[k][1]
      BY <2>3, <3>1 DEF Laid
    <3> QED
      BY <3>1, <3>2
  <2> QED
    BY <2>4, <2>5
<1>2. PICK x, y : x = FlattenSeq(m0) /\ y = FlattenSeq(m1)
  OBVIOUS
<1>3. /\ x \in Seq(A) /\ Len(x) = n /\ \A k \in 1..n : x[k] = m0[k][1]
      /\ y \in Seq(A) /\ Len(y) = n /\ \A k \in 1..n : y[k] = m1[k][1]
  BY <1>1, <1>2 DEF Pairs
<1>4. Rows(A, n, x, y, Behind(x, y))
  <2>1. IsOver(A, x) /\ IsOver(A, y) /\ Len(x) = n /\ Len(y) = n
    BY <1>3 DEF IsOver
  <2> QED
    BY <2>1, TwoRows
<1>5. t = Behind(x, y)
  BY <1>2 DEF Behind
<1> QED
  BY <1>3, <1>4, <1>5 DEF Rows, BitsAt

\* A shape that the calls may have, for n transfers of the sizes w.
ShapeOK(form, n, w) ==
  /\ form \in {"bits", "same", "mixed"} /\ w \in [1..n -> Nat \ {0}]
  /\ form = "bits" => \A k \in 1..n : w[k] = 1
  /\ form = "same" => \A j, k \in 1..n : w[j] = w[k]

\* Where the receiver looks for message c of transfer k.
Place(form, n, w, k, c) ==
  IF form = "bits" THEN c * n + (k - 1)
  ELSE IF form = "same" THEN (k - 1) * 2 * w[k] + c * w[k] ELSE Offset(w, k) + c * w[k]

LEMMA SliceAtPlace ==
  ASSUME NEW form, NEW n, NEW w, ShapeOK(form, n, w), n \in Nat, NEW t, NEW k, NEW c,
         NEW from, from = Place(form, n, w, k, c)
  PROVE  Slice(form, t, w, k, c) = SubSeq(t, from + 1, from + w[k])
<1>1. Len(w) = n
  BY LenProperties DEF ShapeOK
<1> QED
  BY <1>1 DEF Slice, Place, ShapeOK

Branch(m0, m1, c) == IF c = 0 THEN m0 ELSE m1

\* The place has the message.
Located(form, n, w, k, c, t, e) ==
  \A from \in {Place(form, n, w, k, c)} :
    /\ from \in Nat /\ from + w[k] <= Len(t)
    /\ \A p \in 1..w[k] : t[from + p] = e[p]

LEMMA MessageAtPlace ==
  ASSUME NEW A, NEW n \in Nat, NEW form, NEW w, ShapeOK(form, n, w),
         NEW m0, NEW m1, Pairs(A, n, w, m0, m1), NEW t, t = Layout(form, m0, m1)
  PROVE  /\ t \in Seq(A) /\ Len(t) = Offset(w, n + 1)
         /\ \A k \in 1..n : \A c \in {0, 1} :
              Located(form, n, w, k, c, t, Branch(m0[k], m1[k], c))
<1>1. w \in [1..n -> Nat] /\ \A k \in 1..n : w[k] \in Nat
  BY DEF ShapeOK
<1>2. PICK F \in [0..n -> Nat] : RunningTotal(F, w, n)
  BY <1>1, RunningTotals
<1>3. n + 1 \in 1..(n + 1) /\ (n + 1) - 1 = n
  OBVIOUS
<1>4. \A k \in 1..(n + 1) : Offset(w, k) = 2 * F[k - 1]
  BY <1>1, <1>2, OffsetIs
<1>5. Offset(w, n + 1) = 2 * F[n]
  BY <1>3, <1>4
<1>6. CASE form = "bits"
  <2>1. \A k \in 1..n : w[k] = 1
    BY <1>6 DEF ShapeOK
  <2>2. t = FlattenSeq(m0) \o FlattenSeq(m1)
    BY <1>6 DEF Layout
  <2>3. /\ t \in Seq(A) /\ Len(t) = 2 * n
        /\ \A k \in 1..n : t[k] = m0[k][1] /\ t[n + k] = m1[k][1]
    <3>1. BitsAt(A, n, m0, m1, t)
      BY <1>1, <2>1, <2>2, BitsLaid
    <3> QED
      BY <3>1 DEF BitsAt
  <2>4. F[n] = n
    <3>1. OneSize(n, w, 1)
      BY <2>1 DEF OneSize
    <3>2. Multiples(n, F, 1)
      BY <1>2, <3>1, EqualSizes
    <3> QED
      BY <3>2 DEF Multiples
  <2>5. ASSUME NEW k \in 1..n, NEW c \in {0, 1}, NEW from, from = Place(form, n, w, k, c)
        PROVE  /\ from \in Nat /\ from + w[k] <= Len(t)
               /\ \A p \in 1..w[k] : t[from + p] = Branch(m0[k], m1[k], c)[p]
    <3>1. from = c * n + (k - 1) /\ w[k] = 1
      BY <1>6, <2>1, <2>5 DEF Place
    <3>2. CASE c = 0
      <4>1. from + 1 = k
        BY <3>1, <3>2
      <4> QED
        BY <2>3, <3>1, <3>2, <4>1 DEF Branch
    <3>3. CASE c = 1
      <4>1. from + 1 = n + k
        BY <3>1, <3>3
      <4> QED
        BY <2>3, <3>1, <3>3, <4>1 DEF Branch
    <3> QED
      BY <3>2, <3>3
  <2> QED
    BY <1>5, <2>3, <2>4, <2>5 DEF Located
<1>7. CASE form # "bits"
  <2>1. t = FlattenSeq([k \in 1..n |-> m0[k] \o m1[k]])
    <3>1. DOMAIN m0 = 1..n
      BY DEF Pairs
    <3> QED
      BY <1>7, <3>1 DEF Layout
  <2>2. /\ t \in Seq(A) /\ Len(t) = 2 * F[n]
        /\ \A k \in 1..n : \A p \in 1..w[k] :
             t[2 * F[k - 1] + p] = m0[k][p] /\ t[2 * F[k - 1] + w[k] + p] = m1[k][p]
    <3>1. w \in [1..n -> Nat] /\ F \in [0..n -> Nat] /\ RunningTotal(F, w, n)
      BY <1>1, <1>2
    <3>2. PairsAt(A, n, w, F, m0, m1, t)
      BY <2>1, <3>1, PairsLaid
    <3> QED
      BY <3>2 DEF PairsAt
  <2>3. ASSUME NEW k \in 1..n, NEW c \in {0, 1}, NEW from, from = Place(form, n, w, k, c)
        PROVE  /\ from \in Nat /\ from + w[k] <= Len(t)
               /\ \A p \in 1..w[k] : t[from + p] = Branch(m0[k], m1[k], c)[p]
    <3>1. PICK v \in Nat : v = w[k]
      BY <1>1
    <3>2. PICK f \in Nat : f = F[k - 1]
      BY <1>2
    <3>3. f + v <= F[n] /\ F[n] \in Nat
      <4>1. k \in 0..n /\ n \in 0..n
        OBVIOUS
      <4>2. F[k] <= F[n]
        BY <1>1, <1>2, <4>1, TotalsGrow
      <4>3. F[k] = f + v
        BY <1>2, <3>1, <3>2 DEF RunningTotal
      <4> QED
        BY <1>2, <4>2, <4>3
    <3>4. from = 2 * f + c * v
      <4>1. CASE form = "same"
        <5>1. \A i \in 1..n : w[i] = v
          BY <3>1, <4>1 DEF ShapeOK
        <5>2. k - 1 \in 0..n /\ k - 1 \in Nat
          OBVIOUS
        <5>3. F[k - 1] = (k - 1) * v
          <6>1. F \in [0..n -> Nat] /\ RunningTotal(F, w, n) /\ v \in Nat
            BY <1>2, <3>1
          <6>2. PICK j \in 0..n : j = k - 1
            BY <5>2
          <6>3. OneSize(n, w, v)
            BY <5>1 DEF OneSize
          <6>4. Multiples(n, F, v)
            BY <6>1, <6>3, EqualSizes
          <6>5. F[j] = j * v
            BY <6>4 DEF Multiples
          <6> QED
            BY <6>2, <6>5
        <5>4. from = (k - 1) * 2 * v + c * v
          BY <2>3, <3>1, <4>1 DEF Place
        <5>5. (k - 1) * 2 * v = 2 * ((k - 1) * v)
          BY <5>2
        <5> QED
          BY <3>2, <5>3, <5>4, <5>5
      <4>2. CASE form # "same"
        <5>1. from = Offset(w, k) + c * v
          BY <1>7, <2>3, <3>1, <4>2 DEF Place
        <5>2. k \in 1..(n + 1)
          OBVIOUS
        <5> QED
          BY <1>4, <3>2, <5>1, <5>2
      <4> QED
        BY <4>1, <4>2
    <3>5. CASE c = 0
      <4>1. from = 2 * f
        BY <3>4, <3>5
      <4>2. from \in Nat /\ from + v <= 2 * F[n]
        BY <3>3, <4>1
      <4>3. from + w[k] <= Len(t)
        BY <2>2, <3>1, <4>2
      <4>4. ASSUME NEW p \in 1..w[k] PROVE t[from + p] = Branch(m0[k], m1[k], c)[p]
        <5>1. t[2 * F[k - 1] + p] = m0[k][p]
          BY <2>2
        <5>2. 2 * F[k - 1] + p = from + p
          BY <3>1, <3>2, <4>1
        <5>3. Branch(m0[k], m1[k], c) = m0[k]
          BY <3>5 DEF Branch
        <5> QED
          BY <5>1, <5>2, <5>3
      <4> QED
        BY <4>2, <4>3, <4>4
    <3>6. CASE c = 1
      <4>1. from = 2 * f + v
        BY <3>4, <3>6
      <4>2. from \in Nat /\ from + v <= 2 * F[n]
        BY <3>3, <4>1
      <4>3. from + w[k] <= Len(t)
        BY <2>2, <3>1, <4>2
      <4>4. ASSUME NEW p \in 1..w[k] PROVE t[from + p] = Branch(m0[k], m1[k], c)[p]
        <5>1. t[2 * F[k - 1] + w[k] + p] = m1[k][p]
          BY <2>2
        <5>2. 2 * F[k - 1] + w[k] + p = from + p
          BY <3>1, <3>2, <4>1
        <5>3. Branch(m0[k], m1[k], c) = m1[k]
          BY <3>6 DEF Branch
        <5> QED
          BY <5>1, <5>2, <5>3
      <4> QED
        BY <4>2, <4>3, <4>4
    <3> QED
      BY <3>5, <3>6
  <2> QED
    BY <1>5, <2>2, <2>3 DEF Located
<1> QED
  BY <1>6, <1>7

\* The receiver finds each message where the sender has put it.
LEMMA SliceFindsMessage ==
  ASSUME NEW A, NEW n \in Nat, NEW form, NEW w, ShapeOK(form, n, w),
         NEW m0, NEW m1, Pairs(A, n, w, m0, m1), NEW k \in 1..n, NEW c \in {0, 1}
  PROVE  Slice(form, Layout(form, m0, m1), w, k, c) = Branch(m0[k], m1[k], c)
<1>1. PICK t : t = Layout(form, m0, m1)
  OBVIOUS
<1>2. PICK from : from = Place(form, n, w, k, c)
  OBVIOUS
<1>3. /\ t \in Seq(A) /\ from \in Nat /\ from + w[k] <= Len(t)
      /\ \A p \in 1..w[k] : t[from + p] = Branch(m0[k], m1[k], c)[p]
  <2>1. t \in Seq(A) /\ Located(form, n, w, k, c, t, Branch(m0[k], m1[k], c))
    BY <1>1, MessageAtPlace
  <2> QED
    BY <1>2, <2>1 DEF Located
<1>4. Slice(form, t, w, k, c) = SubSeq(t, from + 1, from + w[k])
  BY <1>2, SliceAtPlace
<1>5. PICK e \in Seq(A) : e = Branch(m0[k], m1[k], c)
  BY DEF Pairs, Branch
<1>6. Len(e) = w[k]
  BY <1>5 DEF Pairs, Branch
<1>7. SubSeq(t, from + 1, from + w[k]) = e
  <2>1. /\ t \in Seq(A) /\ e \in Seq(A) /\ w[k] = Len(e) /\ from \in Nat
        /\ from + w[k] <= Len(t) /\ \A p \in 1..w[k] : t[from + p] = e[p]
    BY <1>3, <1>5, <1>6
  <2> QED
    BY <2>1, FoundAt
<1> QED
  BY <1>1, <1>4, <1>5, <1>7

-----------------------------------------------------------------------------
\* The pads cancel.
Unknowns == ({"m"} \X Nat \X Nat \X {0, 1} \X Nat) \cup ({"aes", "r"} \X Nat \X {0, 1} \X Nat)
Bits == SUBSET Unknowns

LEMMA XorTwice ==
  ASSUME NEW x, NEW y
  PROVE  Xor(Xor(x, y), y) = x
BY DEF Xor, SymDiff

\* Strings of v bits.
Strings(v) == [1..v -> Bits]

LEMMA StringTypes ==
  ASSUME NEW v \in Nat
  PROVE  /\ \A i \in Nat, k \in Nat, c \in {0, 1} : Message(i, k, c, v) \in Strings(v)
         /\ \A i \in Nat, m \in {0, 1} : Block(i, m, v) \in Strings(v)
         /\ \A x, y \in Strings(v) : XorSeq(x, y) \in Strings(v)
<1>1. ASSUME NEW i \in Nat, NEW k \in Nat, NEW c \in {0, 1}
      PROVE  Message(i, k, c, v) \in Strings(v)
  <2>1. \A p \in 1..v : <<"m", i, k, c, p>> \in Unknowns
    BY DEF Unknowns
  <2> QED
    BY <2>1 DEF Message, Strings, Bits
<1>2. ASSUME NEW i \in Nat, NEW m \in {0, 1}
      PROVE  Block(i, m, v) \in Strings(v)
  <2>1. \A p \in 1..v : <<"aes", i, m, p>> \in Unknowns /\ <<"r", i, m, p>> \in Unknowns
    BY DEF Unknowns
  <2> QED
    BY <2>1 DEF Block, Strings, Bits
<1>3. ASSUME NEW x \in Strings(v), NEW y \in Strings(v) PROVE XorSeq(x, y) \in Strings(v)
  <2>1. Len(x) = v
    BY DEF Strings
  <2>2. \A p \in 1..v : Xor(x[p], y[p]) \in Bits
    <3> SUFFICES ASSUME NEW p \in 1..v PROVE Xor(x[p], y[p]) \in Bits
      OBVIOUS
    <3>1. x[p] \in SUBSET Unknowns /\ y[p] \in SUBSET Unknowns
      BY DEF Strings, Bits
    <3> HIDE DEF Unknowns
    <3> QED
      BY <3>1 DEF Xor, SymDiff, Bits
  <2> QED
    BY <2>1, <2>2 DEF XorSeq, Strings
<1> QED
  BY <1>1, <1>2, <1>3

LEMMA PadCancels ==
  ASSUME NEW v \in Nat, NEW x \in Strings(v), NEW y \in Strings(v)
  PROVE  XorSeq(XorSeq(x, y), y) = x
<1>1. PICK z \in Strings(v) : z = XorSeq(x, y)
  BY StringTypes
<1>2. Len(x) = v /\ Len(z) = v
  BY DEF Strings
<1>3. \A p \in 1..v : z[p] = Xor(x[p], y[p])
  BY <1>1, <1>2 DEF XorSeq
<1>4. \A p \in 1..v : Xor(z[p], y[p]) = x[p]
  BY <1>3, XorTwice
<1>5. XorSeq(z, y) = [p \in 1..v |-> x[p]]
  BY <1>2, <1>4 DEF XorSeq
<1>6. x = [p \in 1..v |-> x[p]]
  BY DEF Strings
<1> QED
  BY <1>1, <1>5, <1>6

\* The sender's pad of the chosen message is the receiver's block.
LEMMA SamePad ==
  ASSUME NEW bit \in {0, 1}, NEW c \in {0, 1}
  PROVE  Swap(bit, c) \in {0, 1} /\ PadBranch(c, Swap(bit, c)) = bit
BY DEF Swap, PadBranch

LEMMA PadBranchType ==
  ASSUME NEW s \in {0, 1}, NEW c \in {0, 1}
  PROVE  PadBranch(c, s) \in {0, 1}
BY DEF PadBranch

-----------------------------------------------------------------------------
\* A call of a shape that the parties have agreed on.
Transfers(shape) == Len(shape.widths)

LEMMA ShapeIsOK ==
  ASSUME NEW shape \in Shapes
  PROVE  /\ Transfers(shape) \in Nat
         /\ ShapeOK(shape.form, Transfers(shape), shape.widths)
<1>1. shape.widths \in Seq(Nat \ {0})
  BY ShapesAssumption
<1>2. /\ Len(shape.widths) \in Nat
      /\ shape.widths \in [1..Len(shape.widths) -> Nat \ {0}]
      /\ DOMAIN shape.widths = 1..Len(shape.widths)
  BY <1>1, LenProperties
<1> QED
  BY <1>2, ShapesAssumption DEF ShapeOK, Transfers

\* Bits are exchanged in a call exactly when it has transfers.
LEMMA BitsOfCall ==
  ASSUME NEW n \in Nat, NEW form, NEW w, ShapeOK(form, n, w)
  PROVE  Offset(w, n + 1) \in Nat /\ (Offset(w, n + 1) = 0 <=> n = 0)
<1>1. w \in [1..n -> Nat] /\ \A k \in 1..n : w[k] \in Nat /\ w[k] # 0
  BY DEF ShapeOK
<1>2. PICK F \in [0..n -> Nat] : RunningTotal(F, w, n)
  BY <1>1, RunningTotals
<1>3. Offset(w, n + 1) = 2 * F[n] /\ F[n] \in Nat
  <2>1. n + 1 \in 1..(n + 1) /\ (n + 1) - 1 = n
    OBVIOUS
  <2>2. \A k \in 1..(n + 1) : Offset(w, k) = 2 * F[k - 1]
    BY <1>1, <1>2, OffsetIs
  <2> QED
    BY <1>2, <2>1, <2>2
<1>4. F[0] = 0
  BY <1>2 DEF RunningTotal
<1>5. CASE n = 0
  BY <1>3, <1>4, <1>5
<1>6. CASE n # 0
  <2>1. 1 \in 1..n /\ 1 \in 0..n /\ n \in 0..n
    BY <1>6
  <2>2. F[1] <= F[n]
    BY <1>1, <1>2, <2>1, TotalsGrow
  <2>3. F[1] = w[1] /\ w[1] \in Nat /\ w[1] # 0
    BY <1>1, <1>2, <1>4, <2>1 DEF RunningTotal
  <2> QED
    BY <1>3, <1>6, <2>2, <2>3
<1> QED
  BY <1>5, <1>6

\* The sender's message c of transfer k of call i under the pad that the swap s
\* selects, when its pool stands at o; and what it writes.
Masking(shape, i, o, k, c, s) ==
  XorSeq(Message(i, k, c, shape.widths[k]), Block(o + k - 1, PadBranch(c, s), shape.widths[k]))

Row(shape, i, o, swap, c) == [k \in 1..Transfers(shape) |-> Masking(shape, i, o, k, c, swap[k])]
Answer(shape, i, o, swap) ==
  Layout(shape.form, Row(shape, i, o, swap, 0), Row(shape, i, o, swap, 1))

LEMMA RowTypes ==
  ASSUME NEW shape \in Shapes, NEW i \in Nat, NEW o \in Nat,
         NEW swap \in [1..Transfers(shape) -> {0, 1}]
  PROVE  /\ Pairs(Bits, Transfers(shape), shape.widths,
                  Row(shape, i, o, swap, 0), Row(shape, i, o, swap, 1))
         /\ \A k \in 1..Transfers(shape) : \A c \in {0, 1} :
              Masking(shape, i, o, k, c, swap[k]) \in Strings(shape.widths[k])
<1>1. \A k \in 1..Transfers(shape) : shape.widths[k] \in Nat
  BY ShapeIsOK DEF ShapeOK
<1>2. ASSUME NEW k \in 1..Transfers(shape), NEW c \in {0, 1}
      PROVE  Masking(shape, i, o, k, c, swap[k]) \in Strings(shape.widths[k])
  <2>1. PICK v \in Nat : v = shape.widths[k]
    BY <1>1
  <2>2. k \in Nat /\ o + k - 1 \in Nat /\ Transfers(shape) \in Nat
    BY ShapeIsOK
  <2>3. PadBranch(c, swap[k]) \in {0, 1}
    BY PadBranchType
  <2>4. Message(i, k, c, v) \in Strings(v) /\ Block(o + k - 1, PadBranch(c, swap[k]), v) \in Strings(v)
    BY <2>2, <2>3, StringTypes
  <2>5. XorSeq(Message(i, k, c, v), Block(o + k - 1, PadBranch(c, swap[k]), v)) \in Strings(v)
    BY <2>4, StringTypes
  <2> QED
    BY <2>1, <2>5 DEF Masking
<1>3. \A v \in Nat : \A x \in Strings(v) : x \in Seq(Bits) /\ Len(x) = v
  BY DEF Strings
<1>4. ASSUME NEW c \in {0, 1}, NEW r, r = Row(shape, i, o, swap, c)
      PROVE  /\ r \in [1..Transfers(shape) -> Seq(Bits)]
             /\ \A k \in 1..Transfers(shape) : Len(r[k]) = shape.widths[k]
  <2>1. \A k \in 1..Transfers(shape) :
          r[k] = Masking(shape, i, o, k, c, swap[k])
    BY <1>4 DEF Row
  <2>2. \A k \in 1..Transfers(shape) : r[k] \in Seq(Bits) /\ Len(r[k]) = shape.widths[k]
    BY <1>1, <1>2, <1>3, <2>1
  <2> QED
    BY <1>4, <2>2 DEF Row
<1>5. Pairs(Bits, Transfers(shape), shape.widths,
            Row(shape, i, o, swap, 0), Row(shape, i, o, swap, 1))
  BY <1>4 DEF Pairs
<1> QED
  BY <1>2, <1>5

\* The receiver reads as many bits as the sender writes.
LEMMA AnswerType ==
  ASSUME NEW shape \in Shapes, NEW i \in Nat, NEW o \in Nat,
         NEW swap \in [1..Transfers(shape) -> {0, 1}]
  PROVE  /\ Answer(shape, i, o, swap) \in Seq(Bits)
         /\ Len(Answer(shape, i, o, swap)) = Offset(shape.widths, Transfers(shape) + 1)
<1>1. Transfers(shape) \in Nat /\ ShapeOK(shape.form, Transfers(shape), shape.widths)
  BY ShapeIsOK
<1>2. PICK r0, r1 : r0 = Row(shape, i, o, swap, 0) /\ r1 = Row(shape, i, o, swap, 1)
  OBVIOUS
<1>3. Pairs(Bits, Transfers(shape), shape.widths, r0, r1)
  BY <1>2, RowTypes
<1>4. PICK t : t = Layout(shape.form, r0, r1)
  OBVIOUS
<1>5. t \in Seq(Bits) /\ Len(t) = Offset(shape.widths, Transfers(shape) + 1)
  BY <1>1, <1>3, <1>4, MessageAtPlace
<1> QED
  BY <1>2, <1>4, <1>5 DEF Answer

\* What the receiver makes of the answer to its choices ch, when the OTs that it has
\* taken hold the choice bits rb.
OpensTo(shape, i, o, rb, ch, swap) ==
  \A k \in 1..Transfers(shape) :
    XorSeq(Slice(shape.form, Answer(shape, i, o, swap), shape.widths, k, ch[k]),
           Block(o + k - 1, rb[k], shape.widths[k]))
      = Message(i, k, ch[k], shape.widths[k])

LEMMA OpensRight ==
  ASSUME NEW shape \in Shapes, NEW i \in Nat, NEW o \in Nat,
         NEW rb \in [1..Transfers(shape) -> {0, 1}], NEW ch \in [1..Transfers(shape) -> {0, 1}],
         NEW swap, swap = [k \in 1..Transfers(shape) |-> Swap(rb[k], ch[k])]
  PROVE  OpensTo(shape, i, o, rb, ch, swap)
<1> SUFFICES ASSUME NEW k \in 1..Transfers(shape)
             PROVE  XorSeq(Slice(shape.form, Answer(shape, i, o, swap), shape.widths, k, ch[k]),
                           Block(o + k - 1, rb[k], shape.widths[k]))
                      = Message(i, k, ch[k], shape.widths[k])
  BY DEF OpensTo
<1>1. Transfers(shape) \in Nat /\ ShapeOK(shape.form, Transfers(shape), shape.widths)
  BY ShapeIsOK
<1>2. swap \in [1..Transfers(shape) -> {0, 1}]
  <2>1. \A j \in 1..Transfers(shape) : Swap(rb[j], ch[j]) \in {0, 1}
    BY SamePad
  <2> QED
    BY <2>1
<1>3. PICK r0, r1 : r0 = Row(shape, i, o, swap, 0) /\ r1 = Row(shape, i, o, swap, 1)
  OBVIOUS
<1>4. Pairs(Bits, Transfers(shape), shape.widths, r0, r1)
  BY <1>2, <1>3, RowTypes
<1>5. PICK c \in {0, 1} : c = ch[k]
  OBVIOUS
<1>6. Slice(shape.form, Layout(shape.form, r0, r1), shape.widths, k, c) = Branch(r0[k], r1[k], c)
  BY <1>1, <1>4, SliceFindsMessage
<1>7. Branch(r0[k], r1[k], c) = Masking(shape, i, o, k, c, swap[k])
  BY <1>3 DEF Branch, Row
<1>8. PICK v \in Nat : v = shape.widths[k]
  BY <1>1 DEF ShapeOK
<1>9. PadBranch(c, swap[k]) = rb[k]
  <2>1. swap[k] = Swap(rb[k], c) /\ rb[k] \in {0, 1}
    BY <1>5
  <2> QED
    BY <2>1, SamePad
<1>10. Masking(shape, i, o, k, c, swap[k]) = XorSeq(Message(i, k, c, v), Block(o + k - 1, rb[k], v))
  BY <1>8, <1>9 DEF Masking
<1>11. Message(i, k, c, v) \in Strings(v) /\ Block(o + k - 1, rb[k], v) \in Strings(v)
  <2>1. k \in Nat /\ o + k - 1 \in Nat /\ rb[k] \in {0, 1}
    BY <1>1
  <2> QED
    BY <2>1, StringTypes
<1>12. XorSeq(XorSeq(Message(i, k, c, v), Block(o + k - 1, rb[k], v)), Block(o + k - 1, rb[k], v))
         = Message(i, k, c, v)
  BY <1>11, PadCancels
<1> QED
  BY <1>3, <1>5, <1>6, <1>7, <1>8, <1>10, <1>12 DEF Answer

-----------------------------------------------------------------------------
\* The inductive invariant.  A call of no transfers needs nothing of the other
\* party, so one may be ahead of the other by such calls, and by these alone.
D == Len(delivered)
Size(i) == Transfers(plan[i])
NoTransfers(i, j) == \A k \in i..j : Size(k) = 0

TypesOK ==
  /\ plan \in [1..MaxCalls -> Shapes]
  /\ b \in [0..(NumOTs - 1) -> {0, 1}]
  /\ sfirst \in 0..NumOTs /\ rfirst \in 0..NumOTs
  /\ sstate \in {"ready", "failed"} /\ rstate \in {"ready", "waiting", "failed"}
  /\ sdone \in 0..MaxCalls
  /\ delivered \in Seq(Seq(Seq(Bits))) /\ D \in 0..MaxCalls
  /\ chosen \in Seq(Seq({0, 1})) /\ Len(chosen) = D

\* What a call returns to the receiver.
Returned(shape, i, ch) ==
  [k \in 1..Transfers(shape) |-> Message(i, k, ch[k], shape.widths[k])]

DeliveredOK ==
  \A i \in 1..D : /\ chosen[i] \in [1..Size(i) -> {0, 1}]
                  /\ delivered[i] = Returned(plan[i], i, chosen[i])

\* The OTs that a call takes when the pool stands at o, and the swaps it asks for.
Taken(shape, o, rb) ==
  [k \in 1..Transfers(shape) |->
     [bit |-> rb[o + k - 1],
      mb |-> Block(o + k - 1, rb[o + k - 1], shape.widths[k])]]
Swaps(shape, o, rb, ch) == [k \in 1..Transfers(shape) |-> Swap(rb[o + k - 1], ch[k])]

\* The receiver's pool at the begin of its current call.
Begin == rfirst - Size(D + 1)

CallOK ==
  /\ rstate = "waiting"
  /\ D + 1 <= MaxCalls /\ Begin \in Nat
  /\ choices \in [1..Size(D + 1) -> {0, 1}]
  /\ reserved = Taken(plan[D + 1], Begin, b)

\* No call is under way.
Aligned ==
  /\ rstate # "waiting"
  /\ choices = <<>> /\ reserved = <<>> /\ toSender = <<>> /\ toReceiver = <<>>
  /\ sfirst = rfirst
  /\ NoTransfers(sdone + 1, D) /\ NoTransfers(D + 1, sdone)

\* The receiver has asked and the sender has not answered yet.
Asked ==
  /\ CallOK
  /\ toSender = Swaps(plan[D + 1], Begin, b, choices) /\ toReceiver = <<>>
  /\ sfirst = Begin
  /\ sdone <= D /\ NoTransfers(sdone + 1, D)

\* The answer is on its way.
Answered ==
  /\ CallOK
  /\ toSender = <<>>
  /\ toReceiver = Answer(plan[D + 1], D + 1, Begin, Swaps(plan[D + 1], Begin, b, choices))
  /\ sfirst = rfirst
  /\ sdone > D /\ NoTransfers(D + 2, sdone)

RotInv == TypesOK /\ DeliveredOK /\ (Aligned \/ Asked \/ Answered)

LEMMA SizeType ==
  ASSUME TypesOK, NEW i \in 1..MaxCalls
  PROVE  plan[i] \in Shapes /\ Size(i) \in Nat
BY ShapeIsOK DEF TypesOK, Size

LEMMA RotStarts == Init => RotInv
<1> SUFFICES ASSUME Init PROVE RotInv
  OBVIOUS
<1>1. D = 0 /\ delivered = <<>> /\ chosen = <<>>
  BY DEF Init, D
<1>2. TypesOK
  BY <1>1, SizesAssumption DEF Init, TypesOK
<1>3. DeliveredOK
  BY <1>1 DEF DeliveredOK
<1>4. Aligned
  BY <1>1 DEF Init, Aligned, NoTransfers
<1> QED
  BY <1>2, <1>3, <1>4 DEF RotInv

\* What a transfer of the sender changes.
LEMMA TransferIs ==
  ASSUME SenderTransfer
  PROVE  /\ sdone + 1 <= MaxCalls /\ sdone' = sdone + 1
         /\ Size(sdone + 1) <= NumOTs - sfirst /\ sfirst' = sfirst + Size(sdone + 1)
         /\ Len(toSender) >= Size(sdone + 1)
         /\ toSender' = SubSeq(toSender, Size(sdone + 1) + 1, Len(toSender))
         /\ toReceiver' = toReceiver \o Answer(plan[sdone + 1], sdone + 1, sfirst,
                                               SubSeq(toSender, 1, Size(sdone + 1)))
         /\ UNCHANGED <<plan, b, rfirst, sstate, rstate, choices, reserved, delivered, chosen>>
<1>1. /\ sdone + 1 <= MaxCalls /\ sdone' = sdone + 1
      /\ Size(sdone + 1) <= NumOTs - sfirst /\ sfirst' = sfirst + Size(sdone + 1)
      /\ Len(toSender) >= Size(sdone + 1)
      /\ toSender' = SubSeq(toSender, Size(sdone + 1) + 1, Len(toSender))
      /\ UNCHANGED <<plan, b, rfirst, sstate, rstate, choices, reserved, delivered, chosen>>
  BY DEF SenderTransfer, senderCall, SenderEnough, Enough, PoolRemaining, Advance, Size, Transfers
<1>2. toReceiver' = toReceiver \o Answer(plan[sdone + 1], sdone + 1, sfirst,
                                         SubSeq(toSender, 1, Size(sdone + 1)))
  BY DEF SenderTransfer, senderCall, Size, Transfers, Answer, Row, Masking
<1> QED
  BY <1>1, <1>2

LEMMA AskIs ==
  ASSUME ReceiverAsk
  PROVE  /\ rstate = "ready" /\ rstate' = "waiting" /\ D + 1 <= MaxCalls
         /\ Size(D + 1) <= NumOTs - rfirst /\ rfirst' = rfirst + Size(D + 1)
         /\ choices' \in [1..Size(D + 1) -> {0, 1}]
         /\ reserved' = Taken(plan[D + 1], rfirst, b)
         /\ toSender' = toSender \o Swaps(plan[D + 1], rfirst, b, choices')
         /\ UNCHANGED <<plan, b, sfirst, sstate, sdone, delivered, chosen, toReceiver>>
<1>1. /\ rstate = "ready" /\ rstate' = "waiting" /\ D + 1 <= MaxCalls
      /\ Size(D + 1) <= NumOTs - rfirst /\ rfirst' = rfirst + Size(D + 1)
      /\ choices' \in [1..Size(D + 1) -> {0, 1}]
      /\ UNCHANGED <<plan, b, sfirst, sstate, sdone, delivered, chosen, toReceiver>>
  BY DEF ReceiverAsk, receiverCall, D, Enough, PoolRemaining, Size, Transfers
<1>2. reserved' = Taken(plan[D + 1], rfirst, b)
  BY DEF ReceiverAsk, receiverCall, D, Taken, Transfers
<1>3. toSender' = toSender \o [k \in 1..Size(D + 1) |-> Swap(reserved'[k].bit, choices'[k])]
  BY DEF ReceiverAsk, receiverCall, D, Size, Transfers
<1>4. \A k \in 1..Size(D + 1) : reserved'[k].bit = b[rfirst + k - 1]
  BY <1>2 DEF Taken, Size
<1>5. [k \in 1..Size(D + 1) |-> Swap(reserved'[k].bit, choices'[k])]
        = Swaps(plan[D + 1], rfirst, b, choices')
  BY <1>4 DEF Swaps, Size
<1> QED
  BY <1>1, <1>2, <1>3, <1>5

\* The swaps are bits, one for each transfer.
LEMMA SwapsType ==
  ASSUME NEW shape \in Shapes, NEW o \in Nat, o + Transfers(shape) <= NumOTs,
         NEW rb \in [0..(NumOTs - 1) -> {0, 1}], NEW ch \in [1..Transfers(shape) -> {0, 1}]
  PROVE  /\ Swaps(shape, o, rb, ch) \in [1..Transfers(shape) -> {0, 1}]
         /\ \A k \in 1..Transfers(shape) : rb[o + k - 1] \in {0, 1}
<1>1. Transfers(shape) \in Nat
  BY ShapeIsOK
<1>2. \A k \in 1..Transfers(shape) : o + k - 1 \in 0..(NumOTs - 1)
  BY <1>1, SizesAssumption
<1>3. \A k \in 1..Transfers(shape) : Swap(rb[o + k - 1], ch[k]) \in {0, 1}
  <2> SUFFICES ASSUME NEW k \in 1..Transfers(shape) PROVE Swap(rb[o + k - 1], ch[k]) \in {0, 1}
    OBVIOUS
  <2>1. rb[o + k - 1] \in {0, 1} /\ ch[k] \in {0, 1}
    BY <1>2
  <2> QED
    BY <2>1, SamePad
<1> QED
  BY <1>2, <1>3 DEF Swaps

LEMMA EmptyAnswer ==
  ASSUME NEW shape \in Shapes, Transfers(shape) = 0, NEW i \in Nat, NEW o \in Nat,
         NEW swap \in [1..Transfers(shape) -> {0, 1}]
  PROVE  Answer(shape, i, o, swap) = <<>>
<1>1. ShapeOK(shape.form, 0, shape.widths)
  BY ShapeIsOK
<1>2. Offset(shape.widths, 0 + 1) = 0
  BY <1>1, BitsOfCall
<1>3. /\ Answer(shape, i, o, swap) \in Seq(Bits)
      /\ Len(Answer(shape, i, o, swap)) = Offset(shape.widths, Transfers(shape) + 1)
  BY AnswerType
<1>4. Len(Answer(shape, i, o, swap)) = 0
  BY <1>2, <1>3
<1> QED
  BY <1>3, <1>4

LEMMA AskKeeps == RotInv /\ ReceiverAsk => RotInv'
<1> SUFFICES ASSUME RotInv, ReceiverAsk PROVE RotInv'
  OBVIOUS
<1>1. /\ rstate = "ready" /\ rstate' = "waiting" /\ D + 1 <= MaxCalls
      /\ Size(D + 1) <= NumOTs - rfirst /\ rfirst' = rfirst + Size(D + 1)
      /\ choices' \in [1..Size(D + 1) -> {0, 1}]
      /\ reserved' = Taken(plan[D + 1], rfirst, b)
      /\ toSender' = toSender \o Swaps(plan[D + 1], rfirst, b, choices')
      /\ UNCHANGED <<plan, b, sfirst, sstate, sdone, delivered, chosen, toReceiver>>
  BY AskIs
<1>2. TypesOK /\ DeliveredOK /\ Aligned
  BY <1>1 DEF RotInv, Asked, Answered, CallOK
<1>3. PICK d \in Nat : d = D /\ d + 1 \in 1..MaxCalls
  BY <1>1, <1>2, SizesAssumption DEF TypesOK
<1>4. PICK shape \in Shapes : shape = plan[d + 1]
  BY <1>2, <1>3 DEF TypesOK
<1>5. PICK n \in Nat : n = Transfers(shape)
  BY ShapeIsOK
<1>6. Size(D + 1) = n /\ Size(D + 1)' = n /\ D' = d /\ plan'[d + 1] = shape
  BY <1>1, <1>3, <1>4, <1>5 DEF Size, D
<1>7. PICK o \in Nat : o = rfirst /\ o + n <= NumOTs /\ o + n \in 0..NumOTs
  BY <1>1, <1>2, <1>6, SizesAssumption DEF TypesOK
<1>8. Begin' = o
  BY <1>1, <1>3, <1>6, <1>7 DEF Begin
<1>9. PICK swap : swap = Swaps(shape, o, b, choices')
  OBVIOUS
<1>10. swap \in [1..n -> {0, 1}]
  <2>1. b \in [0..(NumOTs - 1) -> {0, 1}] /\ choices' \in [1..Transfers(shape) -> {0, 1}]
    BY <1>1, <1>2, <1>5, <1>6 DEF TypesOK
  <2>2. o + Transfers(shape) <= NumOTs
    BY <1>5, <1>7
  <2>3. Swaps(shape, o, b, choices') \in [1..Transfers(shape) -> {0, 1}]
    BY <2>1, <2>2, SwapsType
  <2> QED
    BY <1>5, <1>9, <2>3
<1>11. toSender' = swap
  <2>1. toSender' = <<>> \o swap
    BY <1>1, <1>2, <1>3, <1>4, <1>7, <1>9 DEF Aligned
  <2>2. swap \in Seq({0, 1})
    BY <1>10
  <2> QED
    BY <2>1, <2>2
<1>12. TypesOK'
  BY <1>1, <1>2, <1>6, <1>7 DEF TypesOK, D
<1>13. DeliveredOK'
  BY <1>1, <1>2 DEF DeliveredOK, D, Size
<1>14. CallOK'
  BY <1>1, <1>3, <1>4, <1>6, <1>7, <1>8 DEF CallOK
<1>15. \A i, j : NoTransfers(i, j) => \A k \in i..j : Size(k)' = 0
  BY <1>1 DEF NoTransfers, Size
<1>16. CASE sdone <= D
  <2>1. sdone' <= D' /\ NoTransfers(sdone + 1, D)'
    BY <1>1, <1>2, <1>3, <1>6, <1>15, <1>16 DEF Aligned, NoTransfers
  <2>2. toReceiver' = <<>> /\ sfirst' = Begin'
    BY <1>1, <1>2, <1>7, <1>8 DEF Aligned
  <2>3. Asked'
    BY <1>1, <1>6, <1>8, <1>9, <1>11, <1>14, <2>1, <2>2 DEF Asked
  <2> QED
    BY <1>12, <1>13, <2>3 DEF RotInv
<1>17. CASE sdone > D
  <2>0. sdone \in Nat
    BY <1>2, SizesAssumption DEF TypesOK
  <2>1. n = 0
    <3>1. D + 1 \in (D + 1)..sdone
      BY <1>3, <1>17, <2>0
    <3> QED
      BY <1>2, <1>6, <3>1 DEF Aligned, NoTransfers
  <2>2. swap = <<>>
    BY <1>10, <2>1
  <2>3. Answer(shape, d + 1, o, swap) = <<>>
    <3>1. Transfers(shape) = 0 /\ d + 1 \in Nat /\ swap \in [1..Transfers(shape) -> {0, 1}]
      BY <1>3, <1>5, <1>10, <2>1
    <3> QED
      BY <3>1, EmptyAnswer
  <2>4. sdone' > D' /\ NoTransfers(D + 2, sdone)'
    <3>1. \A k \in (D + 2)..sdone : k \in (D + 1)..sdone
      BY <1>3, <2>0
    <3>2. \A k \in (D + 1)..sdone : Size(k)' = 0
      BY <1>2, <1>15 DEF Aligned
    <3>3. \A k \in (d + 2)..sdone : Size(k)' = 0
      BY <1>3, <3>1, <3>2
    <3> QED
      BY <1>1, <1>3, <1>6, <1>17, <3>3 DEF NoTransfers
  <2>5. toReceiver' = <<>> /\ sfirst' = rfirst'
    BY <1>1, <1>2, <1>6, <1>7, <2>1 DEF Aligned
  <2>6. Answered'
    BY <1>1, <1>6, <1>8, <1>9, <1>11, <1>14, <2>2, <2>3, <2>4, <2>5 DEF Answered
  <2> QED
    BY <1>12, <1>13, <2>6 DEF RotInv
<1>18. sdone <= D \/ sdone > D
  BY <1>2, <1>3, SizesAssumption DEF TypesOK
<1> QED
  BY <1>16, <1>17, <1>18

\* The call under way, as constants.
LEMMA CallIs ==
  ASSUME TypesOK, CallOK
  PROVE  \E d \in Nat, shape \in Shapes, n \in Nat, o \in Nat :
           /\ d = D /\ d + 1 \in 1..MaxCalls /\ shape = plan[d + 1] /\ n = Transfers(shape)
           /\ n = Size(D + 1) /\ o = Begin /\ o + n = rfirst /\ o + n <= NumOTs
           /\ choices \in [1..n -> {0, 1}] /\ reserved = Taken(shape, o, b)
           /\ Swaps(shape, o, b, choices) \in [1..n -> {0, 1}]
<1>1. PICK d \in Nat : d = D /\ d + 1 \in 1..MaxCalls
  BY SizesAssumption DEF TypesOK, CallOK
<1>2. PICK shape \in Shapes : shape = plan[d + 1]
  BY <1>1 DEF TypesOK
<1>3. PICK n \in Nat : n = Transfers(shape)
  BY ShapeIsOK
<1>4. Size(D + 1) = n
  BY <1>1, <1>2, <1>3 DEF Size
<1>5. PICK o \in Nat : o = Begin
  BY DEF CallOK
<1>6. o + n = rfirst /\ o + n <= NumOTs
  BY <1>3, <1>4, <1>5, SizesAssumption DEF Begin, TypesOK
<1>7. choices \in [1..n -> {0, 1}] /\ reserved = Taken(shape, o, b)
  BY <1>1, <1>2, <1>4, <1>5 DEF CallOK
<1>8. Swaps(shape, o, b, choices) \in [1..n -> {0, 1}]
  <2>1. /\ b \in [0..(NumOTs - 1) -> {0, 1}] /\ choices \in [1..Transfers(shape) -> {0, 1}]
        /\ o + Transfers(shape) <= NumOTs
    BY <1>3, <1>6, <1>7 DEF TypesOK
  <2>2. Swaps(shape, o, b, choices) \in [1..Transfers(shape) -> {0, 1}]
    BY <2>1, SwapsType
  <2> QED
    BY <1>3, <2>2
<1> QED
  BY <1>1, <1>2, <1>3, <1>4, <1>5, <1>6, <1>7, <1>8

\* The sender writes nothing and reads nothing in a call of no transfers.
LEMMA EmptyTransfer ==
  ASSUME TypesOK, SenderTransfer, Size(sdone + 1) = 0,
         NEW A, toSender \in Seq(A), NEW B, toReceiver \in Seq(B)
  PROVE  sfirst' = sfirst /\ toSender' = toSender /\ toReceiver' = toReceiver
<1>1. /\ sdone + 1 <= MaxCalls /\ sfirst' = sfirst + Size(sdone + 1)
      /\ toSender' = SubSeq(toSender, Size(sdone + 1) + 1, Len(toSender))
      /\ toReceiver' = toReceiver \o Answer(plan[sdone + 1], sdone + 1, sfirst,
                                            SubSeq(toSender, 1, Size(sdone + 1)))
  BY TransferIs
<1>2. sdone + 1 \in 1..MaxCalls /\ sdone + 1 \in Nat /\ sfirst \in Nat
  BY <1>1, SizesAssumption DEF TypesOK
<1>3. PICK shape \in Shapes : shape = plan[sdone + 1] /\ Transfers(shape) = 0
  BY <1>2 DEF TypesOK, Size
<1>4. PICK swap : swap = SubSeq(toSender, 1, 0) /\ swap = <<>>
  <2>1. PICK s \in [1..Len(toSender) -> A] : s = toSender
    <3>1. toSender \in [1..Len(toSender) -> A] /\ Len(toSender) \in Nat
      BY LenProperties
    <3> QED
      BY <3>1
  <2>2. SubSeq(s, 1, 0) = <<>>
    OBVIOUS
  <2> QED
    BY <2>1, <2>2
<1>5. Answer(shape, sdone + 1, sfirst, swap) = <<>>
  <2>1. swap \in [1..Transfers(shape) -> {0, 1}]
    BY <1>3, <1>4
  <2> PICK i \in Nat, o \in Nat : i = sdone + 1 /\ o = sfirst
    BY <1>2
  <2>2. Answer(shape, i, o, swap) = <<>>
    BY <1>3, <2>1, EmptyAnswer
  <2> QED
    BY <2>2
<1>6. toReceiver' = toReceiver \o <<>>
  BY <1>1, <1>3, <1>4, <1>5
<1>7. toSender' = SubSeq(toSender, 1, Len(toSender))
  BY <1>1
<1>8. sfirst' = sfirst
  BY <1>1, <1>2
<1>9. toReceiver \o <<>> = toReceiver
  OBVIOUS
<1>10. SubSeq(toSender, 1, Len(toSender)) = toSender
  OBVIOUS
<1> QED
  BY <1>6, <1>7, <1>8, <1>9, <1>10

LEMMA TransferKeeps == RotInv /\ SenderTransfer => RotInv'
<1> SUFFICES ASSUME RotInv, SenderTransfer PROVE RotInv'
  OBVIOUS
<1>1. /\ sdone + 1 <= MaxCalls /\ sdone' = sdone + 1
      /\ Size(sdone + 1) <= NumOTs - sfirst /\ sfirst' = sfirst + Size(sdone + 1)
      /\ Len(toSender) >= Size(sdone + 1)
      /\ toSender' = SubSeq(toSender, Size(sdone + 1) + 1, Len(toSender))
      /\ toReceiver' = toReceiver \o Answer(plan[sdone + 1], sdone + 1, sfirst,
                                            SubSeq(toSender, 1, Size(sdone + 1)))
      /\ UNCHANGED <<plan, b, rfirst, sstate, rstate, choices, reserved, delivered, chosen>>
  BY TransferIs
<1>2. TypesOK /\ DeliveredOK
  BY DEF RotInv
<1>3. /\ sdone \in Nat /\ D \in Nat /\ sfirst \in Nat
      /\ sdone + 1 \in 1..MaxCalls /\ Size(sdone + 1) \in Nat
  <2>1. sdone \in Nat /\ D \in Nat /\ sfirst \in Nat /\ sdone + 1 \in 1..MaxCalls
    BY <1>1, <1>2, SizesAssumption DEF TypesOK
  <2>2. plan[sdone + 1] \in Shapes
    BY <1>2, <2>1 DEF TypesOK
  <2> QED
    BY <2>1, <2>2, ShapeIsOK DEF Size
<1>4. TypesOK'
  BY <1>1, <1>2, <1>3, SizesAssumption DEF TypesOK, D
<1>5. DeliveredOK'
  BY <1>1, <1>2 DEF DeliveredOK, D, Size
<1>6. D' = D /\ Begin' = Begin /\ plan' = plan /\ b' = b /\ choices' = choices /\ rfirst' = rfirst
  BY <1>1 DEF D, Begin, Size
<1>7. \A i : Size(i)' = Size(i)
  BY <1>1 DEF Size
<1>8. CASE Aligned
  <2>1. toSender = <<>> /\ toReceiver = <<>>
    BY <1>8 DEF Aligned
  <2>2. Size(sdone + 1) = 0
    BY <1>1, <1>3, <2>1
  <2>3. sfirst' = sfirst /\ toSender' = toSender /\ toReceiver' = toReceiver
    <3>1. toSender \in Seq(Bits) /\ toReceiver \in Seq(Bits)
      BY <2>1
    <3> QED
      BY <1>2, <2>2, <3>1, EmptyTransfer
  <2>4. NoTransfers(sdone + 1, D)'
    <3>1. \A k \in (sdone + 2)..D : k \in (sdone + 1)..D
      BY <1>3
    <3>2. \A k \in (sdone + 2)..D : Size(k)' = 0
      BY <1>7, <1>8, <3>1 DEF Aligned, NoTransfers
    <3>3. sdone' + 1 = sdone + 2
      BY <1>1, <1>3
    <3> QED
      BY <1>6, <3>2, <3>3 DEF NoTransfers
  <2>5. NoTransfers(D + 1, sdone)'
    <3>1. \A k \in (D + 1)..(sdone + 1) : k = sdone + 1 \/ k \in (D + 1)..sdone
      BY <1>3
    <3>2. \A k \in (D + 1)..(sdone + 1) : Size(k)' = 0
      BY <1>7, <1>8, <2>2, <3>1 DEF Aligned, NoTransfers
    <3> QED
      BY <1>1, <1>6, <3>2 DEF NoTransfers
  <2>6. Aligned'
    BY <1>1, <1>8, <2>3, <2>4, <2>5 DEF Aligned
  <2> QED
    BY <1>4, <1>5, <2>6 DEF RotInv
<1>9. CASE Asked
  <2>1. PICK d \in Nat, shape \in Shapes, n \in Nat, o \in Nat :
           /\ d = D /\ d + 1 \in 1..MaxCalls /\ shape = plan[d + 1] /\ n = Transfers(shape)
           /\ n = Size(D + 1) /\ o = Begin /\ o + n = rfirst /\ o + n <= NumOTs
           /\ choices \in [1..n -> {0, 1}] /\ reserved = Taken(shape, o, b)
           /\ Swaps(shape, o, b, choices) \in [1..n -> {0, 1}]
    BY <1>2, <1>9, CallIs DEF Asked
  <2>2. PICK swap \in [1..n -> {0, 1}] : swap = Swaps(shape, o, b, choices)
    BY <2>1
  <2>3. toSender = swap /\ toReceiver = <<>> /\ sfirst = o /\ sdone <= D
    BY <1>9, <2>1, <2>2 DEF Asked
  <2>4. CallOK'
    BY <1>1, <1>6, <1>7, <1>9 DEF Asked, CallOK
  <2>5. CASE sdone < D
    <3>1. Size(sdone + 1) = 0
      <4>1. sdone + 1 \in (sdone + 1)..D
        BY <1>3, <2>5
      <4> QED
        BY <1>9, <4>1 DEF Asked, NoTransfers
    <3>2. sfirst' = sfirst /\ toSender' = toSender /\ toReceiver' = toReceiver
      <4>1. toSender \in Seq({0, 1}) /\ toReceiver \in Seq(Bits)
        BY <2>2, <2>3
      <4> QED
        BY <1>2, <3>1, <4>1, EmptyTransfer
    <3>3. sdone' <= D' /\ NoTransfers(sdone + 1, D)'
      <4>1. \A k \in (sdone + 2)..D : k \in (sdone + 1)..D
        BY <1>3
      <4>2. \A k \in (sdone + 2)..D : Size(k)' = 0
        BY <1>7, <1>9, <4>1 DEF Asked, NoTransfers
      <4>3. sdone' + 1 = sdone + 2
        BY <1>1, <1>3
      <4> QED
        BY <1>1, <1>3, <1>6, <2>5, <4>2, <4>3 DEF NoTransfers
    <3>4. Asked'
      BY <1>6, <1>9, <2>4, <3>2, <3>3 DEF Asked
    <3> QED
      BY <1>4, <1>5, <3>4 DEF RotInv
  <2>6. CASE sdone = D
    <3>1. Size(sdone + 1) = n /\ plan[sdone + 1] = shape /\ sdone + 1 = d + 1
      BY <2>1, <2>6
    <3>2. toSender' = <<>>
      <4>1. toSender' = SubSeq(swap, n + 1, Len(swap)) /\ Len(swap) = n
        BY <1>1, <2>2, <2>3, <3>1
      <4>2. SubSeq(swap, n + 1, n) = <<>>
        OBVIOUS
      <4> QED
        BY <4>1, <4>2
    <3>3. SubSeq(swap, 1, n) = swap
      BY <2>2
    <3>4. toReceiver' = <<>> \o Answer(shape, d + 1, o, swap)
      BY <1>1, <2>3, <3>1, <3>3
    <3>5. Answer(shape, d + 1, o, swap) \in Seq(Bits)
      <4>1. swap \in [1..Transfers(shape) -> {0, 1}] /\ d + 1 \in Nat
        BY <2>1, <2>2
      <4> QED
        BY <4>1, AnswerType
    <3>6. toReceiver' = Answer(shape, d + 1, o, swap)
      BY <3>4, <3>5
    <3>7. sfirst' = rfirst'
      BY <1>1, <1>6, <2>1, <2>3, <3>1
    <3>8. sdone' > D' /\ NoTransfers(D + 2, sdone)'
      BY <1>1, <1>3, <1>6, <2>6 DEF NoTransfers
    <3>9. Answered'
      BY <1>6, <2>1, <2>2, <2>4, <3>2, <3>6, <3>7, <3>8 DEF Answered
    <3> QED
      BY <1>4, <1>5, <3>9 DEF RotInv
  <2> QED
    BY <1>3, <2>3, <2>5, <2>6
<1>10. CASE Answered
  <2>1. PICK d \in Nat, shape \in Shapes, n \in Nat, o \in Nat :
           /\ d = D /\ d + 1 \in 1..MaxCalls /\ shape = plan[d + 1] /\ n = Transfers(shape)
           /\ n = Size(D + 1) /\ o = Begin /\ o + n = rfirst /\ o + n <= NumOTs
           /\ choices \in [1..n -> {0, 1}] /\ reserved = Taken(shape, o, b)
           /\ Swaps(shape, o, b, choices) \in [1..n -> {0, 1}]
    BY <1>2, <1>10, CallIs DEF Answered
  <2>2. PICK swap \in [1..n -> {0, 1}] : swap = Swaps(shape, o, b, choices)
    BY <2>1
  <2>3. toSender = <<>> /\ toReceiver = Answer(shape, d + 1, o, swap)
    BY <1>10, <2>1, <2>2 DEF Answered
  <2>4. Size(sdone + 1) = 0
    BY <1>1, <1>3, <2>3
  <2>5. sfirst' = sfirst /\ toSender' = toSender /\ toReceiver' = toReceiver
    <3>1. Answer(shape, d + 1, o, swap) \in Seq(Bits)
      <4>1. swap \in [1..Transfers(shape) -> {0, 1}] /\ d + 1 \in Nat
        BY <2>1, <2>2
      <4> QED
        BY <4>1, AnswerType
    <3>2. toSender \in Seq(Bits) /\ toReceiver \in Seq(Bits)
      BY <2>3, <3>1
    <3> QED
      BY <1>2, <2>4, <3>2, EmptyTransfer
  <2>6. CallOK'
    BY <1>1, <1>6, <1>7, <1>10 DEF Answered, CallOK
  <2>7. sdone' > D' /\ NoTransfers(D + 2, sdone)'
    <3>1. \A k \in (D + 2)..(sdone + 1) : k = sdone + 1 \/ k \in (D + 2)..sdone
      BY <1>3
    <3>2. \A k \in (D + 2)..(sdone + 1) : Size(k)' = 0
      BY <1>7, <1>10, <2>4, <3>1 DEF Answered, NoTransfers
    <3> QED
      BY <1>1, <1>3, <1>6, <1>10, <3>2 DEF Answered, NoTransfers
  <2>8. Answered'
    BY <1>1, <1>6, <1>10, <2>5, <2>6, <2>7 DEF Answered
  <2> QED
    BY <1>4, <1>5, <2>8 DEF RotInv
<1> QED
  BY <1>8, <1>9, <1>10 DEF RotInv

\* What the receiver makes of an answer.
Opened(shape, incoming, ch, taken) ==
  [k \in 1..Transfers(shape) |->
     XorSeq(Slice(shape.form, incoming, shape.widths, k, ch[k]), taken[k].mb)]
Total(shape) == Offset(shape.widths, Transfers(shape) + 1)

LEMMA OpenIs ==
  ASSUME ReceiverOpen
  PROVE  /\ rstate = "waiting" /\ rstate' = "ready"
         /\ Len(toReceiver) >= Total(plan[D + 1])
         /\ toReceiver' = SubSeq(toReceiver, Total(plan[D + 1]) + 1, Len(toReceiver))
         /\ delivered' = Append(delivered, Opened(plan[D + 1],
                           SubSeq(toReceiver, 1, Total(plan[D + 1])), choices, reserved))
         /\ chosen' = Append(chosen, choices) /\ choices' = <<>> /\ reserved' = <<>>
         /\ UNCHANGED <<plan, b, sfirst, rfirst, sstate, sdone, toSender>>
BY DEF ReceiverOpen, receiverCall, D, Total, Transfers, Opened

\* The receiver opens an answer only when the sender has answered, except that a
\* call of no transfers needs no answer; and it gets the messages it chose.
LEMMA OpenReturns ==
  ASSUME RotInv, ReceiverOpen
  PROVE  /\ CallOK /\ toSender = <<>> /\ toReceiver' = <<>> /\ sfirst = rfirst
         /\ delivered' = Append(delivered, Returned(plan[D + 1], D + 1, choices))
         /\ NoTransfers(sdone + 1, D + 1) /\ NoTransfers(D + 2, sdone)
<1>1. /\ rstate = "waiting"
      /\ Len(toReceiver) >= Total(plan[D + 1])
      /\ toReceiver' = SubSeq(toReceiver, Total(plan[D + 1]) + 1, Len(toReceiver))
      /\ delivered' = Append(delivered, Opened(plan[D + 1],
                        SubSeq(toReceiver, 1, Total(plan[D + 1])), choices, reserved))
  BY OpenIs
<1>2. TypesOK /\ CallOK /\ (Asked \/ Answered)
  BY <1>1 DEF RotInv, Aligned, Asked, Answered
<1>3. PICK d \in Nat, shape \in Shapes, n \in Nat, o \in Nat :
           /\ d = D /\ d + 1 \in 1..MaxCalls /\ shape = plan[d + 1] /\ n = Transfers(shape)
           /\ n = Size(D + 1) /\ o = Begin /\ o + n = rfirst /\ o + n <= NumOTs
           /\ choices \in [1..n -> {0, 1}] /\ reserved = Taken(shape, o, b)
           /\ Swaps(shape, o, b, choices) \in [1..n -> {0, 1}]
  BY <1>2, CallIs
<1>4. PICK swap \in [1..n -> {0, 1}] : swap = Swaps(shape, o, b, choices)
  BY <1>3
<1>5. PICK total \in Nat : total = Total(shape) /\ (total = 0 <=> n = 0)
  BY <1>3, ShapeIsOK, BitsOfCall DEF Total
<1>6. sdone \in Nat /\ D \in Nat
  BY <1>2, SizesAssumption DEF TypesOK
<1>7. CASE Asked
  <2>1. toReceiver = <<>> /\ toSender = swap /\ sfirst = o /\ sdone <= D
    BY <1>3, <1>4, <1>7 DEF Asked
  <2>2. n = 0 /\ total = 0
    BY <1>1, <1>3, <1>5, <2>1
  <2>3. toSender = <<>> /\ sfirst = rfirst
    BY <1>3, <1>4, <2>1, <2>2
  <2>4. toReceiver' = <<>>
    <3>1. toReceiver' = SubSeq(<<>>, 1, 0)
      BY <1>1, <1>3, <1>5, <2>1, <2>2
    <3> QED
      BY <3>1
  <2>5. \A incoming : Opened(shape, incoming, choices, reserved) = Returned(shape, d + 1, choices)
    <3>1. 1..Transfers(shape) = {}
      BY <1>3, <2>2
    <3> QED
      BY <3>1 DEF Opened, Returned
  <2>6. NoTransfers(sdone + 1, D + 1) /\ NoTransfers(D + 2, sdone)
    <3>1. \A k \in (sdone + 1)..(D + 1) : k = D + 1 \/ k \in (sdone + 1)..D
      BY <1>6
    <3>2. NoTransfers(sdone + 1, D + 1)
      BY <1>3, <1>7, <2>2, <3>1 DEF Asked, NoTransfers
    <3>3. \A k \in (D + 2)..sdone : FALSE
      BY <1>6, <2>1
    <3> QED
      BY <3>2, <3>3 DEF NoTransfers
  <2>7. delivered' = Append(delivered, Returned(shape, d + 1, choices))
    BY <1>1, <1>3, <2>5
  <2> QED
    BY <1>2, <1>3, <2>3, <2>4, <2>6, <2>7
<1>8. CASE Answered
  <2>1. /\ toReceiver = Answer(shape, d + 1, o, swap) /\ toSender = <<>> /\ sfirst = rfirst
        /\ sdone > D /\ NoTransfers(D + 2, sdone)
    BY <1>3, <1>4, <1>8 DEF Answered
  <2>2. PICK t \in Seq(Bits) : t = toReceiver /\ Len(t) = total
    <3>1. swap \in [1..Transfers(shape) -> {0, 1}] /\ d + 1 \in Nat
      BY <1>3, <1>4
    <3>2. /\ Answer(shape, d + 1, o, swap) \in Seq(Bits)
          /\ Len(Answer(shape, d + 1, o, swap)) = Offset(shape.widths, Transfers(shape) + 1)
      BY <3>1, AnswerType
    <3> QED
      BY <1>5, <2>1, <3>2 DEF Total
  <2>3. PICK s \in [1..total -> Bits] : s = t
    BY <2>2, LenProperties
  <2>4. SubSeq(s, 1, total) = s /\ SubSeq(s, total + 1, total) = <<>>
    OBVIOUS
  <2>5. SubSeq(toReceiver, 1, total) = toReceiver
    BY <2>2, <2>3, <2>4
  <2>6. toReceiver' = <<>>
    BY <1>1, <1>3, <1>5, <2>2, <2>3, <2>4
  <2>7. Opened(shape, toReceiver, choices, reserved) = Returned(shape, d + 1, choices)
    <3>1. PICK rb : rb = [k \in 1..Transfers(shape) |-> b[o + k - 1]]
      OBVIOUS
    <3>2. rb \in [1..Transfers(shape) -> {0, 1}] /\ choices \in [1..Transfers(shape) -> {0, 1}]
      <4>1. /\ b \in [0..(NumOTs - 1) -> {0, 1}] /\ o + Transfers(shape) <= NumOTs
            /\ choices \in [1..Transfers(shape) -> {0, 1}]
        BY <1>2, <1>3 DEF TypesOK
      <4>2. \A k \in 1..Transfers(shape) : b[o + k - 1] \in {0, 1}
        BY <4>1, SwapsType
      <4> QED
        BY <3>1, <4>1, <4>2
    <3>3. swap = [k \in 1..Transfers(shape) |-> Swap(rb[k], choices[k])]
      BY <1>4, <3>1 DEF Swaps
    <3>4. ASSUME NEW k \in 1..Transfers(shape)
          PROVE  XorSeq(Slice(shape.form, toReceiver, shape.widths, k, choices[k]), reserved[k].mb)
                   = Message(d + 1, k, choices[k], shape.widths[k])
      <4>1. reserved[k].mb = Block(o + k - 1, rb[k], shape.widths[k])
        BY <1>3, <3>1 DEF Taken
      <4>2. PICK ch \in [1..Transfers(shape) -> {0, 1}], i \in Nat : ch = choices /\ i = d + 1
        BY <3>2
      <4>3. swap = [j \in 1..Transfers(shape) |-> Swap(rb[j], ch[j])]
        BY <3>3, <4>2
      <4>4. rb \in [1..Transfers(shape) -> {0, 1}] /\ i \in Nat
        BY <3>2, <4>2
      <4>5. OpensTo(shape, i, o, rb, ch, swap)
        BY <4>2, <4>3, <4>4, OpensRight
      <4>6. XorSeq(Slice(shape.form, Answer(shape, i, o, swap), shape.widths, k, ch[k]),
                   Block(o + k - 1, rb[k], shape.widths[k]))
              = Message(i, k, ch[k], shape.widths[k])
        BY <4>5 DEF OpensTo
      <4> QED
        BY <2>1, <4>1, <4>2, <4>6
    <3> QED
      BY <3>4 DEF Opened, Returned
  <2>8. delivered' = Append(delivered, Returned(shape, d + 1, choices))
    BY <1>1, <1>3, <1>5, <2>5, <2>7
  <2>9. NoTransfers(sdone + 1, D + 1)
    <3>1. \A k \in (sdone + 1)..(D + 1) : FALSE
      BY <1>6, <2>1
    <3> QED
      BY <3>1 DEF NoTransfers
  <2> QED
    BY <1>2, <1>3, <2>1, <2>6, <2>8, <2>9
<1> QED
  BY <1>2, <1>7, <1>8

\* What is returned is sequences of bits.
LEMMA ReturnedType ==
  ASSUME NEW shape \in Shapes, NEW i \in Nat, NEW ch \in [1..Transfers(shape) -> {0, 1}]
  PROVE  Returned(shape, i, ch) \in Seq(Seq(Bits))
<1>1. ASSUME NEW k \in 1..Transfers(shape)
      PROVE  Message(i, k, ch[k], shape.widths[k]) \in Seq(Bits)
  <2>1. PICK v \in Nat : v = shape.widths[k]
    BY ShapeIsOK DEF ShapeOK
  <2>2. k \in Nat /\ ch[k] \in {0, 1}
    BY ShapeIsOK
  <2>3. Message(i, k, ch[k], v) \in Strings(v)
    BY <2>2, StringTypes
  <2> QED
    BY <2>1, <2>3 DEF Strings
<1>2. Transfers(shape) \in Nat
  BY ShapeIsOK
<1> QED
  BY <1>1, <1>2 DEF Returned

LEMMA OpenKeeps == RotInv /\ ReceiverOpen => RotInv'
<1> SUFFICES ASSUME RotInv, ReceiverOpen PROVE RotInv'
  OBVIOUS
<1>1. /\ rstate' = "ready" /\ chosen' = Append(chosen, choices)
      /\ choices' = <<>> /\ reserved' = <<>>
      /\ UNCHANGED <<plan, b, sfirst, rfirst, sstate, sdone, toSender>>
  BY OpenIs
<1>2. /\ CallOK /\ toSender = <<>> /\ toReceiver' = <<>> /\ sfirst = rfirst
      /\ delivered' = Append(delivered, Returned(plan[D + 1], D + 1, choices))
      /\ NoTransfers(sdone + 1, D + 1) /\ NoTransfers(D + 2, sdone)
  BY OpenReturns
<1>3. TypesOK /\ DeliveredOK
  BY DEF RotInv
<1>4. PICK d \in Nat, shape \in Shapes, n \in Nat, o \in Nat :
           /\ d = D /\ d + 1 \in 1..MaxCalls /\ shape = plan[d + 1] /\ n = Transfers(shape)
           /\ n = Size(D + 1) /\ o = Begin /\ o + n = rfirst /\ o + n <= NumOTs
           /\ choices \in [1..n -> {0, 1}] /\ reserved = Taken(shape, o, b)
           /\ Swaps(shape, o, b, choices) \in [1..n -> {0, 1}]
  BY <1>2, <1>3, CallIs
<1>5. PICK new : new = Returned(shape, d + 1, choices)
  OBVIOUS
<1>6. new \in Seq(Seq(Bits))
  <2>1. d + 1 \in Nat /\ choices \in [1..Transfers(shape) -> {0, 1}]
    BY <1>4
  <2> QED
    BY <1>5, <2>1, ReturnedType
<1>7. /\ delivered' \in Seq(Seq(Seq(Bits))) /\ Len(delivered') = d + 1
      /\ delivered'[d + 1] = new /\ \A i \in 1..d : delivered'[i] = delivered[i]
  <2>1. delivered' = Append(delivered, new) /\ delivered \in Seq(Seq(Seq(Bits))) /\ Len(delivered) = d
    BY <1>2, <1>3, <1>4, <1>5 DEF TypesOK, D
  <2> QED
    BY <1>6, <2>1, AppendProperties
<1>8. /\ chosen' \in Seq(Seq({0, 1})) /\ Len(chosen') = d + 1
      /\ chosen'[d + 1] = choices /\ \A i \in 1..d : chosen'[i] = chosen[i]
  <2>1. chosen \in Seq(Seq({0, 1})) /\ Len(chosen) = d
    BY <1>3, <1>4 DEF TypesOK
  <2>2. choices \in Seq({0, 1})
    BY <1>4
  <2> QED
    BY <1>1, <2>1, <2>2, AppendProperties
<1>9. D' = d + 1 /\ \A i : Size(i)' = Size(i)
  BY <1>1, <1>7 DEF D, Size
<1>10. TypesOK'
  BY SMTT(30), <1>1, <1>3, <1>4, <1>7, <1>8, <1>9, SizesAssumption DEF TypesOK, D
<1>11. DeliveredOK'
  <2> SUFFICES ASSUME NEW i \in 1..(d + 1)
               PROVE  /\ chosen'[i] \in [1..Size(i) -> {0, 1}]
                      /\ delivered'[i] = Returned(plan[i], i, chosen'[i])
    BY <1>1, <1>9 DEF DeliveredOK
  <2>1. CASE i = d + 1
    BY <1>4, <1>5, <1>7, <1>8, <2>1
  <2>2. CASE i # d + 1
    <3>1. i \in 1..d
      BY <2>2
    <3>2. chosen[i] \in [1..Size(i) -> {0, 1}] /\ delivered[i] = Returned(plan[i], i, chosen[i])
      BY <1>3, <1>4, <3>1 DEF DeliveredOK
    <3> QED
      BY <1>7, <1>8, <3>1, <3>2
  <2> QED
    BY <2>1, <2>2
<1>12. Aligned'
  <2>1. NoTransfers(sdone + 1, D)' /\ NoTransfers(D + 1, sdone)'
    <3>1. \A k \in (sdone + 1)..(d + 1) : Size(k)' = 0
      BY <1>2, <1>4, <1>9 DEF NoTransfers
    <3>2. \A k \in (d + 2)..sdone : Size(k)' = 0
      BY <1>2, <1>4, <1>9 DEF NoTransfers
    <3>3. D' = d + 1 /\ (d + 1) + 1 = d + 2 /\ sdone' = sdone
      BY <1>1, <1>9
    <3> QED
      BY <3>1, <3>2, <3>3 DEF NoTransfers
  <2> QED
    BY <1>1, <1>2, <2>1 DEF Aligned
<1> QED
  BY <1>10, <1>11, <1>12 DEF RotInv

LEMMA OthersKeep ==
  RotInv /\ (ReceiverOutOfOTs \/ SenderOutOfOTs \/ Stop \/ UNCHANGED vars) => RotInv'
<1> SUFFICES ASSUME RotInv, ReceiverOutOfOTs \/ SenderOutOfOTs \/ Stop \/ UNCHANGED vars
             PROVE  RotInv'
  OBVIOUS
<1>1. /\ UNCHANGED <<plan, b, sfirst, rfirst, sdone, choices, reserved, delivered, chosen,
                     toSender, toReceiver>>
      /\ sstate' \in {sstate, "failed"}
      /\ rstate' = rstate \/ (rstate = "ready" /\ rstate' = "failed")
  BY DEF ReceiverOutOfOTs, SenderOutOfOTs, Stop, vars
<1>2. D' = D /\ Begin' = Begin /\ \A i : Size(i)' = Size(i)
  BY <1>1 DEF D, Begin, Size
<1>3. TypesOK'
  BY <1>1, <1>2 DEF RotInv, TypesOK
<1>4. DeliveredOK'
  BY <1>1, <1>2 DEF RotInv, DeliveredOK
<1>5. \A i, j : NoTransfers(i, j) => \A k \in i..j : Size(k)' = 0
  BY <1>2 DEF NoTransfers
<1>6. CASE Aligned
  <2>1. NoTransfers(sdone + 1, D)' /\ NoTransfers(D + 1, sdone)'
    BY <1>1, <1>2, <1>6 DEF Aligned, NoTransfers
  <2>2. Aligned'
    BY <1>1, <1>6, <2>1 DEF Aligned
  <2> QED
    BY <1>3, <1>4, <2>2 DEF RotInv
<1>7. CASE Asked
  <2>1. NoTransfers(sdone + 1, D)'
    BY <1>1, <1>2, <1>7 DEF Asked, NoTransfers
  <2>2. CallOK'
    BY <1>1, <1>2, <1>7 DEF Asked, CallOK
  <2>3. Asked'
    BY <1>1, <1>2, <1>7, <2>1, <2>2 DEF Asked
  <2> QED
    BY <1>3, <1>4, <2>3 DEF RotInv
<1>8. CASE Answered
  <2>1. NoTransfers(D + 2, sdone)'
    BY <1>1, <1>2, <1>8 DEF Answered, NoTransfers
  <2>2. CallOK'
    BY <1>1, <1>2, <1>8 DEF Answered, CallOK
  <2>3. Answered'
    BY <1>1, <1>2, <1>8, <2>1, <2>2 DEF Answered
  <2> QED
    BY <1>3, <1>4, <2>3 DEF RotInv
<1> QED
  BY <1>6, <1>7, <1>8 DEF RotInv

LEMMA RotInvHolds == Spec => []RotInv
<1>1. Init => RotInv
  BY RotStarts
<1>2. RotInv /\ [Next]_vars => RotInv'
  BY AskKeeps, TransferKeeps, OpenKeeps, OthersKeep DEF Next, SenderNext, ReceiverNext
<1> QED
  BY <1>1, <1>2, PTL DEF Spec

-----------------------------------------------------------------------------
\* Each transfer of each call returns the message that the receiver chose: for pools
\* of every size and calls of every number, width and layout that the overloads of
\* Receiver::transfer allow, and for every value of the pads and messages.
THEOREM RightMessage == Spec => []ChosenMessage
<1>1. RotInv => ChosenMessage
  <2> SUFFICES ASSUME RotInv, NEW i \in DOMAIN delivered, NEW k \in DOMAIN delivered[i]
               PROVE  delivered[i][k] = Message(i, k, chosen[i][k], plan[i].widths[k])
    BY DEF ChosenMessage
  <2>1. i \in 1..D
    BY DEF RotInv, TypesOK, D
  <2>2. delivered[i] = Returned(plan[i], i, chosen[i])
    BY <2>1 DEF RotInv, DeliveredOK
  <2> QED
    BY <2>2 DEF Returned
<1> QED
  BY <1>1, RotInvHolds, PTL

\* Between calls the two cursors stand at the same OT and no bit is left on the way,
\* so that no call shifts a later one.
THEOREM CursorsTogether == Spec => []PoolsAligned
<1>1. RotInv => PoolsAligned
  BY DEF RotInv, Aligned, Asked, Answered, CallOK, PoolsAligned
<1> QED
  BY <1>1, RotInvHolds, PTL

-----------------------------------------------------------------------------
\* The refinement.  What is left of the ideal transfers: the receiver's cursor says
\* it, except that a call under way counts only when it is completed.
Left == IF rstate = "waiting" THEN NumOTs - rfirst + Len(choices) ELSE NumOTs - rfirst
Refused == rstate = "failed"

LEMMA IdealStarts == Init => Ideal!Init
BY SizesAssumption DEF Init, Ideal!Init

\* Opening an answer is an ideal transfer.
LEMMA OpenIsDeliver ==
  ASSUME RotInv, ReceiverOpen
  PROVE  Ideal!Deliver
<1>1. /\ rstate = "waiting" /\ rstate' = "ready" /\ choices' = <<>>
      /\ UNCHANGED <<plan, b, sfirst, rfirst, sstate, sdone, toSender>>
  BY OpenIs
<1>2. CallOK /\ delivered' = Append(delivered, Returned(plan[D + 1], D + 1, choices))
  BY OpenReturns
<1>3. PICK d \in Nat, shape \in Shapes, n \in Nat, o \in Nat :
           /\ d = D /\ d + 1 \in 1..MaxCalls /\ shape = plan[d + 1] /\ n = Transfers(shape)
           /\ n = Size(D + 1) /\ o = Begin /\ o + n = rfirst /\ o + n <= NumOTs
           /\ choices \in [1..n -> {0, 1}] /\ reserved = Taken(shape, o, b)
           /\ Swaps(shape, o, b, choices) \in [1..n -> {0, 1}]
  BY <1>2, CallIs DEF RotInv
<1>4. Len(choices) = n
  BY <1>3
<1>5. Left = NumOTs - o /\ Left' = NumOTs - (o + n)
  BY <1>1, <1>3, <1>4, SizesAssumption DEF Left
<1>6. n <= Left /\ Left' = Left - n
  BY <1>3, <1>5, SizesAssumption
<1>7. ~Refused /\ ~Refused' /\ plan' = plan
  BY <1>1 DEF Refused
<1>8. /\ Ideal!current = d + 1 /\ Len(plan[d + 1].widths) = n /\ d + 1 <= MaxCalls
      /\ plan[d + 1] = shape
  BY <1>3 DEF Ideal!current, D, Transfers
<1>9. delivered' = Append(delivered,
                     [k \in 1..n |-> Message(d + 1, k, choices[k], plan[d + 1].widths[k])])
  BY <1>2, <1>3 DEF Returned
<1> QED
  BY <1>3, <1>6, <1>7, <1>8, <1>9 DEF Ideal!Deliver, Left, Refused

\* The receiver's exception is the refusal.
LEMMA OutIsRefuse ==
  ASSUME RotInv, ReceiverOutOfOTs
  PROVE  Ideal!Refuse
<1>1. /\ rstate = "ready" /\ rstate' = "failed" /\ D + 1 <= MaxCalls
      /\ ~(Len(plan[D + 1].widths) <= NumOTs - rfirst)
      /\ UNCHANGED <<plan, rfirst, choices, delivered>>
  BY DEF ReceiverOutOfOTs, receiverCall, D, Enough, PoolRemaining
<1>2. D + 1 \in 1..MaxCalls /\ rfirst \in Nat
  BY <1>1, SizesAssumption DEF RotInv, TypesOK
<1>3. Len(plan[D + 1].widths) \in Nat
  BY <1>2, SizeType DEF RotInv, Size, Transfers
<1>4. Len(plan[D + 1].widths) > NumOTs - rfirst
  BY <1>1, <1>2, <1>3, SizesAssumption
<1>5. Left = NumOTs - rfirst /\ Left' = Left /\ ~Refused /\ Refused'
  BY <1>1 DEF Left, Refused
<1>6. Ideal!current = D + 1
  BY DEF Ideal!current, D
<1> QED
  BY <1>1, <1>4, <1>5, <1>6 DEF Ideal!Refuse, Left, Refused

\* Every other step is none of the ideal transfers.
LEMMA OthersStutter ==
  ASSUME RotInv, ReceiverAsk \/ SenderTransfer \/ SenderOutOfOTs \/ Stop \/ UNCHANGED vars
  PROVE  UNCHANGED Ideal!vars
<1>1. CASE ReceiverAsk
  <2>1. /\ rstate = "ready" /\ rstate' = "waiting" /\ D + 1 <= MaxCalls
        /\ rfirst' = rfirst + Size(D + 1) /\ choices' \in [1..Size(D + 1) -> {0, 1}]
        /\ UNCHANGED <<plan, delivered>>
    BY <1>1, AskIs
  <2>2. D + 1 \in 1..MaxCalls /\ rfirst \in Nat
    BY <2>1, SizesAssumption DEF RotInv, TypesOK
  <2>3. Size(D + 1) \in Nat
    BY <2>2, SizeType DEF RotInv
  <2>4. Len(choices') = Size(D + 1)
    BY <2>1, <2>3
  <2>5. Left' = Left /\ Refused' = Refused
    BY <2>1, <2>2, <2>3, <2>4, SizesAssumption DEF Left, Refused
  <2> QED
    BY <2>1, <2>5 DEF Ideal!vars, Left, Refused
<1>2. CASE SenderTransfer
  BY <1>2 DEF SenderTransfer, Ideal!vars
<1>3. CASE SenderOutOfOTs
  BY <1>3 DEF SenderOutOfOTs, Ideal!vars
<1>4. CASE Stop \/ UNCHANGED vars
  BY <1>4 DEF Stop, vars, Ideal!vars
<1> QED
  BY <1>1, <1>2, <1>3, <1>4

\* The pools, the cursors and the channel implement the ideal transfers: they start
\* as those do, and each of their steps is an ideal transfer, a refusal or none.
THEOREM ImplementsIdealSteps == Spec => Ideal!Init /\ [][Ideal!Next]_(Ideal!vars)
<1>1. Init => Ideal!Init
  BY IdealStarts
<1>2. RotInv /\ [Next]_vars => [Ideal!Next]_(Ideal!vars)
  BY OpenIsDeliver, OutIsRefuse, OthersStutter DEF Next, SenderNext, ReceiverNext, Ideal!Next
<1> QED
  BY <1>1, <1>2, RotInvHolds, PTL DEF Spec
-----------------------------------------------------------------------------
\* A range never runs backwards: `remaining` does not underflow.
Ordered == \A p \in Parties : \A h \in Handles : first[p][h] <= last[p][h]

\* Before its first call a process has no OTs at all; run() relies on it when
\* it makes Main the owner of the whole vector.
Fresh ==
  \A p \in Parties : pc[p] = 0 =>
    /\ size[p] = 0 /\ spent[p] = {}
    /\ \A h \in Handles : first[p][h] = 0 /\ last[p][h] = 0

\* A call that is about to be made is one of the program's: its count is a
\* natural and its object a worker's.
LEMMA CallType ==
  ASSUME TypeOK, NEW p \in Parties, NEW op, AtCall(p, op)
  PROVE  /\ Call(p) \in Calls
         /\ Call(p).n \in Nat /\ Call(p).to \in Workers
         /\ Call(p).op = op
         /\ pc[p] + 1 \in 0..Len(program)
         /\ op = "run" => pc[p] = 0
<1>1. program \in Seq(Calls)
  BY ProgramsAssumption DEF TypeOK
<1>2. /\ pc[p] \in Nat /\ pc[p] < Len(program) /\ Len(program) \in Nat
      /\ pc[p] + 1 \in 1..Len(program)
  BY <1>1 DEF TypeOK, AtCall
<1>3. program[pc[p] + 1] \in Calls
  BY <1>1, <1>2
<1>4. op = "run" => pc[p] + 1 = 1
  BY <1>1, <1>2, ProgramsAssumption DEF TypeOK, AtCall
<1> QED
  BY <1>2, <1>3, <1>4 DEF Call, AtCall, Calls

\* What the i-th call of the program may be.
LEMMA CallAt ==
  ASSUME TypeOK, NEW i \in DOMAIN program
  PROVE  /\ i \in Nat /\ i \in 1..Len(program) /\ Len(program) \in Nat
         /\ program[i] \in Calls
         /\ program[i].n \in Nat /\ program[i].to \in Workers
         /\ program[i].to \in Handles /\ program[i].to # Main
<1>1. program \in Seq(Calls)
  BY ProgramsAssumption DEF TypeOK
<1>2. i \in Nat /\ i \in 1..Len(program) /\ Len(program) \in Nat /\ program[i] \in Calls
  BY <1>1
<1> QED
  BY <1>2, MainAssumption DEF Calls, Handles

-----------------------------------------------------------------------------
\* The variables keep their types: in particular no cursor is ever negative.
THEOREM TypeCorrect == PoolSpec => []TypeOK
<1>1. PoolInit => TypeOK
  BY ProgramsAssumption DEF PoolInit, TypeOK
<1>2. TypeOK /\ [PoolNext]_poolVars => TypeOK'
  <2> SUFFICES ASSUME TypeOK, [PoolNext]_poolVars PROVE TypeOK'
    OBVIOUS
  <2>1. ASSUME NEW p \in Parties, Run(p) PROVE TypeOK'
    <3>1. Call(p).n \in Nat /\ pc[p] + 1 \in 0..Len(program)
      BY <2>1, CallType DEF Run
    <3>2. first' \in [Parties -> [Handles -> Nat]] /\ last' \in [Parties -> [Handles -> Nat]]
      <4> DEFINE new == size[p] + Call(p).n
      <4>1. new \in Nat /\ 0 \in Nat /\ Main \in Handles
        BY <3>1 DEF TypeOK, Handles
      <4>2. first' = [first EXCEPT ![p][Main] = 0] /\ last' = [last EXCEPT ![p][Main] = new]
        BY <2>1 DEF Run
      <4> HIDE DEF new
      <4> QED
        BY <4>1, <4>2 DEF TypeOK
    <3>3. pc' \in [Parties -> 0..Len(program)] /\ size' \in [Parties -> Nat]
      BY <2>1, <3>1 DEF Run, TypeOK, Return
    <3> QED
      BY <2>1, <3>2, <3>3 DEF Run, TypeOK
  <2>2. ASSUME NEW p \in Parties, NEW h \in Handles, NEW n \in Nat, Take(p, h, n),
               n <= Remaining(p, h), program' = program,
               pc' \in [Parties -> 0..Len(program)]
        PROVE  TypeOK'
    <3>1. Granted(p, h, n) \subseteq Nat
      BY DEF Granted, TypeOK
    <3>2. first' \in [Parties -> [Handles -> Nat]]
      BY <2>2 DEF Take, TypeOK
    <3>3. spent' \in [Parties -> SUBSET Nat] /\ twice' \in [Parties -> SUBSET Nat]
      BY <2>2, <3>1 DEF Take, TypeOK
    <3> QED
      BY <2>2, <3>2, <3>3 DEF Take, TypeOK
  <2>3. ASSUME NEW p \in Parties, Transfer(p) PROVE TypeOK'
    <3>1. Call(p).n \in Nat /\ pc[p] + 1 \in 0..Len(program)
      BY <2>3, CallType DEF Transfer
    <3>2. pc' \in [Parties -> 0..Len(program)]
      BY <2>3, <3>1 DEF Transfer, Return, TypeOK
    <3> QED
      BY <2>2, <2>3, <3>1, <3>2 DEF Transfer, Handles, Take
  <2>4. ASSUME NEW p \in Parties, Reserve(p) PROVE TypeOK'
    <3>1. Call(p).n \in Nat /\ Call(p).to \in Workers /\ pc[p] + 1 \in 0..Len(program)
      BY <2>4, CallType DEF Reserve
    <3> DEFINE f == first[p][Main]
               n == Call(p).n
               w == Call(p).to
    <3>2. f \in Nat /\ f + n \in Nat /\ w \in Handles /\ Main \in Handles
      BY <3>1 DEF TypeOK, Handles
    <3>3. first' = [first EXCEPT ![p][Main] = f + n, ![p][w] = f]
      BY <2>4 DEF Reserve, FirstAfterReserve
    <3>4. last' = [last EXCEPT ![p][w] = f + n] /\ start' = [start EXCEPT ![p][w] = f]
      BY <2>4 DEF Reserve, ReservedLast
    <3> HIDE DEF f, n, w
    <3>5. first' \in [Parties -> [Handles -> Nat]]
      BY <3>2, <3>3 DEF TypeOK
    <3>6. last' \in [Parties -> [Handles -> Nat]] /\ start' \in [Parties -> [Handles -> Nat]]
      BY <3>2, <3>4 DEF TypeOK
    <3>7. pc' \in [Parties -> 0..Len(program)]
      BY <2>4, <3>1 DEF Reserve, Return, TypeOK
    <3> QED
      BY <2>4, <3>5, <3>6, <3>7 DEF Reserve, TypeOK
  <2>5. ASSUME NEW p \in Parties, Refuse(p) PROVE TypeOK'
    BY <2>5 DEF Refuse, TypeOK
  <2>6. ASSUME NEW p \in Parties, NEW w \in Workers, Work(p, w) PROVE TypeOK'
    <3>1. PICK n \in 1..Remaining(p, w) : Take(p, w, n)
      BY <2>6 DEF Work
    <3>2. n \in Nat /\ n <= Remaining(p, w) /\ w \in Handles
      BY <3>1 DEF Remaining, TypeOK, Handles
    <3> QED
      BY <2>2, <2>6, <3>1, <3>2 DEF Work, TypeOK, Take
  <2>7. CASE UNCHANGED poolVars
    BY <2>7 DEF poolVars, TypeOK
  <2> QED
    BY <2>1, <2>3, <2>4, <2>5, <2>6, <2>7 DEF PoolNext, PoolStop
<1> QED
  BY <1>1, <1>2, PTL DEF PoolSpec

-----------------------------------------------------------------------------
\* What every step of a process keeps: the ranges of its objects are in order,
\* inside the vector, apart from each other and from what was handed out.
Inv == TypeOK /\ Ordered /\ Fresh /\ Disjoint /\ NoReuse

\* Handing out the first n OTs of an object's range keeps all of it.
LEMMA TakeKeeps ==
  ASSUME Inv, TypeOK', NEW p \in Parties, NEW h \in Handles, NEW n \in Nat,
         Take(p, h, n), n <= Remaining(p, h), 
         \A q \in Parties : q # p => pc'[q] = pc[q],
         pc'[p] = 0 => pc[p] = 0
  PROVE  Ordered' /\ Fresh' /\ Disjoint' /\ NoReuse'
<1>1. /\ first \in [Parties -> [Handles -> Nat]] /\ last \in [Parties -> [Handles -> Nat]]
      /\ size \in [Parties -> Nat] /\ spent \in [Parties -> SUBSET Nat]
      /\ twice \in [Parties -> SUBSET Nat]
  BY DEF Inv, TypeOK
<1>2. /\ first'[p][h] = first[p][h] + n
      /\ \A g \in Handles : g # h => first'[p][g] = first[p][g]
      /\ \A q \in Parties : q # p => first'[q] = first[q]
      /\ last' = last /\ size' = size
  BY <1>1 DEF Take
<1>3. /\ spent'[p] = spent[p] \cup Granted(p, h, n)
      /\ twice'[p] = twice[p] \cup (spent[p] \cap Granted(p, h, n))
      /\ \A q \in Parties : q # p => spent'[q] = spent[q] /\ twice'[q] = twice[q]
  BY <1>1 DEF Take
<1>4. Granted(p, h, n) \subseteq Owned(p, h)
  BY <1>1 DEF Granted, Owned, Remaining
<1>5. NoReuse'
  BY <1>3, <1>4 DEF Inv, NoReuse, Disjoint
<1>6. Ordered'
  BY SMTT(30), <1>1, <1>2 DEF Inv, Ordered, Remaining
<1>7. Fresh'
  <2> SUFFICES ASSUME NEW q \in Parties, pc'[q] = 0
               PROVE  /\ size'[q] = 0 /\ spent'[q] = {}
                      /\ \A g \in Handles : first'[q][g] = 0 /\ last'[q][g] = 0
    BY DEF Fresh
  <2>1. /\ size[q] = 0 /\ spent[q] = {}
        /\ \A g \in Handles : first[q][g] = 0 /\ last[q][g] = 0
    BY DEF Inv, Fresh
  <2>2. CASE q # p
    BY <1>2, <1>3, <2>1, <2>2
  <2>3. CASE q = p
    <3>1. n = 0
      BY <1>1, <2>1, <2>3 DEF Remaining
    <3>2. Granted(p, h, n) = {}
      BY <1>1, <3>1 DEF Granted
    <3>3. size'[p] = 0 /\ spent'[p] = {} /\ \A g \in Handles : last'[p][g] = 0
      BY <1>2, <1>3, <2>1, <2>3, <3>2
    <3>4. first'[p][h] = 0
      BY <1>2, <2>1, <2>3, <3>1
    <3>5. \A g \in Handles : g # h => first'[p][g] = 0
      BY <1>2, <2>1, <2>3
    <3> QED
      BY <2>3, <3>3, <3>4, <3>5
  <2> QED
    BY <2>2, <2>3
<1>8. Disjoint'
  <2> SUFFICES ASSUME NEW q \in Parties
               PROVE  /\ \A g, k \in Handles : g # k => Owned(q, g)' \cap Owned(q, k)' = {}
                      /\ \A g \in Handles : Owned(q, g)' \cap spent'[q] = {}
                      /\ \A g \in Handles : Owned(q, g)' \subseteq 0..(size'[q] - 1)
    BY DEF Disjoint, Owned
  <2>1. \A g \in Handles : Owned(q, g)' \subseteq Owned(q, g)
    <3> SUFFICES ASSUME NEW g \in Handles PROVE Owned(q, g)' \subseteq Owned(q, g)
      OBVIOUS
    <3>1. first[q][g] \in Nat /\ first'[q][g] \in Nat /\ last[q][g] \in Nat
      BY <1>1 DEF TypeOK
    <3>2. first[q][g] <= first'[q][g] /\ last'[q][g] = last[q][g]
      BY <1>1, <1>2, <3>1
    <3> QED
      BY <3>1, <3>2 DEF Owned
  <2>2. Owned(p, h)' \cap Granted(p, h, n) = {}
    BY <1>1, <1>2 DEF Owned, Granted
  <2>3. \A g \in Handles : g # h => Owned(p, g) \cap Granted(p, h, n) = {}
    BY <1>4 DEF Inv, Disjoint
  <2>4. /\ \A g, k \in Handles : g # k => Owned(q, g) \cap Owned(q, k) = {}
        /\ \A g \in Handles : Owned(q, g) \cap spent[q] = {}
        /\ \A g \in Handles : Owned(q, g) \subseteq 0..(size[q] - 1)
    BY DEF Inv, Disjoint
  <2>5. \A g \in Handles : Owned(q, g)' \cap spent'[q] = {}
    BY <1>3, <2>1, <2>2, <2>3, <2>4
  <2> QED
    BY <1>2, <2>1, <2>4, <2>5
<1> QED
  BY <1>5, <1>6, <1>7, <1>8
\* run() comes first: the vector is all of it Main's and nothing is spent.
LEMMA RunKeeps ==
  ASSUME Inv, NEW p \in Parties, Run(p)
  PROVE  Ordered' /\ Fresh' /\ Disjoint' /\ NoReuse'
<1> DEFINE n == Call(p).n
<1>1. n \in Nat /\ pc[p] = 0
  BY CallType DEF Inv, Run
<1>2. /\ first \in [Parties -> [Handles -> Nat]] /\ last \in [Parties -> [Handles -> Nat]]
      /\ size \in [Parties -> Nat] /\ spent \in [Parties -> SUBSET Nat]
      /\ pc \in [Parties -> 0..Len(program)] /\ Main \in Handles
  BY DEF Inv, TypeOK, Handles
<1>3. /\ size[p] = 0 /\ spent[p] = {}
      /\ \A h \in Handles : first[p][h] = 0 /\ last[p][h] = 0
  BY <1>1 DEF Inv, Fresh
<1>4. /\ size' = [size EXCEPT ![p] = size[p] + n]
      /\ first' = [first EXCEPT ![p][Main] = 0]
      /\ last' = [last EXCEPT ![p][Main] = size[p] + n]
      /\ pc' = [pc EXCEPT ![p] = @ + 1]
      /\ spent' = spent /\ twice' = twice
  BY DEF Run, Return
<1> HIDE DEF n
<1>5. /\ size'[p] = n /\ first'[p][Main] = 0 /\ last'[p][Main] = n
      /\ \A h \in Handles : h # Main => first'[p][h] = 0 /\ last'[p][h] = 0
      /\ pc'[p] = 1
  BY <1>1, <1>2, <1>3, <1>4
<1>6. \A q \in Parties : q # p =>
        size'[q] = size[q] /\ first'[q] = first[q] /\ last'[q] = last[q] /\ pc'[q] = pc[q]
  BY <1>2, <1>4
<1>7. NoReuse'
  BY <1>4 DEF Inv, NoReuse
<1>8. Ordered'
  <2> SUFFICES ASSUME NEW q \in Parties, NEW h \in Handles PROVE first'[q][h] <= last'[q][h]
    BY DEF Ordered
  <2>1. CASE q # p
    BY <1>6, <2>1 DEF Inv, Ordered
  <2>2. CASE q = p
    BY <1>1, <1>5, <2>2
  <2> QED
    BY <2>1, <2>2
<1>9. Fresh'
  BY <1>4, <1>5, <1>6 DEF Inv, Fresh
<1>10. Disjoint'
  <2> SUFFICES ASSUME NEW q \in Parties
               PROVE  /\ \A g, k \in Handles : g # k => Owned(q, g)' \cap Owned(q, k)' = {}
                      /\ \A g \in Handles : Owned(q, g)' \cap spent'[q] = {}
                      /\ \A g \in Handles : Owned(q, g)' \subseteq 0..(size'[q] - 1)
    BY DEF Disjoint, Owned
  <2>1. CASE q # p
    BY <1>4, <1>6, <2>1 DEF Inv, Disjoint, Owned
  <2>2. CASE q = p
    <3>1. \A h \in Handles : h # Main => Owned(p, h)' = {}
      BY <1>5 DEF Owned
    <3>2. Owned(p, Main)' = 0..(n - 1)
      BY <1>5 DEF Owned
    <3> QED
      BY <1>3, <1>4, <1>5, <2>2, <3>1, <3>2
  <2> QED
    BY <2>1, <2>2
<1> QED
  BY <1>7, <1>8, <1>9, <1>10

\* reserve() cuts the range of Main in two and gives the lower part away.
LEMMA ReserveKeeps ==
  ASSUME Inv, NEW p \in Parties, Reserve(p)
  PROVE  Ordered' /\ Fresh' /\ Disjoint' /\ NoReuse'
<1>0. Call(p).n \in Nat /\ Call(p).to \in Workers
  BY CallType DEF Inv, Reserve
<1> PICK n \in Nat, w \in Workers : n = Call(p).n /\ w = Call(p).to
  BY <1>0
<1> PICK f : f = first[p][Main]
  OBVIOUS
<1>1. w \in Handles /\ Main \in Handles /\ w # Main
  BY MainAssumption DEF Handles
<1>2. /\ first \in [Parties -> [Handles -> Nat]] /\ last \in [Parties -> [Handles -> Nat]]
      /\ size \in [Parties -> Nat] /\ spent \in [Parties -> SUBSET Nat]
      /\ pc \in [Parties -> 0..Len(program)]
  BY DEF Inv, TypeOK
<1>3. f \in Nat /\ last[p][Main] \in Nat /\ f + n <= last[p][Main]
  BY <1>1, <1>2 DEF Reserve, Remaining
<1>4. /\ first' = [first EXCEPT ![p][Main] = f + n, ![p][w] = f]
      /\ last' = [last EXCEPT ![p][w] = f + n]
      /\ pc' = [pc EXCEPT ![p] = @ + 1]
      /\ size' = size /\ spent' = spent /\ twice' = twice
  BY DEF Reserve, Return, FirstAfterReserve, ReservedLast
<1>5. /\ first'[p][Main] = f + n /\ last'[p][Main] = last[p][Main]
      /\ first'[p][w] = f /\ last'[p][w] = f + n
      /\ \A h \in Handles : h # Main /\ h # w =>
           first'[p][h] = first[p][h] /\ last'[p][h] = last[p][h]
      /\ pc'[p] # 0
  BY <1>1, <1>2, <1>3, <1>4
<1>6. \A q \in Parties : q # p =>
        first'[q] = first[q] /\ last'[q] = last[q] /\ pc'[q] = pc[q]
  BY <1>2, <1>4
<1>7. NoReuse'
  BY <1>4 DEF Inv, NoReuse
<1>8. Ordered'
  <2> SUFFICES ASSUME NEW q \in Parties, NEW h \in Handles PROVE first'[q][h] <= last'[q][h]
    BY DEF Ordered
  <2>1. CASE q # p
    BY <1>6, <2>1 DEF Inv, Ordered
  <2>2. CASE q = p
    BY <1>1, <1>3, <1>5, <2>2 DEF Inv, Ordered
  <2> QED
    BY <2>1, <2>2
<1>9. Fresh'
  <2> SUFFICES ASSUME NEW q \in Parties, pc'[q] = 0
               PROVE  /\ size'[q] = 0 /\ spent'[q] = {}
                      /\ \A h \in Handles : first'[q][h] = 0 /\ last'[q][h] = 0
    BY DEF Fresh
  <2>1. q # p
    BY <1>5
  <2>2. pc[q] = 0 /\ first'[q] = first[q] /\ last'[q] = last[q]
    BY <1>6, <2>1
  <2>3. size' = size /\ spent' = spent
    BY <1>4
  <2> QED
    BY <2>2, <2>3 DEF Inv, Fresh
<1>10. Disjoint'
  <2> SUFFICES ASSUME NEW q \in Parties
               PROVE  /\ \A g, k \in Handles : g # k => Owned(q, g)' \cap Owned(q, k)' = {}
                      /\ \A g \in Handles : Owned(q, g)' \cap spent'[q] = {}
                      /\ \A g \in Handles : Owned(q, g)' \subseteq 0..(size'[q] - 1)
    BY DEF Disjoint, Owned
  <2>1. CASE q # p
    <3>1. first'[q] = first[q] /\ last'[q] = last[q] /\ spent'[q] = spent[q] /\ size'[q] = size[q]
      BY <1>4, <1>6, <2>1
    <3>2. \A g \in Handles : Owned(q, g)' = Owned(q, g)
      BY <3>1 DEF Owned
    <3> QED
      BY <3>1, <3>2 DEF Inv, Disjoint
  <2>2. CASE q = p
    <3>1. /\ Owned(p, w)' = f..(f + n - 1)
          /\ Owned(p, Main)' = (f + n)..(last[p][Main] - 1)
          /\ Owned(p, Main) = f..(last[p][Main] - 1)
      <4>1. Owned(p, w)' = f..(f + n - 1)
        BY SMTT(30), <1>3, <1>5 DEF Owned
      <4>2. Owned(p, Main)' = (f + n)..(last[p][Main] - 1)
        BY <1>5 DEF Owned
      <4>3. Owned(p, Main) = f..(last[p][Main] - 1)
        BY DEF Owned
      <4> QED
        BY <4>1, <4>2, <4>3
    <3>2. /\ Owned(p, w)' \subseteq Owned(p, Main) /\ Owned(p, Main)' \subseteq Owned(p, Main)
          /\ Owned(p, w)' \cap Owned(p, Main)' = {}
      <4>1. \A i \in f..(f + n - 1) : i \in f..(last[p][Main] - 1) /\ i \notin (f + n)..(last[p][Main] - 1)
        BY <1>3
      <4>2. \A i \in (f + n)..(last[p][Main] - 1) : i \in f..(last[p][Main] - 1)
        BY <1>3
      <4> QED
        BY <3>1, <4>1, <4>2
    <3>3. \A h \in Handles : h # Main /\ h # w => Owned(p, h)' = Owned(p, h)
      BY <1>5 DEF Owned
    <3>4. /\ \A g, k \in Handles : g # k => Owned(p, g) \cap Owned(p, k) = {}
          /\ \A g \in Handles : Owned(p, g) \cap spent[p] = {}
          /\ \A g \in Handles : Owned(p, g) \subseteq 0..(size[p] - 1)
      BY DEF Inv, Disjoint
    <3> DEFINE Old(h) == IF h = w THEN Owned(p, Main) ELSE Owned(p, h)
    <3>5. \A h \in Handles : Owned(p, h)' \subseteq Old(h)
      BY <3>2, <3>3
    <3>6. \A g, k \in Handles : g # k => Owned(p, g)' \cap Owned(p, k)' = {}
      <4> SUFFICES ASSUME NEW g \in Handles, NEW k \in Handles, g # k
                   PROVE  Owned(p, g)' \cap Owned(p, k)' = {}
        OBVIOUS
      <4>1. CASE {g, k} = {Main, w}
        BY <3>2, <4>1
      <4>2. CASE {g, k} # {Main, w}
        <5>1. Old(g) \cap Old(k) = {}
          BY <1>1, <3>4, <4>2
        <5> QED
          BY <3>5, <5>1
      <4> QED
        BY <4>1, <4>2
    <3>7. \A g \in Handles : Owned(p, g)' \cap spent[p] = {}
      <4>1. \A g \in Handles : Old(g) \cap spent[p] = {}
        BY <1>1, <3>4
      <4> QED
        BY <3>5, <4>1
    <3>8. \A g \in Handles : Owned(p, g)' \subseteq 0..(size[p] - 1)
      <4>1. \A g \in Handles : Old(g) \subseteq 0..(size[p] - 1)
        BY <1>1, <3>4
      <4> QED
        BY <3>5, <4>1
    <3> QED
      BY <1>4, <2>2, <3>6, <3>7, <3>8
  <2> QED
    BY <2>1, <2>2
<1> QED
  BY <1>7, <1>8, <1>9, <1>10

-----------------------------------------------------------------------------
\* Every step keeps Inv.
LEMMA InvHolds == PoolSpec => []Inv
<1>1. PoolInit => Inv
  <2> SUFFICES ASSUME PoolInit PROVE Inv
    OBVIOUS
  <2>1. TypeOK
    BY ProgramsAssumption DEF PoolInit, TypeOK
  <2> QED
    BY <2>1 DEF PoolInit, Inv, Ordered, Fresh, Disjoint, NoReuse, Owned
<1>2. Inv /\ TypeOK' /\ [PoolNext]_poolVars => Inv'
  <2> SUFFICES ASSUME Inv, TypeOK', [PoolNext]_poolVars PROVE Inv'
    OBVIOUS
  <2>1. ASSUME NEW p \in Parties, Run(p) PROVE Inv'
    BY <2>1, RunKeeps DEF Inv
  <2>2. ASSUME NEW p \in Parties, Transfer(p) PROVE Inv'
    <3>1. Call(p).n \in Nat /\ Main \in Handles
      BY <2>2, CallType DEF Inv, Transfer, Handles
    <3>2. /\ \A q \in Parties : q # p => pc'[q] = pc[q]
          /\ pc'[p] # 0
      BY <2>2 DEF Inv, TypeOK, Transfer, Return
    <3> QED
      BY <2>2, <3>1, <3>2, TakeKeeps DEF Transfer, Inv
  <2>3. ASSUME NEW p \in Parties, Reserve(p) PROVE Inv'
    BY <2>3, ReserveKeeps DEF Inv
  <2>4. ASSUME NEW p \in Parties, Refuse(p) PROVE Inv'
    BY <2>4 DEF Refuse, Inv, Ordered, Fresh, Disjoint, NoReuse, Owned
  <2>5. ASSUME NEW p \in Parties, NEW w \in Workers, Work(p, w) PROVE Inv'
    <3>1. PICK n \in 1..Remaining(p, w) : Take(p, w, n)
      BY <2>5 DEF Work
    <3>2. n \in Nat /\ n <= Remaining(p, w) /\ w \in Handles
      BY <3>1 DEF Remaining, Inv, TypeOK, Handles
    <3> QED
      BY <2>5, <3>1, <3>2, TakeKeeps DEF Work, Inv
  <2>6. CASE UNCHANGED poolVars
    BY <2>6 DEF poolVars, Inv, Ordered, Fresh, Disjoint, NoReuse, Owned
  <2> QED
    BY <2>1, <2>2, <2>3, <2>4, <2>5, <2>6 DEF PoolNext, PoolStop
<1> QED
  BY <1>1, <1>2, TypeCorrect, PTL DEF PoolSpec

\* The ranges of a process's objects stay apart, and apart from the OTs that
\* were handed out, whatever is reserved and however the threads run.
THEOREM RangesDisjoint == PoolSpec => [](Disjoint /\ NoReuse)
<1>1. Inv => Disjoint /\ NoReuse
  BY DEF Inv
<1> QED
  BY <1>1, InvHolds, PTL

\* No random OT is ever returned by two gets.
COROLLARY NeverReused == PoolSpec => []NoReuse
BY RangesDisjoint, PTL

-----------------------------------------------------------------------------
\* An object that is still to be reserved has no OTs, so that reserve() does not
\* lose a range by giving its object another.
Unreserved ==
  \A p \in Parties : \A i \in DOMAIN program :
    i > pc[p] /\ program[i].op = "reserve" =>
      first[p][program[i].to] = 0 /\ last[p][program[i].to] = 0

\* i is an OT that some object of p owns.
Held(p, i) == \E h \in Handles : first[p][h] <= i /\ i < last[p][h]

AccountedAt(p) == \A i \in Nat : i < size[p] <=> i \in spent[p] \/ Held(p, i)

\* Accounted, OT by OT.
LEMMA AccountedByOne ==
  ASSUME TypeOK
  PROVE  Accounted <=> \A p \in Parties : AccountedAt(p)
<1> SUFFICES ASSUME NEW p \in Parties
             PROVE  0..(size[p] - 1) = spent[p] \cup UNION {Owned(p, h) : h \in Handles}
                      <=> AccountedAt(p)
  BY DEF Accounted
<1>1. /\ size[p] \in Nat /\ spent[p] \subseteq Nat
      /\ \A h \in Handles : first[p][h] \in Nat /\ last[p][h] \in Nat
  BY DEF TypeOK
<1>2. \A i : i \in 0..(size[p] - 1) <=> i \in Nat /\ i < size[p]
  BY <1>1
<1>3. \A h \in Handles : \A i : i \in Owned(p, h) <=> i \in Nat /\ first[p][h] <= i /\ i < last[p][h]
  BY <1>1 DEF Owned
<1>4. \A i : i \in UNION {Owned(p, h) : h \in Handles} <=> i \in Nat /\ Held(p, i)
  BY <1>3 DEF Held
<1>5. \A i : i \in spent[p] \cup UNION {Owned(p, h) : h \in Handles}
             <=> i \in Nat /\ (i \in spent[p] \/ Held(p, i))
  BY <1>1, <1>4
<1> QED
  BY <1>2, <1>5 DEF AccountedAt

\* What an object hands out goes from its range to the OTs that are spent.
LEMMA TakeAccounts ==
  ASSUME Inv, Unreserved, NEW p \in Parties, NEW h \in Handles, NEW n \in Nat,
         Take(p, h, n), n <= Remaining(p, h), h \in Workers => n > 0,
         \A q \in Parties : pc'[q] >= pc[q], pc' \in [Parties -> Nat],
         \A q \in Parties : AccountedAt(q)
  PROVE  Unreserved' /\ \A q \in Parties : AccountedAt(q)'
<1>1. /\ first \in [Parties -> [Handles -> Nat]] /\ last \in [Parties -> [Handles -> Nat]]
      /\ size \in [Parties -> Nat] /\ spent \in [Parties -> SUBSET Nat]
      /\ pc \in [Parties -> Nat] /\ program \in Seq(Calls)
  BY ProgramsAssumption DEF Inv, TypeOK
<1>2. /\ first'[p][h] = first[p][h] + n
      /\ \A g \in Handles : g # h => first'[p][g] = first[p][g]
      /\ \A q \in Parties : q # p => first'[q] = first[q]
      /\ last' = last /\ size' = size /\ program' = program
      /\ spent'[p] = spent[p] \cup Granted(p, h, n)
      /\ \A q \in Parties : q # p => spent'[q] = spent[q]
  BY <1>1 DEF Take
<1>3. first[p][h] + n <= last[p][h]
  BY <1>1 DEF Remaining
<1>4. Unreserved'
  <2> SUFFICES ASSUME NEW q \in Parties, NEW i \in DOMAIN program, i > pc'[q],
                      program[i].op = "reserve"
               PROVE  first'[q][program[i].to] = 0 /\ last'[q][program[i].to] = 0
    BY <1>2 DEF Unreserved
  <2>1. i \in Nat /\ program[i].to \in Workers
    BY CallAt DEF Inv
  <2>2. i > pc[q]
    BY <1>1, <2>1
  <2>3. first[q][program[i].to] = 0 /\ last[q][program[i].to] = 0
    BY <2>2 DEF Unreserved
  <2>4. q = p => program[i].to # h
    BY <1>1, <1>3, <2>1, <2>3
  <2> QED
    BY <1>2, <2>1, <2>3, <2>4 DEF Handles
<1>5. AccountedAt(p)'
  <2> SUFFICES ASSUME NEW i \in Nat
               PROVE  i \in spent'[p] \/ Held(p, i)' <=> i \in spent[p] \/ Held(p, i)
    BY <1>2 DEF AccountedAt
  <2>1. i \in Granted(p, h, n) <=> first[p][h] <= i /\ i < first[p][h] + n
    BY <1>1 DEF Granted
  <2>2. first[p][h] <= i /\ i < last[p][h]
        <=> i \in Granted(p, h, n) \/ (first'[p][h] <= i /\ i < last'[p][h])
    BY <1>1, <1>2, <1>3, <2>1
  <2>3. Held(p, i) <=> i \in Granted(p, h, n) \/ Held(p, i)'
    BY <1>2, <2>2 DEF Held
  <2> QED
    BY <1>2, <2>3
<1>6. ASSUME NEW q \in Parties, q # p PROVE AccountedAt(q)'
  BY <1>2, <1>6 DEF AccountedAt, Held
<1> QED
  BY <1>4, <1>5, <1>6

\* No random OT is lost: at every moment each that was generated is in the range
\* of one of the objects or was handed out, whatever was reserved and refused.
THEOREM NothingLost == PoolSpec => []Accounted
<1> DEFINE AInv == Unreserved /\ \A p \in Parties : AccountedAt(p)
<1>1. PoolInit => AInv
  <2> SUFFICES ASSUME PoolInit PROVE AInv
    OBVIOUS
  <2>1. TypeOK
    BY ProgramsAssumption DEF PoolInit, TypeOK
  <2>2. Unreserved
    BY CallAt, <2>1 DEF PoolInit, Unreserved, Inv
  <2>3. \A p \in Parties : AccountedAt(p)
    BY DEF PoolInit, AccountedAt, Held
  <2> QED
    BY <2>2, <2>3
<1>2. AInv /\ Inv /\ Inv' /\ [PoolNext]_poolVars => AInv'
  <2> SUFFICES ASSUME AInv, Inv, Inv', [PoolNext]_poolVars PROVE AInv'
    OBVIOUS
  <2>0. /\ first \in [Parties -> [Handles -> Nat]] /\ last \in [Parties -> [Handles -> Nat]]
        /\ size \in [Parties -> Nat] /\ spent \in [Parties -> SUBSET Nat]
        /\ pc \in [Parties -> Nat] /\ pc' \in [Parties -> Nat] /\ program \in Seq(Calls)
        /\ program \in Programs
    BY ProgramsAssumption DEF Inv, TypeOK
  <2>1. ASSUME NEW p \in Parties, Run(p) PROVE AInv'
    <3> DEFINE n == Call(p).n
    <3>1. n \in Nat /\ pc[p] = 0
      BY <2>1, CallType DEF Inv, Run
    <3>2. /\ size[p] = 0 /\ spent[p] = {}
          /\ \A h \in Handles : first[p][h] = 0 /\ last[p][h] = 0
      BY <3>1 DEF Inv, Fresh
    <3>3. /\ size' = [size EXCEPT ![p] = size[p] + n]
          /\ first' = [first EXCEPT ![p][Main] = 0]
          /\ last' = [last EXCEPT ![p][Main] = size[p] + n]
          /\ pc' = [pc EXCEPT ![p] = @ + 1]
          /\ spent' = spent /\ program' = program
      BY <2>1 DEF Run, Return
    <3> HIDE DEF n
    <3>4. /\ size'[p] = n /\ first'[p][Main] = 0 /\ last'[p][Main] = n /\ pc'[p] = 1
          /\ \A h \in Handles : h # Main => first'[p][h] = 0 /\ last'[p][h] = 0
          /\ \A q \in Parties : q # p =>
               size'[q] = size[q] /\ first'[q] = first[q] /\ last'[q] = last[q] /\ pc'[q] = pc[q]
      BY <2>0, <3>1, <3>2, <3>3 DEF Handles
    <3>5. Unreserved'
      <4> SUFFICES ASSUME NEW q \in Parties, NEW i \in DOMAIN program, i > pc'[q],
                          program[i].op = "reserve"
                   PROVE  first'[q][program[i].to] = 0 /\ last'[q][program[i].to] = 0
        BY <3>3 DEF Unreserved
      <4>1. program[i].to \in Handles /\ program[i].to # Main
        BY CallAt DEF Inv
      <4> QED
        BY <3>4, <4>1 DEF Unreserved
    <3>6. AccountedAt(p)'
      <4> SUFFICES ASSUME NEW i \in Nat PROVE i < n <=> Held(p, i)'
        BY <3>2, <3>3, <3>4 DEF AccountedAt
      <4> QED
        BY <3>1, <3>4 DEF Held, Handles
    <3>7. ASSUME NEW q \in Parties, q # p PROVE AccountedAt(q)'
      BY <3>3, <3>4, <3>7 DEF AccountedAt, Held
    <3> QED
      BY <3>5, <3>6, <3>7
  <2>2. ASSUME NEW p \in Parties, Transfer(p) PROVE AInv'
    <3>1. Call(p).n \in Nat /\ Main \in Handles /\ Main \notin Workers
      BY <2>2, CallType, MainAssumption DEF Inv, Transfer, Handles
    <3>2. \A q \in Parties : pc'[q] >= pc[q]
      BY <2>0, <2>2 DEF Transfer, Return
    <3> QED
      BY <2>0, <2>2, <3>1, <3>2, TakeAccounts DEF Transfer
  <2>3. ASSUME NEW p \in Parties, Reserve(p) PROVE AInv'
    <3>0. Call(p).n \in Nat /\ Call(p).to \in Workers /\ pc[p] + 1 \in DOMAIN program
      BY <2>0, <2>3, CallType DEF Inv, Reserve, AtCall
    <3> PICK n \in Nat, w \in Workers : n = Call(p).n /\ w = Call(p).to
      BY <3>0
    <3>1. w \in Handles /\ Main \in Handles /\ w # Main
      BY MainAssumption DEF Handles
    <3>2. first[p][w] = 0 /\ last[p][w] = 0
      BY <2>0, <2>3, <3>0 DEF Unreserved, Reserve, AtCall, Call
    <3>3. /\ first' = [first EXCEPT ![p][Main] = first[p][Main] + n, ![p][w] = first[p][Main]]
          /\ last' = [last EXCEPT ![p][w] = first[p][Main] + n]
          /\ pc' = [pc EXCEPT ![p] = @ + 1]
          /\ size' = size /\ spent' = spent /\ program' = program
      BY <2>3 DEF Reserve, Return, FirstAfterReserve, ReservedLast
    <3>4. first[p][Main] + n <= last[p][Main]
      BY <2>0, <2>3, <3>1 DEF Reserve, Remaining
    <3>5. /\ first'[p][Main] = first[p][Main] + n /\ last'[p][Main] = last[p][Main]
          /\ first'[p][w] = first[p][Main] /\ last'[p][w] = first[p][Main] + n
          /\ \A h \in Handles : h # Main /\ h # w =>
               first'[p][h] = first[p][h] /\ last'[p][h] = last[p][h]
          /\ \A q \in Parties : q # p => first'[q] = first[q] /\ last'[q] = last[q] /\ pc'[q] = pc[q]
          /\ pc'[p] = pc[p] + 1
      BY <2>0, <3>1, <3>3
    <3>6. Unreserved'
      <4> SUFFICES ASSUME NEW q \in Parties, NEW i \in DOMAIN program, i > pc'[q],
                          program[i].op = "reserve"
                   PROVE  first'[q][program[i].to] = 0 /\ last'[q][program[i].to] = 0
        <5>1. program' = program
          BY <3>3
        <5> QED
          BY <5>1 DEF Unreserved
      <4>1. program[i].to \in Handles /\ program[i].to # Main /\ i \in Nat
        BY CallAt DEF Inv
      <4>2. first[q][program[i].to] = 0 /\ last[q][program[i].to] = 0
        <5>1. pc[q] \in Nat /\ (pc'[q] = pc[q] \/ pc'[q] = pc[q] + 1)
          BY <2>0, <3>5
        <5>2. i > pc[q]
          BY <4>1, <5>1
        <5> QED
          BY <5>2 DEF Unreserved
      <4>3. q = p => program[i].to # w
        <5> SUFFICES ASSUME q = p, program[i].to = w PROVE FALSE
          OBVIOUS
        <5>1. program[pc[p] + 1].op = "reserve" /\ program[pc[p] + 1].to = w
          BY <2>3 DEF Reserve, AtCall, Call
        <5>2. i = pc[p] + 1
          BY <2>0, <3>0, <5>1, ProgramsAssumption
        <5> QED
          BY <2>0, <3>5, <5>2
      <4> QED
        BY <3>5, <4>1, <4>2, <4>3 DEF Handles
    <3>7. AccountedAt(p)'
      <4> SUFFICES ASSUME NEW i \in Nat PROVE Held(p, i)' <=> Held(p, i)
        BY <3>3 DEF AccountedAt
      <4>1. first[p][Main] \in Nat /\ last[p][Main] \in Nat
        BY <2>0, <3>1
      <4>2. first[p][Main] <= i /\ i < last[p][Main] <=>
              \/ first'[p][Main] <= i /\ i < last'[p][Main]
              \/ first'[p][w] <= i /\ i < last'[p][w]
        BY <3>4, <3>5, <4>1
      <4>3. ~ (first[p][w] <= i /\ i < last[p][w])
        BY <3>2
      <4> QED
        BY <3>1, <3>5, <4>2, <4>3 DEF Held
    <3>8. ASSUME NEW q \in Parties, q # p PROVE AccountedAt(q)'
      <4>1. first'[q] = first[q] /\ last'[q] = last[q] /\ spent'[q] = spent[q] /\ size'[q] = size[q]
        BY <3>3, <3>5, <3>8
      <4>2. \A i : Held(q, i)' <=> Held(q, i)
        BY <4>1 DEF Held
      <4>3. AccountedAt(q)
        BY <3>3
      <4> QED
        BY <4>1, <4>2, <4>3 DEF AccountedAt
    <3> QED
      BY <3>6, <3>7, <3>8
  <2>4. ASSUME NEW p \in Parties, Refuse(p) PROVE AInv'
    BY <2>4 DEF Refuse, Unreserved, AccountedAt, Held
  <2>5. ASSUME NEW p \in Parties, NEW w \in Workers, Work(p, w) PROVE AInv'
    <3>1. PICK n \in 1..Remaining(p, w) : Take(p, w, n)
      BY <2>5 DEF Work
    <3>2. n \in Nat /\ n > 0 /\ n <= Remaining(p, w) /\ w \in Handles
      BY <2>0, <3>1 DEF Remaining, Handles
    <3>3. \A q \in Parties : pc'[q] >= pc[q]
      BY <2>0, <2>5 DEF Work
    <3> QED
      BY <2>0, <3>1, <3>2, <3>3, TakeAccounts
  <2>6. CASE UNCHANGED poolVars
    BY <2>6 DEF poolVars, Unreserved, AccountedAt, Held
  <2> QED
    BY <2>1, <2>2, <2>3, <2>4, <2>5, <2>6 DEF PoolNext, PoolStop
<1>3. AInv /\ Inv => Accounted
  BY AccountedByOne DEF Inv
<1> QED
  BY <1>1, <1>2, <1>3, InvHolds, PTL DEF PoolSpec

-----------------------------------------------------------------------------
\* The OTs that the i-th call takes from Main.
Uses(i) == IF program[i].op = "run" THEN 0 ELSE program[i].n

\* Where Main's cursor is after i calls: F is the program's, not the party's.
Cursors(F) ==
  /\ F \in [0..Len(program) -> Nat]
  /\ RunningTotal(F, [i \in 1..Len(program) |-> Uses(i)], Len(program))

\* What run() has generated for p.
Generated(p) == IF pc[p] > 0 /\ program[1].op = "run" THEN program[1].n ELSE 0

\* The range that w was given is what the j-th call took from Main.
GivenBy(F, p, w, j) ==
  /\ program[j].op = "reserve" /\ program[j].to = w
  /\ start[p][w] = F[j - 1] /\ last[p][w] = F[j]

\* The cursors of p's objects are where the calls it has made put them.
FollowsAt(F, p) ==
  /\ first[p][Main] = F[pc[p]]
  /\ last[p][Main] = Generated(p)
  /\ \A w \in Workers : last[p][w] > 0 => \E j \in 1..pc[p] : GivenBy(F, p, w, j)

Follows == \E F : Cursors(F) /\ \A p \in Parties : FollowsAt(F, p)

\* Every program has its cursors.
LEMMA CursorsExist ==
  ASSUME TypeOK
  PROVE  \E F : Cursors(F)
<1>1. Len(program) \in Nat
  BY ProgramsAssumption DEF TypeOK
<1>2. \A i \in 1..Len(program) : Uses(i) \in Nat
  BY ProgramsAssumption, CallAt DEF Uses, TypeOK
<1> QED
  BY <1>1, <1>2, RunningTotals DEF Cursors

\* A step that takes nothing from Main keeps its party where its calls put it.
LEMMA StaysFollowing ==
  ASSUME Inv, NEW F, Cursors(F), NEW p \in Parties, FollowsAt(F, p), program' = program,
         pc'[p] = pc[p], first'[p][Main] = first[p][Main], last'[p] = last[p],
         start'[p] = start[p]
  PROVE  FollowsAt(F, p)'
BY DEF FollowsAt, Generated, GivenBy

\* The next call of p, and its share of the cursors.
LEMMA NextCursor ==
  ASSUME Inv, NEW F, Cursors(F), NEW p \in Parties, NEW op, AtCall(p, op)
  PROVE  /\ F[pc[p] + 1] = F[pc[p]] + (IF op = "run" THEN 0 ELSE Call(p).n)
         /\ F[0] = 0 /\ F[pc[p]] \in Nat /\ pc[p] \in Nat
         /\ pc[p] + 1 \in DOMAIN program
<1>1. /\ pc[p] \in 0..Len(program) /\ pc[p] < Len(program) /\ Len(program) \in Nat
      /\ program \in Seq(Calls)
  BY ProgramsAssumption DEF Inv, TypeOK, AtCall
<1>2. pc[p] + 1 \in 1..Len(program) /\ pc[p] + 1 - 1 = pc[p]
  BY <1>1
<1>3. F[pc[p] + 1] = F[pc[p]] + Uses(pc[p] + 1)
  <2>1. \A i \in 1..Len(program) : F[i] = F[i - 1] + Uses(i)
    BY DEF Cursors, RunningTotal
  <2> PICK k : k = pc[p] + 1
    OBVIOUS
  <2>2. k \in 1..Len(program) /\ k - 1 = pc[p] /\ pc[p] \in Nat
    BY <1>1, <1>2
  <2>3. F[k] = F[k - 1] + Uses(k)
    BY <2>1, <2>2
  <2>4. F[k] = F[pc[p]] + Uses(k)
    BY <2>2, <2>3
  <2> QED
    BY <2>4
<1> QED
  BY <1>1, <1>2, <1>3 DEF Cursors, RunningTotal, Uses, Call, AtCall

\* run() comes first: Main's cursor stays at 0.
LEMMA RunFollows ==
  ASSUME Inv, NEW F, Cursors(F), NEW p \in Parties, FollowsAt(F, p), Run(p)
  PROVE  FollowsAt(F, p)'
<1>1. Call(p).n \in Nat /\ pc[p] = 0 /\ Call(p).op = "run"
  BY CallType DEF Inv, Run
<1>2. size[p] = 0
  BY <1>1 DEF Inv, Fresh
<1>3. F[1] = 0
  BY <1>1, NextCursor DEF Run
<1>4. /\ pc'[p] = 1 /\ first'[p][Main] = 0 /\ last'[p][Main] = Call(p).n
      /\ \A w \in Workers : last'[p][w] = 0
      /\ program' = program
  <2>1. \A w \in Workers : last[p][w] = 0
    BY <1>1 DEF Inv, Fresh, Handles
  <2> QED
    BY <1>1, <1>2, <2>1, MainAssumption DEF Inv, TypeOK, Run, Return, Handles
<1>5. Generated(p)' = Call(p).n
  BY <1>1, <1>4 DEF Generated, Call
<1> QED
  BY <1>3, <1>4, <1>5 DEF FollowsAt

\* transfer() moves Main's cursor by the size of its call.
LEMMA TransferFollows ==
  ASSUME Inv, NEW F, Cursors(F), NEW p \in Parties, FollowsAt(F, p), Transfer(p)
  PROVE  FollowsAt(F, p)'
<1>1. Call(p).n \in Nat /\ Call(p).op = "transfer"
  BY CallType DEF Inv, Transfer
<1>2. F[pc[p] + 1] = F[pc[p]] + Call(p).n /\ pc[p] \in Nat
  BY NextCursor DEF Transfer
<1>3. /\ pc'[p] = pc[p] + 1 /\ first'[p][Main] = first[p][Main] + Call(p).n
      /\ last' = last /\ start' = start /\ program' = program
  BY DEF Inv, TypeOK, Transfer, Return, Take, Handles
<1>4. Generated(p)' = Generated(p)
  BY <1>1, <1>2, <1>3 DEF Generated, Call
<1>5. ASSUME NEW w \in Workers, last'[p][w] > 0
      PROVE  \E j \in 1..pc'[p] : GivenBy(F, p, w, j)'
  <2>1. PICK j \in 1..pc[p] : GivenBy(F, p, w, j)
    BY <1>3, <1>5 DEF FollowsAt
  <2> QED
    BY <1>2, <1>3, <2>1 DEF GivenBy
<1> QED
  BY <1>2, <1>3, <1>4, <1>5 DEF FollowsAt

\* reserve() gives its object what Main's cursor passes over.
LEMMA ReserveFollows ==
  ASSUME Inv, NEW F, Cursors(F), NEW p \in Parties, FollowsAt(F, p), Reserve(p)
  PROVE  FollowsAt(F, p)'
<1>1. Call(p).n \in Nat /\ Call(p).to \in Workers /\ Call(p).op = "reserve"
  BY CallType DEF Inv, Reserve
<1>2. F[pc[p] + 1] = F[pc[p]] + Call(p).n /\ pc[p] \in Nat
  BY NextCursor DEF Reserve
<1> PICK n \in Nat, v \in Workers : n = Call(p).n /\ v = Call(p).to
  BY <1>1
<1>3. /\ first' = [first EXCEPT ![p][Main] = first[p][Main] + n, ![p][v] = first[p][Main]]
      /\ last' = [last EXCEPT ![p][v] = first[p][Main] + n]
      /\ start' = [start EXCEPT ![p][v] = first[p][Main]]
      /\ pc' = [pc EXCEPT ![p] = @ + 1] /\ program' = program
  BY DEF Reserve, Return, FirstAfterReserve, ReservedLast
<1>4. /\ first \in [Parties -> [Handles -> Nat]] /\ last \in [Parties -> [Handles -> Nat]]
      /\ start \in [Parties -> [Handles -> Nat]] /\ pc \in [Parties -> 0..Len(program)]
      /\ v \in Handles /\ Main \in Handles /\ v # Main /\ Workers \subseteq Handles
  BY MainAssumption DEF Inv, TypeOK, Handles
<1>5. /\ pc'[p] = pc[p] + 1 /\ first'[p][Main] = first[p][Main] + n
      /\ last'[p][Main] = last[p][Main]
      /\ start'[p][v] = first[p][Main] /\ last'[p][v] = first[p][Main] + n
      /\ \A w \in Workers : w # v => last'[p][w] = last[p][w] /\ start'[p][w] = start[p][w]
  BY <1>3, <1>4
<1>6. Generated(p)' = Generated(p)
  BY <1>1, <1>2, <1>3, <1>5 DEF Generated, Call
<1>7. ASSUME NEW w \in Workers, last'[p][w] > 0
      PROVE  \E j \in 1..pc'[p] : GivenBy(F, p, w, j)'
  <2>1. CASE w = v
    <3> PICK j : j = pc[p] + 1
      OBVIOUS
    <3>1. /\ program[j].op = "reserve" /\ program[j].to = w /\ j - 1 = pc[p]
          /\ j \in 1..pc'[p]
      BY <1>1, <1>2, <1>5, <2>1 DEF Call
    <3>2. GivenBy(F, p, w, j)'
      BY <1>2, <1>3, <1>5, <2>1, <3>1 DEF FollowsAt, GivenBy
    <3> QED
      BY <3>1, <3>2
  <2>2. CASE w # v
    <3>1. PICK j \in 1..pc[p] : GivenBy(F, p, w, j)
      BY <1>5, <1>7, <2>2 DEF FollowsAt
    <3> QED
      BY <1>2, <1>3, <1>5, <2>2, <3>1 DEF GivenBy
  <2> QED
    BY <2>1, <2>2
<1> QED
  BY <1>2, <1>3, <1>5, <1>6, <1>7 DEF FollowsAt

\* Equal progress is an equal cursor: both parties count the same program.
LEMMA FollowersAgree ==
  ASSUME Inv, Follows
  PROVE  Mirrored
<1> PICK F : Cursors(F) /\ \A p \in Parties : FollowsAt(F, p)
  BY DEF Follows
<1> SUFFICES ASSUME NEW p \in Parties, NEW q \in Parties
             PROVE  /\ pc[p] = pc[q] =>
                         first[p][Main] = first[q][Main] /\ last[p][Main] = last[q][Main]
                    /\ \A w \in Workers :
                         last[p][w] > 0 /\ last[q][w] > 0 =>
                           start[p][w] = start[q][w] /\ last[p][w] = last[q][w]
  BY DEF Mirrored
<1>1. pc[p] = pc[q] => first[p][Main] = first[q][Main] /\ last[p][Main] = last[q][Main]
  BY DEF FollowsAt, Generated
<1>2. ASSUME NEW w \in Workers, last[p][w] > 0, last[q][w] > 0
      PROVE  start[p][w] = start[q][w] /\ last[p][w] = last[q][w]
  <2>1. PICK i \in 1..pc[p] : GivenBy(F, p, w, i)
    BY <1>2 DEF FollowsAt
  <2>2. PICK j \in 1..pc[q] : GivenBy(F, q, w, j)
    BY <1>2 DEF FollowsAt
  <2>3. i \in DOMAIN program /\ j \in DOMAIN program
    BY ProgramsAssumption DEF Inv, TypeOK
  <2>4. i = j
    BY <2>1, <2>2, <2>3, ProgramsAssumption DEF Inv, TypeOK, GivenBy
  <2> QED
    BY <2>1, <2>2, <2>4 DEF GivenBy
<1> QED
  BY <1>1, <1>2

\* Equal progress on an object is an equal cursor at the two parties, however
\* their threads are scheduled: a message always meets its own pad.
THEOREM PartiesMirrored == PoolSpec => []Mirrored
<1>1. PoolInit => Follows
  <2> SUFFICES ASSUME PoolInit PROVE Follows
    OBVIOUS
  <2>1. TypeOK
    BY ProgramsAssumption DEF PoolInit, TypeOK
  <2>2. PICK F : Cursors(F)
    BY <2>1, CursorsExist
  <2>3. F[0] = 0
    BY <2>2 DEF Cursors, RunningTotal
  <2>4. ASSUME NEW p \in Parties PROVE FollowsAt(F, p)
    <3>1. pc[p] = 0 /\ \A h \in Handles : first[p][h] = 0 /\ last[p][h] = 0
      BY DEF PoolInit
    <3> QED
      BY <2>3, <3>1 DEF FollowsAt, Generated, Handles
  <2> QED
    BY <2>2, <2>4 DEF Follows
<1>2. Follows /\ Inv /\ [PoolNext]_poolVars => Follows'
  <2> SUFFICES ASSUME Follows, Inv, [PoolNext]_poolVars PROVE Follows'
    OBVIOUS
  <2> PICK F : Cursors(F) /\ \A p \in Parties : FollowsAt(F, p)
    BY DEF Follows
  <2>0. program' = program
    BY DEF PoolNext, Run, Transfer, Reserve, Refuse, Work, PoolStop, Take, poolVars
  <2>1. Cursors(F)'
    BY <2>0 DEF Cursors, Uses
  <2> SUFFICES ASSUME NEW q \in Parties PROVE FollowsAt(F, q)'
    BY <2>1 DEF Follows
  <2>2. ASSUME NEW p \in Parties, Run(p) \/ Transfer(p) \/ Reserve(p) PROVE FollowsAt(F, q)'
    <3>1. CASE p = q
      BY <2>2, <3>1, RunFollows, TransferFollows, ReserveFollows
    <3>2. CASE p # q
      <4>1. /\ pc'[q] = pc[q] /\ first'[q] = first[q] /\ last'[q] = last[q]
            /\ start'[q] = start[q]
        BY <2>2, <3>2 DEF Inv, TypeOK, Run, Transfer, Take, Reserve, Return
      <4> QED
        BY <2>0, <4>1, StaysFollowing
    <3> QED
      BY <3>1, <3>2
  <2>3. ASSUME NEW p \in Parties, Refuse(p) PROVE FollowsAt(F, q)'
    BY <2>0, <2>3, StaysFollowing DEF Refuse
  <2>4. ASSUME NEW p \in Parties, NEW w \in Workers, Work(p, w) PROVE FollowsAt(F, q)'
    <3>1. PICK n \in 1..Remaining(p, w) : Take(p, w, n)
      BY <2>4 DEF Work
    <3>2. pc' = pc /\ last' = last /\ start' = start
      BY <2>4, <3>1 DEF Work, Take
    <3>3. first'[q][Main] = first[q][Main]
      BY <3>1, MainAssumption DEF Inv, TypeOK, Take, Handles
    <3> QED
      BY <2>0, <3>2, <3>3, StaysFollowing
  <2>5. CASE UNCHANGED poolVars
    BY <2>0, <2>5, StaysFollowing DEF poolVars
  <2> QED
    BY <2>2, <2>3, <2>4, <2>5 DEF PoolNext, PoolStop
<1> QED
  BY <1>1, <1>2, InvHolds, FollowersAgree, PTL DEF PoolSpec
=============================================================================
