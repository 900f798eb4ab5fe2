--------------------------- MODULE SessionProofs ---------------------------
(***************************************************************************)
(* Proofs about the protocol of module Session, for all parameters, sizes  *)
(* of buffers and interleavings: the scripts of the two parties fit        *)
(* together, so that the streams stay aligned, the random OTs are used up  *)
(* in the same order on both sides, and nothing is left over at the end.   *)
(* Where the parameters are suited nothing is thrown without a crash, and  *)
(* where they are not no party comes to a normal end.                      *)
(***************************************************************************)
EXTENDS Session, Induction

-----------------------------------------------------------------------------
\* Two scripts that fit.  What a script is made of.
Labels == {"product", "alphabeta", "enc_s0", "enc_s1", "enc_eXas0", "enc_eXas1",
           "eXas_eoe", "eXas", "eXs"} \cup ({"reduce", "xy"} \X Nat)
Tags == {""} \cup (Labels \X {"swap", "out", "alice", "bob", "key", "points"})
Verdicts == {"pass", "throw"}
Kinds == {"write", "read", "check", "get", "rot"} \cup Verdicts
Ops == [op : Kinds, tag : Tags, n : Nat, dir : {"", "sr", "rs"}]

\* One party writes what the other reads.
Message(x, y) == x.op = "write" /\ y.op = "read" /\ x.tag = y.tag /\ x.n = y.n

\* From the place t on, s sends in a transfer of the direction d and r receives.
TransferAt(s, r, t, d) ==
  /\ s[t].op = "check" /\ r[t].op = "check"
  /\ s[t + 1].op = "read" /\ r[t + 1].op = "get"
  /\ s[t + 2].op = "get" /\ r[t + 2].op = "write"
  /\ Message(r[t + 2], s[t + 1]) /\ Message(s[t + 3], r[t + 3])
  /\ s[t].dir = d /\ r[t].dir = d /\ r[t + 1].dir = d /\ s[t + 2].dir = d
  /\ r[t].n = s[t].n /\ r[t + 1].n = s[t].n /\ s[t + 2].n = s[t].n

Transfers(s, r, i, d) ==
  \E t \in 1..i : i <= t + 3 /\ t + 3 <= Len(s) /\ TransferAt(s, r, t, d)

\* Both look at a condition, and what can come of it is in V.
Judged(x, y, V) == x.op \in Verdicts /\ y.op \in Verdicts /\ x.op \in V /\ y.op \in V

\* What stands at the place i of both.
Meet(s, r, i, d, e, V) ==
  \/ Message(s[i], r[i]) \/ Message(r[i], s[i])
  \/ Transfers(s, r, i, d) \/ Transfers(r, s, i, e)
  \/ Judged(s[i], r[i], V)

Fits(s, r, d, e, V) ==
  /\ s \in Seq(Ops) /\ r \in Seq(Ops) /\ Len(r) = Len(s)
  /\ \A i \in 1..Len(s) : s[i].n > 0 /\ r[i].n > 0 /\ Meet(s, r, i, d, e, V)

LEMMA TransferMoved ==
  ASSUME NEW s, NEW r, NEW u, NEW v, NEW d, NEW i \in Nat, NEW k \in Nat,
         Len(s) \in Nat, Len(u) \in Nat, k + Len(s) <= Len(u),
         \A j \in 1..Len(s) : u[k + j] = s[j] /\ v[k + j] = r[j],
         Transfers(s, r, i, d)
  PROVE  Transfers(u, v, k + i, d)
<1>1. PICK t \in 1..i : i <= t + 3 /\ t + 3 <= Len(s) /\ TransferAt(s, r, t, d)
  BY DEF Transfers
<1>2. /\ u[k + t] = s[t] /\ v[k + t] = r[t]
      /\ u[k + (t + 1)] = s[t + 1] /\ v[k + (t + 1)] = r[t + 1]
      /\ u[k + (t + 2)] = s[t + 2] /\ v[k + (t + 2)] = r[t + 2]
      /\ u[k + (t + 3)] = s[t + 3] /\ v[k + (t + 3)] = r[t + 3]
  <2>1. t \in 1..Len(s) /\ t + 1 \in 1..Len(s) /\ t + 2 \in 1..Len(s) /\ t + 3 \in 1..Len(s)
    BY <1>1
  <2> QED
    BY <2>1
<1>3. /\ k + (t + 1) = (k + t) + 1 /\ k + (t + 2) = (k + t) + 2 /\ k + (t + 3) = (k + t) + 3
  OBVIOUS
<1>4. TransferAt(u, v, k + t, d)
  BY <1>1, <1>2, <1>3 DEF TransferAt
<1>5. k + t \in 1..(k + i) /\ k + i <= (k + t) + 3 /\ (k + t) + 3 <= Len(u)
  BY <1>1
<1> QED
  BY <1>4, <1>5 DEF Transfers

LEMMA MeetMoved ==
  ASSUME NEW V, NEW s, NEW r, NEW u, NEW v, NEW d, NEW e, NEW k \in Nat,
         Len(s) \in Nat, Len(r) = Len(s), Len(u) \in Nat, Len(v) = Len(u), k + Len(s) <= Len(u),
         \A j \in 1..Len(s) : u[k + j] = s[j] /\ v[k + j] = r[j],
         NEW i \in 1..Len(s), Meet(s, r, i, d, e, V)
  PROVE  Meet(u, v, k + i, d, e, V)
<1>0. i \in Nat /\ Len(r) \in Nat /\ Len(v) \in Nat /\ k + Len(r) <= Len(v)
  OBVIOUS
<1>1. CASE Message(s[i], r[i]) \/ Message(r[i], s[i]) \/ Judged(s[i], r[i], V)
  BY <1>1 DEF Meet
<1>2. CASE Transfers(s, r, i, d)
  <2>1. Transfers(u, v, k + i, d)
    BY <1>0, <1>2, TransferMoved
  <2> QED
    BY <2>1 DEF Meet
<1>3. CASE Transfers(r, s, i, e)
  <2>1. \A j \in 1..Len(r) : v[k + j] = r[j] /\ u[k + j] = s[j]
    OBVIOUS
  <2>2. Transfers(v, u, k + i, e)
    BY <1>0, <1>3, <2>1, TransferMoved
  <2> QED
    BY <2>2 DEF Meet
<1> QED
  BY <1>1, <1>2, <1>3 DEF Meet

\* One sequence behind another.
LEMMA Then ==
  ASSUME NEW A, NEW s \in Seq(A), NEW e \in Seq(A)
  PROVE  /\ s \o e \in Seq(A) /\ Len(s \o e) = Len(s) + Len(e)
         /\ Len(s) \in Nat /\ Len(e) \in Nat
         /\ \A i \in 1..Len(s) : (s \o e)[i] = s[i] /\ s[i] \in A
         /\ \A i \in 1..Len(e) : (s \o e)[Len(s) + i] = e[i] /\ e[i] \in A
<1>1. e \in [1..Len(e) -> A] /\ Len(e) \in Nat /\ s \in [1..Len(s) -> A]
  BY LenProperties
<1> QED
  BY <1>1, Lengthened

LEMMA FitsThen ==
  ASSUME NEW V, NEW s, NEW r, NEW u, NEW v, NEW d, NEW e, Fits(s, r, d, e, V), Fits(u, v, d, e, V)
  PROVE  Fits(s \o u, r \o v, d, e, V)
<1> PICK x, y : x = s \o u /\ y = r \o v
  OBVIOUS
<1> PICK K, M : K = Len(s) /\ M = Len(u)
  OBVIOUS
<1>1. /\ s \in Seq(Ops) /\ r \in Seq(Ops) /\ u \in Seq(Ops) /\ v \in Seq(Ops)
      /\ Len(r) = K /\ Len(v) = M
  BY DEF Fits
<1>2. /\ x \in Seq(Ops) /\ Len(x) = K + M /\ K \in Nat /\ M \in Nat
      /\ \A i \in 1..K : x[i] = s[i]
      /\ \A i \in 1..M : x[K + i] = u[i]
  BY <1>1, Then
<1>3. /\ y \in Seq(Ops) /\ Len(y) = Len(r) + Len(v)
      /\ \A i \in 1..Len(r) : y[i] = r[i]
      /\ \A i \in 1..Len(v) : y[Len(r) + i] = v[i]
  <2>1. r \in Seq(Ops) /\ v \in Seq(Ops) /\ y = r \o v
    BY <1>1
  <2> QED
    BY <2>1, Then
<1>4. /\ Len(y) = K + M
      /\ \A i \in 1..K : y[i] = r[i]
      /\ \A i \in 1..M : y[K + i] = v[i]
  BY <1>1, <1>3
<1>5. ASSUME NEW i \in 1..K PROVE x[i].n > 0 /\ y[i].n > 0 /\ Meet(x, y, i, d, e, V)
  <2>1. \A j \in 1..Len(s) : x[0 + j] = s[j] /\ y[0 + j] = r[j]
    <3>1. \A j \in 1..K : 0 + j = j
      BY <1>2
    <3> QED
      BY <1>2, <1>4, <3>1
  <2>2. Meet(s, r, i, d, e, V) /\ s[i].n > 0 /\ r[i].n > 0
    BY DEF Fits
  <2>3. /\ 0 + Len(s) <= Len(x) /\ Len(y) = Len(x) /\ Len(r) = Len(s)
        /\ Len(s) \in Nat /\ Len(x) \in Nat /\ 0 \in Nat /\ i \in 1..Len(s) /\ 0 + i = i
    BY <1>1, <1>2, <1>4
  <2>4. Meet(x, y, 0 + i, d, e, V)
    BY <2>1, <2>2, <2>3, MeetMoved
  <2> QED
    BY <1>2, <1>4, <2>2, <2>3, <2>4
<1>6. ASSUME NEW i \in 1..M
      PROVE  LET j == K + i IN x[j].n > 0 /\ y[j].n > 0 /\ Meet(x, y, j, d, e, V)
  <2>1. Meet(u, v, i, d, e, V) /\ u[i].n > 0 /\ v[i].n > 0
    BY DEF Fits
  <2>2. \A j \in 1..Len(u) : x[K + j] = u[j] /\ y[K + j] = v[j]
    BY <1>2, <1>4
  <2>3. /\ K + Len(u) <= Len(x) /\ Len(y) = Len(x) /\ Len(v) = Len(u)
        /\ Len(u) \in Nat /\ Len(x) \in Nat /\ K \in Nat /\ i \in 1..Len(u)
    BY <1>1, <1>2, <1>4
  <2>4. Meet(x, y, K + i, d, e, V)
    BY <2>1, <2>2, <2>3, MeetMoved
  <2> QED
    BY <1>2, <1>4, <2>1, <2>4
<1>7. ASSUME NEW j \in 1..Len(x) PROVE j \in 1..K \/ \E i \in 1..M : j = K + i
  <2>1. CASE j > K
    <3>1. j - K \in 1..M /\ j = K + (j - K)
      BY <1>2, <2>1
    <3> QED
      BY <3>1
  <2> QED
    BY <1>2, <2>1
<1>8. \A j \in 1..Len(x) : x[j].n > 0 /\ y[j].n > 0 /\ Meet(x, y, j, d, e, V)
  BY <1>5, <1>6, <1>7
<1>9. Fits(x, y, d, e, V)
  BY <1>2, <1>3, <1>4, <1>8 DEF Fits
<1> QED
  BY <1>9

\* The OTs that are taken in the direction c, added up.
Gets(s, c) == [i \in 1..Len(s) |-> IF s[i].op = "get" /\ s[i].dir = c THEN s[i].n ELSE 0]

Takes(s, c, m) ==
  \E F \in [0..Len(s) -> Nat] : RunningTotal(F, Gets(s, c), Len(s)) /\ F[Len(s)] = m

LEMMA TakesNat ==
  ASSUME NEW s \in Seq(Ops), NEW c, NEW m, Takes(s, c, m)
  PROVE  m \in Nat
<1>1. Len(s) \in Nat /\ Len(s) \in 0..Len(s)
  OBVIOUS
<1> QED
  BY <1>1 DEF Takes

LEMMA TakesThen ==
  ASSUME NEW s \in Seq(Ops), NEW u \in Seq(Ops), NEW c, NEW m, NEW k, Takes(s, c, m), Takes(u, c, k)
  PROVE  Takes(s \o u, c, m + k)
<1> PICK x : x = s \o u
  OBVIOUS
<1> PICK K, M : K = Len(s) /\ M = Len(u)
  OBVIOUS
<1>1. /\ Len(x) = K + M /\ K \in Nat /\ M \in Nat
      /\ \A i \in 1..K : x[i] = s[i]
      /\ \A i \in 1..M : x[K + i] = u[i]
  BY Then
<1>2. PICK F \in [0..K -> Nat] : RunningTotal(F, Gets(s, c), K) /\ F[K] = m
  BY DEF Takes
<1>3. PICK H \in [0..M -> Nat] : RunningTotal(H, Gets(u, c), M) /\ H[M] = k
  BY DEF Takes
<1>4. PICK G : G = [i \in 0..(K + M) |-> IF i <= K THEN F[i] ELSE F[K] + H[i - K]]
  OBVIOUS
<1>5. F[K] \in Nat /\ H[0] = 0 /\ F[0] = 0
  BY <1>1, <1>2, <1>3 DEF RunningTotal
<1>6. \A i \in 0..M : H[i] \in Nat /\ G[K + i] = F[K] + H[i]
  <2> SUFFICES ASSUME NEW i \in 0..M PROVE H[i] \in Nat /\ G[K + i] = F[K] + H[i]
    OBVIOUS
  <2>1. CASE i = 0
    BY <1>1, <1>4, <1>5, <2>1
  <2>2. CASE i # 0
    <3>1. K + i \in 0..(K + M) /\ ~(K + i <= K) /\ (K + i) - K = i
      BY <1>1, <2>2
    <3> QED
      BY <1>4, <3>1
  <2> QED
    BY <2>1, <2>2
<1>7. G \in [0..(K + M) -> Nat]
  <2>1. ASSUME NEW i \in 0..(K + M) PROVE (IF i <= K THEN F[i] ELSE F[K] + H[i - K]) \in Nat
    <3>1. CASE i <= K
      <4>1. i \in 0..K
        BY <1>1, <3>1
      <4>2. F[i] \in Nat
        BY <4>1
      <4> QED
        BY <3>1, <4>2
    <3>2. CASE ~(i <= K)
      <4>1. i - K \in 0..M
        BY <1>1, <3>2
      <4>2. H[i - K] \in Nat
        BY <4>1
      <4> QED
        BY <1>5, <3>2, <4>2
    <3> QED
      BY <3>1, <3>2
  <2> QED
    BY <1>4, <2>1
<1>8. ASSUME NEW i \in 1..(K + M) PROVE G[i] = G[i - 1] + Gets(x, c)[i]
  <2>1. CASE i <= K
    <3>1. i \in 1..K /\ i \in 0..(K + M) /\ i - 1 \in 0..(K + M) /\ i - 1 <= K
      BY <1>1, <2>1
    <3>2. G[i] = F[i] /\ G[i - 1] = F[i - 1]
      BY <1>4, <2>1, <3>1
    <3>3. F[i] = F[i - 1] + Gets(s, c)[i]
      BY <1>2, <3>1 DEF RunningTotal
    <3>4. i \in 1..Len(s) /\ i \in 1..Len(x)
      BY <1>1, <3>1
    <3>5. Gets(s, c)[i] = Gets(x, c)[i]
      BY <1>1, <3>1, <3>4 DEF Gets
    <3> QED
      BY <3>2, <3>3, <3>5
  <2>2. CASE ~(i <= K)
    <3> PICK j \in 1..M : i = K + j
      <4>1. i - K \in 1..M /\ i = K + (i - K)
        BY <1>1, <2>2
      <4> QED
        BY <4>1
    <3>1. H[j] = H[j - 1] + Gets(u, c)[j] /\ j \in 0..M /\ j - 1 \in 0..M /\ K + (j - 1) = i - 1
      BY <1>1, <1>3 DEF RunningTotal
    <3>2. G[i] = F[K] + H[j] /\ G[i - 1] = F[K] + H[j - 1] /\ H[j - 1] \in Nat
      BY <1>6, <3>1
    <3>3. Gets(u, c)[j] = Gets(x, c)[i] /\ Gets(u, c)[j] \in Nat
      <4>1. u[j] \in Ops /\ x[i] = u[j] /\ j \in 1..Len(u) /\ i \in 1..Len(x)
        BY <1>1, Then
      <4>2. u[j].n \in Nat
        BY <4>1 DEF Ops
      <4> QED
        BY <4>1, <4>2 DEF Gets
    <3>4. F[K] \in Nat /\ H[j - 1] \in Nat /\ H[j] = H[j - 1] + Gets(x, c)[i] /\ Gets(x, c)[i] \in Nat
      BY <1>5, <3>1, <3>2, <3>3
    <3> QED
      BY <3>2, <3>4
  <2> QED
    BY <2>1, <2>2
<1>9. RunningTotal(G, Gets(x, c), K + M) /\ G[K + M] = m + k
  <2>1. G[0] = 0
    BY <1>1, <1>4, <1>5
  <2>2. G[K + M] = F[K] + H[M]
    BY <1>1, <1>6
  <2> QED
    BY <1>2, <1>3, <1>8, <2>1, <2>2 DEF RunningTotal
<1> QED
  BY <1>1, <1>7, <1>9 DEF Takes

-----------------------------------------------------------------------------
\* The parts of the scripts fit.  Both take x OTs that Alice sends, and y that
\* Bob sends.
Pair(a, b, x, y, V) ==
  /\ Fits(a, b, "sr", "rs", V)
  /\ Takes(a, "sr", x) /\ Takes(b, "sr", x)
  /\ Takes(a, "rs", y) /\ Takes(b, "rs", y)

LEMMA PairThen ==
  ASSUME NEW V, NEW a, NEW b, NEW x, NEW y, Pair(a, b, x, y, V),
         NEW u, NEW v, NEW z, NEW w, Pair(u, v, z, w, V)
  PROVE  Pair(a \o u, b \o v, x + z, y + w, V)
<1>1. a \in Seq(Ops) /\ b \in Seq(Ops) /\ u \in Seq(Ops) /\ v \in Seq(Ops)
  BY DEF Pair, Fits
<1>2. Fits(a \o u, b \o v, "sr", "rs", V)
  BY FitsThen DEF Pair
<1>3. Takes(a \o u, "sr", x + z) /\ Takes(a \o u, "rs", y + w)
  BY <1>1, TakesThen DEF Pair
<1>4. Takes(b \o v, "sr", x + z) /\ Takes(b \o v, "rs", y + w)
  BY <1>1, TakesThen DEF Pair
<1> QED
  BY <1>2, <1>3, <1>4 DEF Pair

\* A short script has the totals that one counts.
LEMMA TakesNone ==
  ASSUME NEW s \in Seq(Ops), NEW c, \A i \in 1..Len(s) : s[i].op # "get"
  PROVE  Takes(s, c, 0)
<1>1. PICK F : F = [i \in 0..Len(s) |-> 0]
  OBVIOUS
<1>2. F \in [0..Len(s) -> Nat] /\ F[Len(s)] = 0 /\ Len(s) \in Nat
  BY <1>1
<1>3. RunningTotal(F, Gets(s, c), Len(s))
  BY <1>1, <1>2 DEF RunningTotal, Gets
<1> QED
  BY <1>2, <1>3 DEF Takes

LEMMA PairNone == ASSUME NEW V PROVE Pair(<<>>, <<>>, 0, 0, V)
<1>1. <<>> \in Seq(Ops) /\ Len(<<>>) = 0
  OBVIOUS
<1>2. Takes(<<>>, "sr", 0) /\ Takes(<<>>, "rs", 0)
  <2>1. \A i \in 1..Len(<<>>) : <<>>[i].op # "get"
    BY <1>1
  <2> PICK s \in Seq(Ops) : s = <<>>
    BY <1>1
  <2>2. Takes(s, "sr", 0) /\ Takes(s, "rs", 0)
    BY <2>1, TakesNone
  <2> QED
    BY <2>2
<1> QED
  BY <1>1, <1>2 DEF Pair, Fits

OpOf(op, tag, n, dir) == [op |-> op, tag |-> tag, n |-> n, dir |-> dir]

LEMMA OpIs ==
  ASSUME NEW op \in Kinds, NEW tag \in Tags, NEW n \in Nat, NEW dir \in {"", "sr", "rs"}
  PROVE  /\ OpOf(op, tag, n, dir) \in Ops
         /\ OpOf(op, tag, n, dir).op = op /\ OpOf(op, tag, n, dir).tag = tag
         /\ OpOf(op, tag, n, dir).n = n /\ OpOf(op, tag, n, dir).dir = dir
BY DEF OpOf, Ops

LEMMA PairMessage ==
  ASSUME NEW V, NEW tag \in Tags, NEW n \in Nat, n > 0
  PROVE  Pair(Write(tag, n), Read(tag, n), 0, 0, V) /\ Pair(Read(tag, n), Write(tag, n), 0, 0, V)
<1>1. PICK w, r : w = OpOf("write", tag, n, "") /\ r = OpOf("read", tag, n, "")
  OBVIOUS
<1>2. Write(tag, n) = <<w>> /\ Read(tag, n) = <<r>>
  BY <1>1 DEF Write, Read, OpOf
<1>3. /\ w \in Ops /\ w.op = "write" /\ w.tag = tag /\ w.n = n
      /\ r \in Ops /\ r.op = "read" /\ r.tag = tag /\ r.n = n
  <2>1. "write" \in Kinds /\ "read" \in Kinds
    BY DEF Kinds
  <2>2. OpOf("write", tag, n, "") \in Ops /\ OpOf("read", tag, n, "") \in Ops
    BY <2>1, OpIs
  <2> QED
    BY <1>1, <2>2 DEF OpOf
<1>4. /\ <<w>> \in Seq(Ops) /\ Len(<<w>>) = 1 /\ <<w>>[1] = w
      /\ <<r>> \in Seq(Ops) /\ Len(<<r>>) = 1 /\ <<r>>[1] = r
  BY <1>3
<1>5. \A i \in 1..1 : i = 1
  OBVIOUS
<1>6. Takes(<<w>>, "sr", 0) /\ Takes(<<w>>, "rs", 0) /\ Takes(<<r>>, "sr", 0) /\ Takes(<<r>>, "rs", 0)
  BY <1>3, <1>4, <1>5, TakesNone
<1>7. Message(<<w>>[1], <<r>>[1])
  BY <1>3, <1>4 DEF Message
<1>8. Fits(<<w>>, <<r>>, "sr", "rs", V) /\ Fits(<<r>>, <<w>>, "sr", "rs", V)
  BY <1>3, <1>4, <1>5, <1>7 DEF Fits, Meet
<1> QED
  BY <1>2, <1>6, <1>8 DEF Pair

LEMMA Sole ==
  ASSUME NEW s \in Ops
  PROVE  /\ <<s>> \in Seq(Ops) /\ Len(<<s>>) = 1 /\ <<s>>[1] = s
OBVIOUS

\* A party throws before it has written the last of its messages.
Has(s, op) == \E i \in 1..Len(s) : s[i].op = op
Barred(s) ==
  \E i, j \in 1..Len(s) : i < j /\ s[i].op = "throw" /\ s[j].op = "write"

LEMMA HasThen ==
  ASSUME NEW s \in Seq(Ops), NEW u \in Seq(Ops), NEW op, Has(s, op) \/ Has(u, op)
  PROVE  Has(s \o u, op)
<1>1. PICK v : v = s \o u
  OBVIOUS
<1>2. /\ Len(v) = Len(s) + Len(u) /\ Len(s) \in Nat /\ Len(u) \in Nat
      /\ \A i \in 1..Len(s) : v[i] = s[i]
      /\ \A i \in 1..Len(u) : v[Len(s) + i] = u[i]
  BY <1>1, Then
<1>3. CASE Has(s, op)
  <2>1. PICK i \in 1..Len(s) : s[i].op = op
    BY <1>3 DEF Has
  <2>2. i \in 1..Len(v) /\ v[i].op = op
    BY <1>2, <2>1
  <2> QED
    BY <1>1, <2>2 DEF Has
<1>4. CASE Has(u, op)
  <2>1. PICK i \in 1..Len(u) : u[i].op = op
    BY <1>4 DEF Has
  <2>2. PICK j : j = Len(s) + i
    OBVIOUS
  <2>3. j \in 1..Len(v) /\ v[j].op = op
    BY <1>2, <2>1, <2>2
  <2> QED
    BY <1>1, <2>3 DEF Has
<1> QED
  BY <1>3, <1>4

LEMMA BarredThen ==
  ASSUME NEW s \in Seq(Ops), NEW u \in Seq(Ops),
         Barred(s) \/ Barred(u) \/ (Has(s, "throw") /\ Has(u, "write"))
  PROVE  Barred(s \o u)
<1>1. PICK v : v = s \o u
  OBVIOUS
<1>2. /\ Len(v) = Len(s) + Len(u) /\ Len(s) \in Nat /\ Len(u) \in Nat
      /\ \A i \in 1..Len(s) : v[i] = s[i]
      /\ \A i \in 1..Len(u) : v[Len(s) + i] = u[i]
  BY <1>1, Then
<1>3. CASE Barred(s)
  <2>1. PICK i, j \in 1..Len(s) : i < j /\ s[i].op = "throw" /\ s[j].op = "write"
    BY <1>3 DEF Barred
  <2>2. i \in 1..Len(v) /\ j \in 1..Len(v) /\ v[i].op = "throw" /\ v[j].op = "write"
    BY <1>2, <2>1
  <2> QED
    BY <1>1, <2>1, <2>2 DEF Barred
<1>4. CASE Barred(u)
  <2>1. PICK i, j \in 1..Len(u) : i < j /\ u[i].op = "throw" /\ u[j].op = "write"
    BY <1>4 DEF Barred
  <2>2. PICK k, l : k = Len(s) + i /\ l = Len(s) + j
    OBVIOUS
  <2>3. k \in 1..Len(v) /\ l \in 1..Len(v) /\ k < l /\ v[k].op = "throw" /\ v[l].op = "write"
    BY <1>2, <2>1, <2>2
  <2> QED
    BY <1>1, <2>3 DEF Barred
<1>5. CASE Has(s, "throw") /\ Has(u, "write")
  <2>1. PICK i \in 1..Len(s), j \in 1..Len(u) : s[i].op = "throw" /\ u[j].op = "write"
    BY <1>5 DEF Has
  <2>2. PICK l : l = Len(s) + j
    OBVIOUS
  <2>3. i \in 1..Len(v) /\ l \in 1..Len(v) /\ i < l /\ v[i].op = "throw" /\ v[l].op = "write"
    BY <1>2, <2>1, <2>2
  <2> QED
    BY <1>1, <2>3 DEF Barred
<1> QED
  BY <1>3, <1>4, <1>5

\* A condition that both look at.
Verdict(holds) == IF holds THEN "pass" ELSE "throw"

LEMMA PairEnsure ==
  ASSUME NEW V, NEW p, NEW q, Verdict(p) \in V, Verdict(q) \in V
  PROVE  Pair(Ensure(p), Ensure(q), 0, 0, V)
<1>1. PICK v, w \in Verdicts : v = Verdict(p) /\ w = Verdict(q)
  BY DEF Verdict, Verdicts
<1>2. PICK a, b \in Ops :
        /\ a = OpOf(v, "", 1, "") /\ a.op = v /\ a.n = 1
        /\ b = OpOf(w, "", 1, "") /\ b.op = w /\ b.n = 1
  <2>1. v \in Kinds /\ w \in Kinds /\ "" \in Tags /\ 1 \in Nat /\ "" \in {"", "sr", "rs"}
    BY DEF Kinds, Tags
  <2>2. OpOf(v, "", 1, "") \in Ops /\ OpOf(w, "", 1, "") \in Ops
    BY <2>1, OpIs
  <2> QED
    BY <2>2 DEF OpOf
<1>3. PICK s, r \in Seq(Ops) :
        /\ s = Ensure(p) /\ Len(s) = 1 /\ s[1] = a
        /\ r = Ensure(q) /\ Len(r) = 1 /\ r[1] = b
  <2>1. Ensure(p) = <<a>> /\ Ensure(q) = <<b>>
    BY <1>1, <1>2 DEF Ensure, OpOf, Verdict
  <2> QED
    BY <2>1, Sole
<1>4. \A i \in 1..1 : i = 1
  OBVIOUS
<1>5. v # "get" /\ w # "get"
  BY DEF Verdicts
<1>6. Takes(s, "sr", 0) /\ Takes(s, "rs", 0) /\ Takes(r, "sr", 0) /\ Takes(r, "rs", 0)
  BY <1>2, <1>3, <1>4, <1>5, TakesNone
<1>7. Judged(s[1], r[1], V)
  BY <1>1, <1>2, <1>3 DEF Judged
<1>8. \A i \in 1..1 : s[i].n > 0 /\ r[i].n > 0 /\ Meet(s, r, i, "sr", "rs", V)
  <2>1. Meet(s, r, 1, "sr", "rs", V)
    BY <1>7, Zenon DEF Meet
  <2>2. s[1].n = 1 /\ r[1].n = 1
    BY <1>2, <1>3, Zenon
  <2> QED
    BY <1>4, <2>1, <2>2
<1>9. Fits(s, r, "sr", "rs", V)
  BY <1>3, <1>8 DEF Fits
<1> QED
  BY <1>3, <1>6, <1>9 DEF Pair

\* One operation more.
Line(e) == <<e>>
Extended(u, n, v, e) ==
  /\ v \in Seq(Ops) /\ Len(v) = n + 1
  /\ \A i \in 1..n : v[i] = u[i]
  /\ v[n + 1] = e

LEMMA OneMore ==
  ASSUME NEW u \in Seq(Ops), NEW n \in Nat, Len(u) = n, NEW e \in Ops
  PROVE  Extended(u, n, Behind(u, Line(e)), e)
<1>1. PICK v \in Seq(Ops) : v = Line(e) /\ Len(v) = 1 /\ v[1] = e
  BY Sole DEF Line
<1>2. StandsBehind(Ops, u, v, Behind(u, v))
  BY Continued DEF IsOver
<1>3. 1 \in 1..Len(v)
  BY <1>1
<1> QED
  BY <1>1, <1>2, <1>3 DEF StandsBehind, Extended

\* What a party does in a transfer, written out.
InTurn(p, q, r, s) == Behind(Behind(Behind(Line(p), Line(q)), Line(r)), Line(s))
Four(u, p, q, r, s) ==
  /\ u \in Seq(Ops) /\ Len(u) = 4
  /\ u[1] = p /\ u[2] = q /\ u[3] = r /\ u[4] = s

LEMMA FourOps ==
  ASSUME NEW p \in Ops, NEW q \in Ops, NEW r \in Ops, NEW s \in Ops
  PROVE  Four(InTurn(p, q, r, s), p, q, r, s)
<1>1. PICK u \in Seq(Ops) : u = Line(p) /\ Len(u) = 1 /\ u[1] = p
  BY Sole DEF Line
<1>2. PICK v : v = Behind(u, Line(q)) /\ Extended(u, 1, v, q)
  BY <1>1, OneMore
<1>3. v \in Seq(Ops) /\ Len(v) = 2 /\ v[1] = p /\ v[2] = q
  BY <1>1, <1>2 DEF Extended
<1>4. PICK w : w = Behind(v, Line(r)) /\ Extended(v, 2, w, r)
  BY <1>3, OneMore
<1>5. w \in Seq(Ops) /\ Len(w) = 3 /\ w[1] = p /\ w[2] = q /\ w[3] = r
  BY <1>3, <1>4 DEF Extended
<1>6. PICK x : x = Behind(w, Line(s)) /\ Extended(w, 3, x, s)
  BY <1>5, OneMore
<1>7. x \in Seq(Ops) /\ Len(x) = 4 /\ x[1] = p /\ x[2] = q /\ x[3] = r /\ x[4] = s
  BY <1>5, <1>6 DEF Extended
<1> QED
  BY <1>1, <1>2, <1>4, <1>6, <1>7 DEF InTurn, Four

\* The totals of a script of four places.
LEMMA TakesFour ==
  ASSUME NEW s \in Seq(Ops), Len(s) = 4, NEW c, NEW k \in 1..4,
         \A i \in 1..4 : s[i].op = "get" <=> i = k
  PROVE  Takes(s, c, IF s[k].dir = c THEN s[k].n ELSE 0)
<1>1. PICK m \in Nat : m = IF s[k].dir = c THEN s[k].n ELSE 0
  <2>1. s[k] \in Ops
    <3>1. k \in 1..Len(s)
      OBVIOUS
    <3> QED
      BY <3>1
  <2> QED
    BY <2>1 DEF Ops
<1>2. PICK F : F = [i \in 0..4 |-> IF i < k THEN 0 ELSE m]
  OBVIOUS
<1>3. F \in [0..4 -> Nat] /\ F[0] = 0 /\ F[4] = m
  BY <1>2
<1>4. ASSUME NEW i \in 1..4 PROVE F[i] = F[i - 1] + Gets(s, c)[i]
  <2>1. Gets(s, c)[i] = IF i = k THEN m ELSE 0
    BY <1>1 DEF Gets
  <2>2. i \in 0..4 /\ i - 1 \in 0..4
    OBVIOUS
  <2>3. CASE i < k
    BY <1>2, <2>1, <2>2, <2>3
  <2>4. CASE i = k
    BY <1>2, <2>1, <2>2, <2>4
  <2>5. CASE i > k
    BY <1>2, <2>1, <2>2, <2>5
  <2> QED
    BY <2>3, <2>4, <2>5
<1>5. RunningTotal(F, Gets(s, c), 4)
  BY <1>3, <1>4 DEF RunningTotal
<1> QED
  BY <1>1, <1>3, <1>5 DEF Takes

\* The numbers of bytes of a transfer.
Amount(n, w) == n = Len(w) /\ n > 0 /\ nBytes(n) \in Nat \ {0} /\ nBytes(2 * Sum(w)) \in Nat \ {0}

\* The two sides of a transfer of n messages.
SideOfSender(s, n, d, x, y) ==
  /\ s \in Seq(Ops) /\ Len(s) = 4
  /\ s[1].op = "check" /\ s[1].n = n /\ s[1].dir = d
  /\ s[2].n = x /\ s[4].n = y
  /\ s[3].op = "get" /\ s[3].n = n /\ s[3].dir = d

SideOfReceiver(r, n, d) ==
  /\ r \in Seq(Ops) /\ Len(r) = 4
  /\ r[1].op = "check" /\ r[1].n = n /\ r[1].dir = d
  /\ r[2].op = "get" /\ r[2].n = n /\ r[2].dir = d

Crossed(s, r, n, d) ==
  /\ s \in Seq(Ops) /\ r \in Seq(Ops) /\ Len(s) = 4 /\ Len(r) = 4
  /\ TransferAt(s, r, 1, d)
  /\ \A i \in 1..4 : s[i].n > 0 /\ r[i].n > 0
  /\ \A c : Takes(s, c, IF d = c THEN n ELSE 0) /\ Takes(r, c, IF d = c THEN n ELSE 0)

LEMMA CrossedFits ==
  ASSUME NEW s, NEW r, NEW d, NEW n \in Nat, n > 0,
         NEW x \in Nat, x > 0, NEW y \in Nat, y > 0,
         SideOfSender(s, n, d, x, y), SideOfReceiver(r, n, d),
         Message(r[3], s[2]), Message(s[4], r[4])
  PROVE  Crossed(s, r, n, d)
<1>0. 1 + 1 = 2 /\ 1 + 2 = 3 /\ 1 + 3 = 4
  OBVIOUS
<1>1. \A i \in 1..4 : i = 1 \/ i = 2 \/ i = 3 \/ i = 4
  OBVIOUS
<1>2. TransferAt(s, r, 1, d)
  BY <1>0 DEF TransferAt, Message, SideOfSender, SideOfReceiver
<1>3. \A i \in 1..4 : s[i].n > 0 /\ r[i].n > 0
  <2>1. r[3].n = x /\ r[4].n = y
    BY DEF Message, SideOfSender
  <2> QED
    BY <1>1, <2>1 DEF SideOfSender, SideOfReceiver
<1>4. ASSUME NEW e PROVE Takes(s, e, IF d = e THEN n ELSE 0)
  <2>1. \A i \in 1..4 : s[i].op = "get" <=> i = 3
    BY <1>1 DEF Message, SideOfSender
  <2>2. s \in Seq(Ops) /\ Len(s) = 4 /\ 3 \in 1..4
    BY DEF SideOfSender
  <2>3. Takes(s, e, IF s[3].dir = e THEN s[3].n ELSE 0)
    BY <2>1, <2>2, TakesFour, SMTT(30)
  <2> QED
    BY <2>3 DEF SideOfSender
<1>5. ASSUME NEW e PROVE Takes(r, e, IF d = e THEN n ELSE 0)
  <2>1. \A i \in 1..4 : r[i].op = "get" <=> i = 2
    BY <1>1 DEF Message, SideOfReceiver
  <2>2. Takes(r, e, IF r[2].dir = e THEN r[2].n ELSE 0)
    BY <2>1, TakesFour, SMTT(30) DEF SideOfReceiver
  <2> QED
    BY <2>2 DEF SideOfReceiver
<1> QED
  BY <1>2, <1>3, <1>4, <1>5 DEF Crossed, SideOfSender, SideOfReceiver

LEMMA EnsureThrows ==
  ASSUME NEW p, ~p
  PROVE  Ensure(p) \in Seq(Ops) /\ Has(Ensure(p), "throw")
<1>1. OpOf("throw", "", 1, "") \in Ops
  <2>1. "throw" \in Kinds /\ "" \in Tags /\ 1 \in Nat /\ "" \in {"", "sr", "rs"}
    BY DEF Kinds, Verdicts, Tags
  <2> QED
    BY <2>1, OpIs
<1>2. PICK a \in Ops : a = OpOf("throw", "", 1, "") /\ a.op = "throw"
  BY <1>1 DEF OpOf
<1>3. Ensure(p) = <<a>>
  BY <1>2 DEF Ensure, OpOf
<1>4. PICK s \in Seq(Ops) : s = <<a>> /\ Len(s) = 1 /\ s[1] = a
  BY Sole
<1>5. PICK n \in Nat : n = Len(s) /\ n = 1
  BY <1>4
<1>6. s[1].op = "throw"
  BY <1>2, <1>4, Zenon
<1>7. 1 \in 1..n
  BY <1>5
<1> QED
  BY <1>3, <1>4, <1>5, <1>6, <1>7 DEF Has

LEMMA TransferFits ==
  ASSUME NEW dir \in {"sr", "rs"}, NEW tag \in Labels, NEW w, NEW n \in Nat, Amount(n, w)
  PROVE  Crossed(SendTransfer(dir, tag, w), ReceiveTransfer(dir, tag, w), n, dir)
<1>1. PICK x, y \in Nat \ {0} : x = nBytes(n) /\ y = nBytes(2 * Sum(w))
  BY DEF Amount
<1>2. PICK a, b \in Tags : a = <<tag, "swap">> /\ b = <<tag, "out">>
  BY DEF Tags
<1>3. n = Len(w) /\ n > 0
  BY DEF Amount
<1>4. "" \in Tags /\ dir \in {"", "sr", "rs"} /\ "" \in {"", "sr", "rs"}
  BY DEF Tags
<1>5. "check" \in Kinds /\ "get" \in Kinds /\ "read" \in Kinds /\ "write" \in Kinds
  BY DEF Kinds
<1>6. PICK c, g \in Ops :
        /\ Line(c) = Check(dir, n) /\ c.op = "check" /\ c.n = n /\ c.dir = dir
        /\ Line(g) = Get(dir, n) /\ g.op = "get" /\ g.n = n /\ g.dir = dir
  <2>1. OpOf("check", "", n, dir) \in Ops /\ OpOf("get", "", n, dir) \in Ops
    BY <1>4, <1>5, OpIs
  <2> QED
    BY <2>1 DEF OpOf, Check, Get, Line
<1>7. PICK rs, ws \in Ops :
        /\ Line(rs) = Read(a, x) /\ rs.op = "read" /\ rs.n = x /\ rs.tag = a
        /\ Line(ws) = Write(a, x) /\ ws.op = "write" /\ ws.n = x /\ ws.tag = a
  <2>1. OpOf("read", a, x, "") \in Ops /\ OpOf("write", a, x, "") \in Ops
    BY <1>4, <1>5, OpIs
  <2> QED
    BY <2>1 DEF OpOf, Read, Write, Line
<1>8. PICK ro, wo \in Ops :
        /\ Line(ro) = Read(b, y) /\ ro.op = "read" /\ ro.n = y /\ ro.tag = b
        /\ Line(wo) = Write(b, y) /\ wo.op = "write" /\ wo.n = y /\ wo.tag = b
  <2>1. OpOf("read", b, y, "") \in Ops /\ OpOf("write", b, y, "") \in Ops
    BY <1>4, <1>5, OpIs
  <2> QED
    BY <2>1 DEF OpOf, Read, Write, Line
<1>9. PICK s : s = SendTransfer(dir, tag, w) /\ Four(s, c, rs, g, wo)
  <2>1. SendTransfer(dir, tag, w) = Check(dir, n) \o Read(a, x) \o Get(dir, n) \o Write(b, y)
    BY <1>1, <1>2, <1>3 DEF SendTransfer
  <2>2. SendTransfer(dir, tag, w) = InTurn(c, rs, g, wo)
    BY <1>6, <1>7, <1>8, <2>1 DEF InTurn, Behind
  <2> QED
    BY <2>2, FourOps
<1>10. PICK r : r = ReceiveTransfer(dir, tag, w) /\ Four(r, c, g, ws, ro)
  <2>1. ReceiveTransfer(dir, tag, w) = Check(dir, n) \o Get(dir, n) \o Write(a, x) \o Read(b, y)
    BY <1>1, <1>2, <1>3 DEF ReceiveTransfer
  <2>2. ReceiveTransfer(dir, tag, w) = InTurn(c, g, ws, ro)
    BY <1>6, <1>7, <1>8, <2>1 DEF InTurn, Behind
  <2> QED
    BY <2>2, FourOps
<1>11. Message(r[3], s[2]) /\ Message(s[4], r[4])
  BY <1>7, <1>8, <1>9, <1>10 DEF Message, Four
<1>12. SideOfSender(s, n, dir, x, y)
  BY <1>6, <1>7, <1>8, <1>9 DEF SideOfSender, Four
<1>13. SideOfReceiver(r, n, dir)
  BY <1>6, <1>10 DEF SideOfReceiver, Four
<1>14. x \in Nat /\ x > 0 /\ y \in Nat /\ y > 0
  OBVIOUS
<1>15. Crossed(s, r, n, dir)
  BY <1>3, <1>11, <1>12, <1>13, <1>14, CrossedFits
<1> QED
  BY <1>9, <1>10, <1>15

LEMMA CrossedMeet ==
  ASSUME NEW V, NEW s, NEW r, NEW n, NEW d, NEW e, Crossed(s, r, n, d)
  PROVE  Fits(s, r, d, e, V) /\ Fits(r, s, e, d, V)
<1>1. \A i \in 1..4 : i \in Nat /\ 1 \in 1..i /\ i <= 1 + 3 /\ 1 + 3 <= 4
  OBVIOUS
<1>2. \A i \in 1..4 : Transfers(s, r, i, d)
  BY <1>1 DEF Transfers, Crossed
<1> QED
  BY <1>2 DEF Fits, Crossed, Meet

LEMMA PairTransfer ==
  ASSUME NEW V, NEW tag \in Labels, NEW w, NEW n \in Nat, Amount(n, w)
  PROVE  /\ Pair(SendTransfer("sr", tag, w), ReceiveTransfer("sr", tag, w), n, 0, V)
         /\ Pair(ReceiveTransfer("rs", tag, w), SendTransfer("rs", tag, w), 0, n, V)
         /\ Has(ReceiveTransfer("sr", tag, w), "write")
<1>0. "sr" # "rs"
  OBVIOUS
<1>1. PICK s, r : s = SendTransfer("sr", tag, w) /\ r = ReceiveTransfer("sr", tag, w)
  OBVIOUS
<1>2. Crossed(s, r, n, "sr")
  BY <1>1, TransferFits
<1>3. Pair(s, r, n, 0, V)
  <2>1. \A c : Takes(s, c, IF "sr" = c THEN n ELSE 0) /\ Takes(r, c, IF "sr" = c THEN n ELSE 0)
    BY <1>2 DEF Crossed
  <2>2. Takes(s, "sr", n) /\ Takes(s, "rs", 0) /\ Takes(r, "sr", n) /\ Takes(r, "rs", 0)
    BY <1>0, <2>1
  <2> QED
    BY <1>2, <2>2, CrossedMeet DEF Pair
<1>4. PICK u, v : u = SendTransfer("rs", tag, w) /\ v = ReceiveTransfer("rs", tag, w)
  OBVIOUS
<1>5. Crossed(u, v, n, "rs")
  BY <1>4, TransferFits
<1>6. Pair(v, u, 0, n, V)
  <2>1. \A c : Takes(u, c, IF "rs" = c THEN n ELSE 0) /\ Takes(v, c, IF "rs" = c THEN n ELSE 0)
    BY <1>5 DEF Crossed
  <2>2. Takes(u, "rs", n) /\ Takes(u, "sr", 0) /\ Takes(v, "rs", n) /\ Takes(v, "sr", 0)
    BY <1>0, <2>1
  <2> QED
    BY <1>5, <2>2, CrossedMeet DEF Pair
<1>7. Has(r, "write")
  <2>1. 1 + 2 = 3 /\ 3 \in 1..4
    OBVIOUS
  <2>2. r[3].op = "write" /\ Len(r) = 4
    BY <1>2, <2>1 DEF Crossed, TransferAt
  <2> QED
    BY <2>1, <2>2 DEF Has
<1> QED
  BY <1>1, <1>3, <1>4, <1>6, <1>7

\* Sum adds one number after the other.
AddTo(x, y) == y + x

Adding == INSTANCE FoldFacts WITH op <- AddTo, base <- 0, choose <- Max

LEMMA AddedUp ==
  ASSUME NEW n \in Nat, NEW c \in [1..n -> Nat], NEW F \in [0..n -> Nat], RunningTotal(F, c, n)
  PROVE  Adding!Fold(c, 1..n) = F[n]
<1> DEFINE S == {m \in 0..n : Adding!Fold(c, 1..m) = F[m]}
<1>1. 0 \in S
  <2>1. 1..0 = {} /\ 0 \in 0..n
    OBVIOUS
  <2>2. Adding!Fold(c, 1..0) = 0
    BY <2>1, Adding!FoldEmpty
  <2> QED
    BY <2>1, <2>2 DEF RunningTotal
<1>2. ASSUME NEW m \in 0..(n - 1), m \in S PROVE m + 1 \in S
  <2>1. m \in Nat /\ m + 1 \in Nat /\ m + 1 \in 1..n /\ m + 1 \in 0..n
    OBVIOUS
  <2>2. Adding!ChoosesLargest(m + 1)
    BY Zenon, <2>1, MaxIsLargest DEF Adding!ChoosesLargest
  <2>3. Adding!Fold(c, 1..(m + 1)) = AddTo(c[m + 1], Adding!Fold(c, 1..m))
    BY <2>1, <2>2, Adding!FoldInterval
  <2>4. F[m + 1] = F[m] + c[m + 1]
    BY <2>1 DEF RunningTotal
  <2> QED
    BY <1>2, <2>1, <2>3, <2>4 DEF AddTo
<1> HIDE DEF S
<1>3. 0..n \subseteq S
  BY Zenon, <1>1, <1>2, IntervalInduction
<1>4. n \in S
  BY <1>3
<1> QED
  BY <1>4 DEF S

LEMMA SumIs ==
  ASSUME NEW n \in Nat, NEW c \in [1..n -> Nat], NEW F \in [0..n -> Nat], RunningTotal(F, c, n)
  PROVE  Sum(c) = F[n]
<1>1. Sum(c) = Adding!Fold(c, DOMAIN c)
  BY DEF Sum, FoldLeft, MapThenFoldSet, Adding!Fold, AddTo
<1> QED
  BY <1>1, AddedUp

LEMMA SumPositive ==
  ASSUME NEW n \in Nat \ {0}, NEW c \in [1..n -> Nat \ {0}]
  PROVE  Sum(c) \in Nat /\ Sum(c) >= 1
<1>1. c \in [1..n -> Nat]
  OBVIOUS
<1>2. PICK F \in [0..n -> Nat] : RunningTotal(F, c, n)
  BY <1>1, RunningTotals
<1>3. F[1] = F[0] + c[1] /\ F[0] = 0 /\ c[1] \in Nat /\ c[1] >= 1
  BY <1>2 DEF RunningTotal
<1>4. F[1] <= F[n]
  <2>1. n \in 0..n /\ 1 \in 0..n /\ \A i \in 1..n : c[i] \in Nat
    OBVIOUS
  <2> QED
    BY <1>2, <2>1, TotalsGrow
<1>5. Sum(c) = F[n]
  BY <1>1, <1>2, SumIs
<1>6. F[n] \in Nat /\ F[1] \in Nat
  BY <1>2
<1> QED
  BY <1>3, <1>4, <1>5, <1>6

LEMMA AmountOf ==
  ASSUME NEW n \in Nat \ {0}, NEW w \in [1..n -> Nat \ {0}]
  PROVE  Amount(n, w)
<1>1. Len(w) = n
  OBVIOUS
<1>2. \A m \in Nat : m >= 1 => nBytes(m) \in Nat \ {0}
  BY DEF nBytes
<1>3. PICK m : m = Sum(w)
  OBVIOUS
<1>4. m \in Nat /\ m >= 1
  BY <1>3, SumPositive
<1>5. nBytes(2 * m) \in Nat \ {0} /\ nBytes(n) \in Nat \ {0}
  BY <1>2, <1>4
<1> QED
  BY <1>1, <1>3, <1>5 DEF Amount

-----------------------------------------------------------------------------
\* The sizes of the equality test.  They get smaller: there are sizes, and they
\* are not zero.
LEMMA LogIs ==
  ASSUME NEW n
  PROVE  CeilLog2(n) = BitsFor(n)
BY DEF CeilLog2, BitsFor

LEMMA Smaller ==
  ASSUME NEW j \in Nat, j > 2
  PROVE  BitsFor(j + 1) \in 1..(j - 1)
<1>1. BitsFor(j + 1) \in 1..j
  BY NextBits
<1>2. PICK d : d = BitsFor(j + 1)
  OBVIOUS
<1>3. d = 0 \/ 2^(d - 1) < j + 1
  BY <1>2, BitsForIs
<1>4. d # j
  <2> SUFFICES ASSUME d = j PROVE FALSE
    OBVIOUS
  <2>1. PICK e \in Nat : j = (e + 1) + 1 /\ e >= 1
    <3>1. j - 2 \in Nat /\ j = ((j - 2) + 1) + 1 /\ j - 2 >= 1
      OBVIOUS
    <3> QED
      BY <3>1
  <2>2. PICK p : p = 2^e
    OBVIOUS
  <2>3. p \in Nat /\ p >= e + 1
    BY <2>2, Powers, PowersGrow
  <2>4. j - 1 = e + 1 /\ 2^(e + 1) = 2 * p
    BY <2>1, <2>2, Powers
  <2>5. PICK q : q = 2^(j - 1)
    OBVIOUS
  <2>6. q = 2 * p
    BY <2>4, <2>5
  <2>7. q < j + 1
    BY <1>3, <2>5
  <2> QED
    BY <2>1, <2>3, <2>6, <2>7
<1> QED
  BY <1>1, <1>2, <1>4

Reduced(from, j, threshold) == IF j <= threshold THEN <<>> ELSE <<j>> \o from[CeilLog2(j + 1)]

LEMMA ReducedExists ==
  ASSUME NEW n \in Nat, NEW threshold \in Nat, threshold >= 2
  PROVE  \E f : f = [j \in 0..n |-> Reduced(f, j, threshold)]
<1> DEFINE S == {k \in 0..n : \E f : f = [j \in 0..k |-> Reduced(f, j, threshold)]}
<1>1. 0 \in S
  <2>1. PICK f : f = [j \in 0..0 |-> <<>>]
    OBVIOUS
  <2>2. \A j \in 0..0 : Reduced(f, j, threshold) = <<>>
    BY DEF Reduced
  <2>3. f = [j \in 0..0 |-> Reduced(f, j, threshold)]
    BY <2>1, <2>2
  <2>4. 0 \in 0..n
    OBVIOUS
  <2> QED
    BY <2>3, <2>4
<1>2. ASSUME NEW k \in 0..(n - 1), k \in S PROVE k + 1 \in S
  <2>1. PICK f : f = [j \in 0..k |-> Reduced(f, j, threshold)]
    BY <1>2
  <2>2. PICK g : g = [j \in 0..(k + 1) |-> Reduced(f, j, threshold)]
    OBVIOUS
  <2>3. \A j \in 0..k : g[j] = f[j]
    <3>1. \A j \in 0..k : j \in 0..(k + 1)
      OBVIOUS
    <3> QED
      BY <2>1, <2>2, <3>1
  <2>4. ASSUME NEW j \in 0..(k + 1) PROVE Reduced(f, j, threshold) = Reduced(g, j, threshold)
    <3>1. j > threshold => CeilLog2(j + 1) \in 0..k
      BY LogIs, Smaller
    <3> QED
      BY <2>3, <3>1 DEF Reduced
  <2>5. g = [j \in 0..(k + 1) |-> Reduced(g, j, threshold)]
    BY <2>2, <2>4
  <2>6. k + 1 \in 0..n
    OBVIOUS
  <2> QED
    BY <2>5, <2>6
<1> HIDE DEF S
<1>3. n \in S
  BY <1>1, <1>2, IntervalInduction
<1> QED
  BY <1>3 DEF S

LEMMA ReductionsAre ==
  ASSUME NEW n \in Nat, NEW threshold \in Nat, threshold >= 2
  PROVE  Reductions(n, threshold) \in Seq(Nat \ {0})
<1> DEFINE from == CHOOSE f : f = [j \in 0..n |->
                     IF j <= threshold THEN <<>> ELSE <<j>> \o f[CeilLog2(j + 1)]]
<1>1. Reductions(n, threshold) = from[n]
  BY DEF Reductions
<1>2. from = [j \in 0..n |-> Reduced(from, j, threshold)]
  <2>1. \E f : f = [j \in 0..n |->
                     IF j <= threshold THEN <<>> ELSE <<j>> \o f[CeilLog2(j + 1)]]
    BY ReducedExists DEF Reduced
  <2> QED
    BY <2>1 DEF Reduced
<1> HIDE DEF from
<1> DEFINE S == {k \in 0..n : \A j \in 0..k : from[j] \in Seq(Nat \ {0})}
<1>3. 0 \in S
  <2>1. \A j \in 0..0 : j \in 0..n /\ j <= threshold
    OBVIOUS
  <2>2. <<>> \in Seq(Nat \ {0})
    OBVIOUS
  <2>3. \A j \in 0..0 : from[j] = <<>>
    BY <1>2, <2>1 DEF Reduced
  <2>4. 0 \in 0..n
    OBVIOUS
  <2> QED
    BY <2>2, <2>3, <2>4
<1>4. ASSUME NEW k \in 0..(n - 1), k \in S PROVE k + 1 \in S
  <2>1. from[k + 1] \in Seq(Nat \ {0})
    <3>1. from[k + 1] = Reduced(from, k + 1, threshold)
      BY <1>2
    <3>2. CASE k + 1 <= threshold
      <4>1. <<>> \in Seq(Nat \ {0})
        OBVIOUS
      <4> QED
        BY <3>1, <3>2, <4>1 DEF Reduced
    <3>3. CASE ~(k + 1 <= threshold)
      <4>1. CeilLog2((k + 1) + 1) \in 0..k
        BY <3>3, LogIs, Smaller
      <4>2. PICK u : u = from[CeilLog2((k + 1) + 1)]
        OBVIOUS
      <4>3. u \in Seq(Nat \ {0}) /\ <<k + 1>> \in Seq(Nat \ {0})
        BY <1>4, <4>1, <4>2
      <4>4. \A v, w \in Seq(Nat \ {0}) : v \o w \in Seq(Nat \ {0})
        BY ConcatProperties
      <4>5. <<k + 1>> \o u \in Seq(Nat \ {0})
        BY <4>3, <4>4
      <4> QED
        BY <3>1, <3>3, <4>2, <4>5 DEF Reduced
    <3> QED
      BY <3>2, <3>3
  <2>2. \A j \in 0..(k + 1) : j \in 0..k \/ j = k + 1
    OBVIOUS
  <2> QED
    BY <1>4, <2>1, <2>2
<1> HIDE DEF S
<1>5. n \in S
  BY <1>3, <1>4, IntervalInduction
<1> QED
  BY <1>1, <1>5 DEF S

\* Parts that fit do so one behind the other.
LEMMA FlattenPairs ==
  ASSUME NEW V, NEW n \in Nat, NEW a \in [1..n -> Seq(Ops)], NEW b \in [1..n -> Seq(Ops)],
         NEW c, NEW F \in [0..n -> Nat], RunningTotal(F, c, n),
         \A i \in 1..n : Pair(a[i], b[i], c[i], 0, V)
  PROVE  Pair(FlattenSeq(a), FlattenSeq(b), F[n], 0, V)
<1>1. PICK g : Linked(Ops, n, a, g) /\ g[n] = FlattenSeq(a)
  BY FlattenSteps
<1>2. PICK h : Linked(Ops, n, b, h) /\ h[n] = FlattenSeq(b)
  BY FlattenSteps
<1> DEFINE S == {m \in 0..n : Pair(g[m], h[m], F[m], 0, V)}
<1>3. 0 \in S
  <2>1. F[0] = 0 /\ 0 \in 0..n
    BY DEF RunningTotal
  <2> QED
    BY <1>1, <1>2, <2>1, PairNone DEF Linked
<1>4. ASSUME NEW m \in 0..(n - 1), m \in S PROVE m + 1 \in S
  <2>1. m + 1 \in 1..n /\ (m + 1) - 1 = m /\ m + 1 \in 0..n
    OBVIOUS
  <2>2. F[m + 1] = F[m] + c[m + 1]
    BY <2>1 DEF RunningTotal
  <2>3. g[m + 1] = g[m] \o a[m + 1] /\ h[m + 1] = h[m] \o b[m + 1]
    BY <1>1, <1>2, <2>1 DEF Linked
  <2>4. Pair(g[m], h[m], F[m], 0, V) /\ Pair(a[m + 1], b[m + 1], c[m + 1], 0, V)
    BY <1>4, <2>1
  <2>5. Pair(g[m] \o a[m + 1], h[m] \o b[m + 1], F[m] + c[m + 1], 0 + 0, V)
    BY <2>4, PairThen
  <2>6. Pair(g[m + 1], h[m + 1], F[m + 1], 0, V)
    BY <2>2, <2>3, <2>5
  <2> QED
    BY <2>1, <2>6
<1> HIDE DEF S
<1>5. 0..n \subseteq S
  BY Zenon, <1>3, <1>4, IntervalInduction
<1>6. n \in S
  BY <1>5
<1> QED
  BY <1>1, <1>2, <1>6 DEF S

LEMMA Writes ==
  ASSUME NEW tag \in Tags, NEW n \in Nat
  PROVE  Has(Write(tag, n), "write")
<1>1. "write" \in Kinds /\ "" \in {"", "sr", "rs"}
  BY DEF Kinds
<1>2. OpOf("write", tag, n, "") \in Ops
  BY <1>1, OpIs
<1>3. PICK w \in Ops : w = OpOf("write", tag, n, "") /\ w.op = "write"
  BY <1>2 DEF OpOf
<1>4. Write(tag, n) = <<w>>
  BY <1>3 DEF Write, OpOf
<1>5. PICK s \in Seq(Ops) : s = <<w>> /\ Len(s) = 1 /\ s[1] = w
  BY Sole
<1>6. PICK l \in Nat : l = Len(s) /\ l = 1
  BY <1>5
<1>7. s[1].op = "write"
  BY <1>3, <1>5, Zenon
<1>8. 1 \in 1..l
  BY <1>6
<1> QED
  BY <1>4, <1>5, <1>6, <1>7, <1>8 DEF Has

LEMMA PairExchange ==
  ASSUME NEW V, NEW tag \in Labels, NEW n \in Nat, n > 0
  PROVE  /\ Pair(Exchange(TRUE, tag, n), Exchange(FALSE, tag, n), 0, 0, V)
         /\ Has(Exchange(FALSE, tag, n), "write")
<1>1. PICK a, b \in Tags : a = <<tag, "alice">> /\ b = <<tag, "bob">>
  BY DEF Tags
<1>2. Pair(Write(a, n), Read(a, n), 0, 0, V) /\ Pair(Read(b, n), Write(b, n), 0, 0, V)
  BY PairMessage
<1>3. Pair(Write(a, n) \o Read(b, n), Read(a, n) \o Write(b, n), 0 + 0, 0 + 0, V)
  BY <1>2, PairThen
<1>4. Has(Read(a, n) \o Write(b, n), "write")
  <2>1. Read(a, n) \in Seq(Ops) /\ Write(b, n) \in Seq(Ops)
    BY <1>2 DEF Pair, Fits
  <2>2. Has(Write(b, n), "write")
    BY Writes
  <2> QED
    BY <2>1, <2>2, HasThen
<1> QED
  BY <1>1, <1>3, <1>4 DEF Exchange

LEMMA TimesIs ==
  ASSUME NEW n \in Nat, NEW A, NEW x \in A
  PROVE  Times(n, x) \in [1..n -> A]
BY DEF Times

LEMMA ReducePairs ==
  ASSUME NEW V, NEW n \in Nat, NEW sizes \in [1..n -> Nat \ {0}], NEW tests \in Nat \ {0}
  PROVE  Pair(FlattenSeq([i \in DOMAIN sizes |->
                Transfer(TRUE, "sr", <<"reduce", i>>, Times(tests * sizes[i], CeilLog2(sizes[i] + 1)))]),
              FlattenSeq([i \in DOMAIN sizes |->
                Transfer(FALSE, "sr", <<"reduce", i>>, Times(tests * sizes[i], CeilLog2(sizes[i] + 1)))]),
              tests * Sum(sizes), 0, V)
<1>1. PICK a, b :
        /\ a = [i \in 1..n |->
                 Transfer(TRUE, "sr", <<"reduce", i>>, Times(tests * sizes[i], CeilLog2(sizes[i] + 1)))]
        /\ b = [i \in 1..n |->
                 Transfer(FALSE, "sr", <<"reduce", i>>, Times(tests * sizes[i], CeilLog2(sizes[i] + 1)))]
  OBVIOUS
<1>2. ASSUME NEW i \in 1..n PROVE Pair(a[i], b[i], tests * sizes[i], 0, V)
  <2>1. PICK j \in Nat \ {0} : j = sizes[i]
    OBVIOUS
  <2>2. PICK d \in Nat \ {0} : d = CeilLog2(j + 1)
    <3>1. CeilLog2(j + 1) = BitsFor(j + 1) /\ BitsFor(j + 1) \in 1..j
      BY LogIs, NextBits
    <3> QED
      BY <3>1
  <2>3. PICK m \in Nat \ {0} : m = tests * j
    OBVIOUS
  <2>4. PICK tag \in Labels : tag = <<"reduce", i>>
    <3>1. i \in Nat /\ "reduce" \in {"reduce", "xy"}
      OBVIOUS
    <3> QED
      BY <3>1 DEF Labels
  <2>5. PICK w : w = Times(m, d)
    OBVIOUS
  <2>6. w \in [1..m -> Nat \ {0}]
    BY <2>5, TimesIs
  <2>7. Amount(m, w)
    BY <2>6, AmountOf
  <2>8. Pair(SendTransfer("sr", tag, w), ReceiveTransfer("sr", tag, w), m, 0, V)
    BY <2>7, PairTransfer
  <2>9. a[i] = SendTransfer("sr", tag, w) /\ b[i] = ReceiveTransfer("sr", tag, w)
    BY <1>1, <2>1, <2>2, <2>3, <2>4, <2>5 DEF Transfer
  <2> QED
    BY <2>1, <2>3, <2>8, <2>9
<1>3. a \in [1..n -> Seq(Ops)] /\ b \in [1..n -> Seq(Ops)]
  BY <1>1, <1>2 DEF Pair, Fits
<1>4. PICK G \in [0..n -> Nat] : RunningTotal(G, sizes, n)
  <2>1. sizes \in [1..n -> Nat]
    OBVIOUS
  <2> QED
    BY <2>1, RunningTotals
<1>5. Sum(sizes) = G[n]
  <2>1. sizes \in [1..n -> Nat]
    OBVIOUS
  <2> QED
    BY <1>4, <2>1, SumIs
<1>6. PICK F : F = [i \in 0..n |-> tests * G[i]]
  OBVIOUS
<1>7. PICK c : c = [i \in 1..n |-> tests * sizes[i]]
  OBVIOUS
<1>8. F \in [0..n -> Nat]
  <2>1. \A i \in 0..n : tests * G[i] \in Nat
    <3> SUFFICES ASSUME NEW i \in 0..n PROVE tests * G[i] \in Nat
      OBVIOUS
    <3>1. PICK x \in Nat : x = G[i]
      OBVIOUS
    <3>2. tests * x \in Nat
      OBVIOUS
    <3> QED
      BY <3>1, <3>2
  <2> QED
    BY <1>6, <2>1
<1>9. RunningTotal(F, c, n)
  <2>1. F[0] = 0
    BY <1>4, <1>6 DEF RunningTotal
  <2>2. ASSUME NEW i \in 1..n PROVE F[i] = F[i - 1] + c[i]
    <3>1. PICK x, y, z \in Nat : x = G[i] /\ y = G[i - 1] /\ z = sizes[i]
      OBVIOUS
    <3>2. x = y + z
      BY <1>4, <3>1 DEF RunningTotal
    <3>3. tests * x = tests * y + tests * z
      BY <3>2
    <3>4. i \in 0..n /\ i - 1 \in 0..n
      OBVIOUS
    <3> QED
      BY <1>6, <1>7, <3>1, <3>3, <3>4
  <2> QED
    BY <2>1, <2>2 DEF RunningTotal
<1>10. \A i \in 1..n : Pair(a[i], b[i], c[i], 0, V)
  BY <1>2, <1>7
<1>11. Pair(FlattenSeq(a), FlattenSeq(b), F[n], 0, V)
  BY <1>3, <1>8, <1>9, <1>10, FlattenPairs
<1>12. F[n] = tests * Sum(sizes) /\ DOMAIN sizes = 1..n
  BY <1>5, <1>6
<1> QED
  BY <1>1, <1>11, <1>12

LEMMA ExchangePairs ==
  ASSUME NEW V, NEW n \in Nat, NEW sizes \in [1..n -> Nat \ {0}], NEW tests \in Nat \ {0}
  PROVE  Pair(FlattenSeq([i \in DOMAIN sizes |-> Exchange(TRUE, <<"xy", i>>, nBytes(tests * sizes[i]))]),
              FlattenSeq([i \in DOMAIN sizes |-> Exchange(FALSE, <<"xy", i>>, nBytes(tests * sizes[i]))]),
              0, 0, V)
<1>1. PICK a, b :
        /\ a = [i \in 1..n |-> Exchange(TRUE, <<"xy", i>>, nBytes(tests * sizes[i]))]
        /\ b = [i \in 1..n |-> Exchange(FALSE, <<"xy", i>>, nBytes(tests * sizes[i]))]
  OBVIOUS
<1>2. ASSUME NEW i \in 1..n PROVE Pair(a[i], b[i], 0, 0, V)
  <2>1. PICK j \in Nat \ {0} : j = sizes[i]
    OBVIOUS
  <2>2. PICK x \in Nat \ {0} : x = tests * j
    OBVIOUS
  <2>3. PICK m : m = nBytes(tests * sizes[i])
    OBVIOUS
  <2>4. m \in Nat /\ m > 0
    <3>1. m = nBytes(x)
      BY <2>1, <2>2, <2>3
    <3> QED
      BY <3>1 DEF nBytes
  <2>5. PICK tag \in Labels : tag = <<"xy", i>>
    <3>1. i \in Nat /\ "xy" \in {"reduce", "xy"}
      OBVIOUS
    <3> QED
      BY <3>1 DEF Labels
  <2>6. Pair(Exchange(TRUE, tag, m), Exchange(FALSE, tag, m), 0, 0, V)
    BY <2>4, PairExchange
  <2> QED
    BY <1>1, <2>3, <2>5, <2>6
<1>3. a \in [1..n -> Seq(Ops)] /\ b \in [1..n -> Seq(Ops)]
  BY <1>1, <1>2 DEF Pair, Fits
<1>4. PICK F : F = [i \in 0..n |-> 0]
  OBVIOUS
<1>5. PICK c : c = [i \in 1..n |-> 0]
  OBVIOUS
<1>6. F \in [0..n -> Nat] /\ RunningTotal(F, c, n) /\ F[n] = 0
  BY <1>4, <1>5 DEF RunningTotal
<1>7. \A i \in 1..n : Pair(a[i], b[i], c[i], 0, V)
  BY <1>2, <1>5
<1>8. Pair(FlattenSeq(a), FlattenSeq(b), F[n], 0, V)
  BY <1>3, <1>6, <1>7, FlattenPairs
<1>9. DOMAIN sizes = 1..n
  OBVIOUS
<1> QED
  BY <1>1, <1>6, <1>8, <1>9

\* The equality test fits, and numOTs counts the OTs that it takes.
LEMMA EqTestFits ==
  ASSUME NEW V, NEW length \in Nat, NEW threshold \in Nat, threshold >= 2, NEW tests \in Nat \ {0},
         Verdict(ReducedLength(length, threshold) >= threshold) \in V
  PROVE  /\ Pair(EqTestRun(TRUE, length, threshold, tests), EqTestRun(FALSE, length, threshold, tests),
                 EqTestNumOTs(length, threshold, tests), 0, V)
         /\ ~(ReducedLength(length, threshold) >= threshold)
              => Barred(EqTestRun(FALSE, length, threshold, tests))
<1>1. PICK sizes \in Seq(Nat \ {0}) : sizes = Reductions(length, threshold)
  BY ReductionsAre
<1>2. PICK n \in Nat : n = Len(sizes) /\ sizes \in [1..n -> Nat \ {0}]
  BY LenProperties
<1>3. PICK cross \in Nat \ {0} : cross = 2^threshold - 2
  <2>1. PICK p : p = 2^threshold
    OBVIOUS
  <2>2. p \in Nat /\ p >= threshold + 1
    BY <2>1, Powers, PowersGrow
  <2>3. p - 2 \in Nat \ {0}
    BY <2>2
  <2> QED
    BY <2>1, <2>3
<1>4. PICK ra, rb :
        /\ ra = FlattenSeq([i \in DOMAIN sizes |->
             Transfer(TRUE, "sr", <<"reduce", i>>, Times(tests * sizes[i], CeilLog2(sizes[i] + 1)))])
        /\ rb = FlattenSeq([i \in DOMAIN sizes |->
             Transfer(FALSE, "sr", <<"reduce", i>>, Times(tests * sizes[i], CeilLog2(sizes[i] + 1)))])
  OBVIOUS
<1>5. Pair(ra, rb, tests * Sum(sizes), 0, V)
  BY <1>2, <1>4, ReducePairs
<1>6. PICK xa, xb :
        /\ xa = FlattenSeq([i \in DOMAIN sizes |-> Exchange(TRUE, <<"xy", i>>, nBytes(tests * sizes[i]))])
        /\ xb = FlattenSeq([i \in DOMAIN sizes |-> Exchange(FALSE, <<"xy", i>>, nBytes(tests * sizes[i]))])
  OBVIOUS
<1>7. Pair(xa, xb, 0, 0, V)
  BY <1>2, <1>6, ExchangePairs
<1>8. PICK m \in Nat \ {0} : m = tests * cross
  OBVIOUS
<1>9. PICK pa, pb :
        /\ pa = Transfer(TRUE, "sr", "product", Times(tests * cross, 1))
        /\ pb = Transfer(FALSE, "sr", "product", Times(tests * cross, 1))
  OBVIOUS
<1>10. Pair(pa, pb, m, 0, V)
  <2>1. PICK w : w = Times(m, 1)
    OBVIOUS
  <2>2. w \in [1..m -> Nat \ {0}]
    <3>1. 1 \in Nat \ {0}
      OBVIOUS
    <3> QED
      BY <2>1, <3>1, TimesIs
  <2>3. Amount(m, w)
    BY <2>2, AmountOf
  <2>4. "product" \in Labels
    BY DEF Labels
  <2>5. Pair(SendTransfer("sr", "product", w), ReceiveTransfer("sr", "product", w), m, 0, V)
    BY <2>3, <2>4, PairTransfer
  <2> QED
    BY <1>8, <1>9, <2>1, <2>5 DEF Transfer
<1>11. PICK last \in Nat : last = nBytes(tests * cross + tests) /\ last > 0
  <2>1. m + tests \in Nat \ {0}
    OBVIOUS
  <2>2. nBytes(m + tests) \in Nat /\ nBytes(m + tests) > 0
    BY <2>1 DEF nBytes
  <2> QED
    BY <1>8, <2>2
<1>12. PICK la, lb : la = Exchange(TRUE, "alphabeta", last) /\ lb = Exchange(FALSE, "alphabeta", last)
  OBVIOUS
<1>13. Pair(la, lb, 0, 0, V) /\ Has(lb, "write")
  <2>1. "alphabeta" \in Labels
    BY DEF Labels
  <2> QED
    BY <1>11, <1>12, <2>1, PairExchange
<1>14. PICK total \in Nat : total = tests * Sum(sizes)
  <2>1. Sum(sizes) \in Nat
    <3>1. sizes \in [1..n -> Nat]
      BY <1>2
    <3>2. PICK F \in [0..n -> Nat] : RunningTotal(F, sizes, n)
      BY <3>1, RunningTotals
    <3>3. Sum(sizes) = F[n]
      BY <3>1, <3>2, SumIs
    <3> QED
      BY <3>3
  <2>2. PICK x \in Nat : x = Sum(sizes)
    BY <2>1
  <2>3. tests * x \in Nat
    OBVIOUS
  <2> QED
    BY <2>2, <2>3
<1>15. PICK va, vb : va = Ensure(ReducedLength(length, threshold) >= threshold) /\ vb = va
  OBVIOUS
<1>16. Pair(va, vb, 0, 0, V)
  BY <1>15, PairEnsure
<1>17. Pair(ra \o pa, rb \o pb, total + m, 0 + 0, V)
  BY <1>5, <1>10, <1>14, PairThen
<1>18. Pair((ra \o pa) \o xa, (rb \o pb) \o xb, (total + m) + 0, (0 + 0) + 0, V)
  BY <1>7, <1>17, PairThen
<1>19. PICK a, b : a = ((ra \o pa) \o xa) \o va /\ b = ((rb \o pb) \o xb) \o vb
  OBVIOUS
<1>20. Pair(a, b, ((total + m) + 0) + 0, ((0 + 0) + 0) + 0, V)
  BY <1>16, <1>18, <1>19, PairThen
<1>21. Pair(a \o la, b \o lb, (((total + m) + 0) + 0) + 0, (((0 + 0) + 0) + 0) + 0, V)
  BY <1>13, <1>20, PairThen
<1>22. (((total + m) + 0) + 0) + 0 = EqTestNumOTs(length, threshold, tests) /\ (((0 + 0) + 0) + 0) + 0 = 0
  <2>1. EqTestNumOTs(length, threshold, tests) = total + cross * tests
    BY <1>1, <1>3, <1>14 DEF EqTestNumOTs
  <2>2. cross * tests = m
    BY <1>8
  <2> QED
    BY <2>1, <2>2
<1>23. EqTestRun(TRUE, length, threshold, tests) = a \o la
  BY <1>1, <1>3, <1>4, <1>6, <1>9, <1>11, <1>12, <1>15, <1>19 DEF EqTestRun
<1>24. EqTestRun(FALSE, length, threshold, tests) = b \o lb
  BY <1>1, <1>3, <1>4, <1>6, <1>9, <1>11, <1>12, <1>15, <1>19 DEF EqTestRun
<1>25. ASSUME ~(ReducedLength(length, threshold) >= threshold) PROVE Barred(b \o lb)
  <2>1. vb \in Seq(Ops) /\ Has(vb, "throw")
    BY <1>15, <1>25, EnsureThrows
  <2>2. PICK c : c = (rb \o pb) \o xb
    OBVIOUS
  <2>3. c \in Seq(Ops) /\ b = c \o vb /\ b \in Seq(Ops) /\ lb \in Seq(Ops)
    BY <1>13, <1>18, <1>19, <1>20, <2>2 DEF Pair, Fits
  <2>4. Has(b, "throw")
    BY <2>1, <2>3, HasThen
  <2> QED
    BY <1>13, <2>3, <2>4, BarredThen
<1> QED
  BY <1>21, <1>22, <1>23, <1>24, <1>25

LEMMA AheFits ==
  ASSUME NEW V, NEW tag \in Labels, NEW n \in Nat \ {0}, NEW compress \in BOOLEAN
  PROVE  /\ Pair(AheSend(tag, n, compress), AheReceive(tag, n, compress), 0, 0, V)
         /\ Pair(AheReceive(tag, n, compress), AheSend(tag, n, compress), 0, 0, V)
<1>1. PICK a, b \in Tags : a = <<tag, "key">> /\ b = <<tag, "points">>
  BY DEF Tags
<1>2. PICK x \in Nat : x = KeyBits \div 8 /\ x > 0
  BY SessionAssumption
<1>3. PICK y \in Nat : y = PointBytes * n * (IF compress THEN 1 ELSE 2) /\ y > 0
  <2>1. PICK z \in Nat \ {0} : z = PointBytes * n
    BY SessionAssumption
  <2>2. z * 1 = z /\ z * 2 \in Nat /\ z * 2 > 0
    OBVIOUS
  <2> QED
    BY <2>1, <2>2
<1>4. /\ Pair(Write(a, x), Read(a, x), 0, 0, V) /\ Pair(Read(a, x), Write(a, x), 0, 0, V)
      /\ Pair(Write(b, y), Read(b, y), 0, 0, V) /\ Pair(Read(b, y), Write(b, y), 0, 0, V)
  BY <1>2, <1>3, PairMessage
<1>5. CASE compress
  <2>1. AheSend(tag, n, compress) = Write(a, x) \o Write(b, y)
    BY <1>1, <1>2, <1>3, <1>5 DEF AheSend
  <2>2. AheReceive(tag, n, compress) = Read(a, x) \o Read(b, y)
    BY <1>1, <1>2, <1>3, <1>5 DEF AheReceive
  <2>3. Pair(Write(a, x) \o Write(b, y), Read(a, x) \o Read(b, y), 0 + 0, 0 + 0, V)
    BY <1>4, PairThen
  <2>4. Pair(Read(a, x) \o Read(b, y), Write(a, x) \o Write(b, y), 0 + 0, 0 + 0, V)
    BY <1>4, PairThen
  <2> QED
    BY <2>1, <2>2, <2>3, <2>4
<1>6. CASE ~compress
  <2>1. AheSend(tag, n, compress) = <<>> \o Write(b, y)
    BY <1>1, <1>3, <1>6 DEF AheSend
  <2>2. AheReceive(tag, n, compress) = <<>> \o Read(b, y)
    BY <1>1, <1>3, <1>6 DEF AheReceive
  <2>3. Pair(<<>> \o Write(b, y), <<>> \o Read(b, y), 0 + 0, 0 + 0, V)
    BY <1>4, PairNone, PairThen
  <2>4. Pair(<<>> \o Read(b, y), <<>> \o Write(b, y), 0 + 0, 0 + 0, V)
    BY <1>4, PairNone, PairThen
  <2> QED
    BY <2>1, <2>2, <2>3, <2>4
<1> QED
  BY <1>5, <1>6

\* Every PRF takes the messages of its levels.
LEMMA WidthsTimes ==
  ASSUME NEW n \in Nat \ {0}, NEW k \in Nat \ {0}, NEW u \in Seq(Nat \ {0}), Len(u) = k
  PROVE  Amount(n * k, FlattenSeq(Times(n, u)))
<1>1. PICK s : s = Times(n, u)
  OBVIOUS
<1>2. s \in [1..n -> Seq(Nat \ {0})] /\ \A i \in 1..n : s[i] = u
  BY <1>1 DEF Times
<1>3. PICK g : Linked(Nat \ {0}, n, s, g) /\ g[n] = FlattenSeq(s)
  BY <1>2, FlattenSteps
<1> DEFINE S == {m \in 0..n : Len(g[m]) = m * k}
<1>4. 0 \in S
  <2>1. 0 * k = 0 /\ 0 \in 0..n /\ Len(<<>>) = 0
    OBVIOUS
  <2> QED
    BY <1>3, <2>1 DEF Linked
<1>5. ASSUME NEW m \in 0..(n - 1), m \in S PROVE m + 1 \in S
  <2>1. m + 1 \in 1..n /\ (m + 1) - 1 = m /\ m + 1 \in 0..n /\ m \in 0..n
    OBVIOUS
  <2>2. g[m + 1] = g[m] \o u /\ g[m] \in Seq(Nat \ {0})
    BY <1>2, <1>3, <2>1 DEF Linked
  <2>3. Len(g[m] \o u) = Len(g[m]) + Len(u)
    BY <2>2, ConcatProperties
  <2>4. (m + 1) * k = m * k + k
    OBVIOUS
  <2>5. Len(g[m + 1]) = (m + 1) * k
    BY <1>5, <2>2, <2>3, <2>4
  <2> QED
    BY <2>1, <2>5
<1> HIDE DEF S
<1>6. 0..n \subseteq S
  BY Zenon, <1>4, <1>5, IntervalInduction
<1>7. PICK m \in Nat \ {0} : m = n * k
  OBVIOUS
<1>8. PICK w \in Seq(Nat \ {0}) : w = g[n] /\ Len(w) = m
  <2>1. n \in S /\ n \in 0..n
    BY <1>6
  <2>2. Len(g[n]) = n * k
    BY <2>1 DEF S
  <2> QED
    BY <1>3, <1>7, <2>1, <2>2 DEF Linked
<1>9. w \in [1..m -> Nat \ {0}]
  BY <1>8, LenProperties
<1>10. Amount(m, w)
  BY <1>9, AmountOf
<1> QED
  BY <1>1, <1>3, <1>7, <1>8, <1>10

LEMMA Appended ==
  ASSUME NEW d \in Nat, NEW x \in Nat \ {0}, NEW y \in Nat \ {0}
  PROVE  Append(Times(d, x), y) \in Seq(Nat \ {0}) /\ Len(Append(Times(d, x), y)) = d + 1
<1>1. PICK s : s = Times(d, x)
  OBVIOUS
<1>2. s \in [1..d -> Nat \ {0}]
  BY <1>1, TimesIs
<1>3. s \in Seq(Nat \ {0}) /\ Len(s) = d
  BY <1>2
<1>4. Append(s, y) \in Seq(Nat \ {0}) /\ Len(Append(s, y)) = Len(s) + 1
  BY <1>3, AppendProperties
<1> QED
  BY <1>1, <1>3, <1>4

LEMMA PprfAmount ==
  ASSUME NEW n \in Nat \ {0}, NEW outsize \in Nat \ {0}, NEW domainsize \in Nat \ {0}
  PROVE  /\ n * (CeilLog2(domainsize) + 1) \in Nat
         /\ Amount(n * (CeilLog2(domainsize) + 1), PprfWidths(n, outsize, domainsize))
<1>1. PICK d \in Nat : d = CeilLog2(domainsize)
  BY LogIs, BitsForIs
<1>2. KeyBits \in Nat \ {0}
  BY SessionAssumption
<1>3. PICK k \in Nat \ {0} : k = d + 1
  OBVIOUS
<1>4. PICK u \in Seq(Nat \ {0}) : u = Append(Times(d, KeyBits), outsize) /\ Len(u) = k
  BY <1>2, <1>3, Appended
<1>5. Amount(n * k, FlattenSeq(Times(n, u)))
  BY <1>4, WidthsTimes
<1>6. n * k \in Nat
  OBVIOUS
<1> QED
  BY <1>1, <1>3, <1>4, <1>5, <1>6 DEF PprfWidths

LEMMA BitPprfAmount ==
  ASSUME NEW n \in Nat \ {0}, NEW domainsize \in Nat \ {0, 1}
  PROVE  /\ n * CeilLog2(domainsize) \in Nat
         /\ Amount(n * CeilLog2(domainsize), BitPprfWidths(n, domainsize))
<1>1. PICK k \in Nat : k = CeilLog2(domainsize) /\ 2^k >= domainsize
  BY LogIs, BitsForIs
<1>2. k # 0
  <2>1. PICK p : p = 2^k
    OBVIOUS
  <2>2. p >= domainsize /\ (k = 0 => p = 1)
    BY <1>1, <2>1, Powers
  <2> QED
    BY <2>2
<1>3. k \in Nat \ {0} /\ 2 \in Nat \ {0} /\ KeyBits \in Nat \ {0}
  BY <1>2, SessionAssumption
<1>4. PICK d \in Nat : d = k - 1 /\ d + 1 = k
  BY <1>3
<1>5. PICK u \in Seq(Nat \ {0}) : u = Append(Times(d, KeyBits), 2) /\ Len(u) = k
  <2>1. PICK x, y \in Nat \ {0} : x = KeyBits /\ y = 2
    BY <1>3
  <2>2. Append(Times(d, x), y) \in Seq(Nat \ {0}) /\ Len(Append(Times(d, x), y)) = d + 1
    BY Appended
  <2> QED
    BY <1>4, <2>1, <2>2
<1>6. Amount(n * k, FlattenSeq(Times(n, u)))
  BY <1>3, <1>5, WidthsTimes
<1>7. n * k \in Nat
  OBVIOUS
<1> QED
  BY <1>1, <1>4, <1>5, <1>6, <1>7 DEF BitPprfWidths

\* The OTs of a run.
InSr(P) == SenderNumOTs(P).sent
InRs(P) == SenderNumOTs(P).received

\* What can come of the conditions of a run.
Outcomes(P) == IF Suited(P) THEN {"pass"} ELSE Verdicts

LEMMA NoLevels ==
  ASSUME NEW n \in Nat \ {0}, ~(n > 1)
  PROVE  ~(CeilLog2(n) > 0)
<1>1. PICK d \in Nat : d = CeilLog2(n) /\ (d = 0 \/ 2^(d - 1) < n)
  BY LogIs, BitsForIs
<1>2. d = 0
  <2> SUFFICES ASSUME d # 0 PROVE FALSE
    OBVIOUS
  <2>1. PICK e \in Nat : e = d - 1
    OBVIOUS
  <2>2. PICK p : p = 2^e
    OBVIOUS
  <2>3. p \in Nat /\ p > 0
    BY <2>2, Powers
  <2>4. p < 1
    BY <1>1, <2>1, <2>2
  <2> QED
    BY <2>3, <2>4
<1> QED
  BY <1>1, <1>2

LEMMA OutcomesAre ==
  ASSUME NEW P \in ParamSet
  PROVE  \E V :
           /\ V = Outcomes(P) /\ Verdict(P.k = P.k) \in V
           /\ Verdict(ReducedLength(errorBits(P), P.threshold) >= P.threshold) \in V
           /\ Verdict(CeilLog2(P.db) > 0) \in V
<1>1. PICK d \in Nat : d = CeilLog2(P.db) /\ 2^d >= P.db
  BY SessionAssumption, LogIs, BitsForIs
<1>2. P.db > 1 => d > 0
  <2>1. PICK p : p = 2^d
    OBVIOUS
  <2>2. P.db \in Nat /\ p >= P.db /\ (d = 0 => p = 1)
    BY <1>1, <2>1, Powers, SessionAssumption
  <2> QED
    BY <2>2
<1>3. PICK long : long <=> ReducedLength(errorBits(P), P.threshold) >= P.threshold
  OBVIOUS
<1>4. CASE Suited(P)
  <2>1. long /\ d > 0
    BY <1>2, <1>3, <1>4 DEF Suited
  <2> QED
    BY <1>1, <1>3, <1>4, <2>1 DEF Outcomes, Verdict
<1>5. CASE ~Suited(P)
  BY <1>5 DEF Outcomes, Verdict, Verdicts
<1> QED
  BY <1>4, <1>5

LEMMA OnlineFits ==
  ASSUME NEW P \in ParamSet
  PROVE  /\ Pair(SenderOnline(P), ReceiverOnline(P), InSr(P), InRs(P), Outcomes(P))
         /\ InSr(P) \in Nat /\ InRs(P) \in Nat
         /\ ~Suited(P) => Barred(ReceiverOnline(P))
<1>1. PICK V :
        /\ V = Outcomes(P) /\ Verdict(P.k = P.k) \in V
        /\ Verdict(ReducedLength(errorBits(P), P.threshold) >= P.threshold) \in V
        /\ Verdict(CeilLog2(P.db) > 0) \in V
  BY OutcomesAre
<1>2. /\ P.tp \in Nat \ {0} /\ P.td \in Nat \ {0} /\ P.db \in Nat \ {0} /\ P.k \in Nat \ {0}
      /\ P.pb \in Nat \ {0, 1} /\ P.threshold \in Nat /\ P.threshold >= 2
  BY SessionAssumption
<1>3. errorBits(P) \in Nat
  BY <1>2, LogIs, BitsForIs DEF errorBits
<1>4. PICK ea, eb, en :
        /\ ea = EqTestRun(TRUE, errorBits(P), P.threshold, P.tp)
        /\ eb = EqTestRun(FALSE, errorBits(P), P.threshold, P.tp)
        /\ en = EqTestNumOTs(errorBits(P), P.threshold, P.tp)
  OBVIOUS
<1>5. /\ Pair(ea, eb, en, 0, V)
      /\ ~(ReducedLength(errorBits(P), P.threshold) >= P.threshold) => Barred(eb)
  BY <1>1, <1>2, <1>3, <1>4, EqTestFits
<1>6. "enc_s0" \in Labels /\ "enc_s1" \in Labels /\ "enc_eXas0" \in Labels /\ "enc_eXas1" \in Labels
  BY DEF Labels
<1>7. PICK s1, r1, s2, r2, s3, r3, s4, r4 :
        /\ s1 = AheSend("enc_s0", P.k, TRUE) /\ r1 = AheReceive("enc_s0", P.k, TRUE)
        /\ s2 = AheReceive("enc_s1", P.k, TRUE) /\ r2 = AheSend("enc_s1", P.k, TRUE)
        /\ s3 = AheSend("enc_eXas0", P.tp, FALSE) /\ r3 = AheReceive("enc_eXas0", P.tp, FALSE)
        /\ s4 = AheReceive("enc_eXas1", P.tp, FALSE) /\ r4 = AheSend("enc_eXas1", P.tp, FALSE)
  OBVIOUS
<1>8. Pair(s1, r1, 0, 0, V) /\ Pair(s2, r2, 0, 0, V) /\ Pair(s3, r3, 0, 0, V) /\ Pair(s4, r4, 0, 0, V)
  <2>1. TRUE \in BOOLEAN /\ FALSE \in BOOLEAN
    OBVIOUS
  <2> QED
    BY <1>2, <1>6, <1>7, <2>1, AheFits
<1>9. PICK m \in Nat : m = P.tp * CeilLog2(P.pb) /\ Amount(m, BitPprfWidths(P.tp, P.pb))
  BY <1>2, BitPprfAmount
<1>10. PICK n \in Nat : n = P.td * (CeilLog2(P.db) + 1) /\ Amount(n, PprfWidths(P.td, P.k, P.db))
  BY <1>2, PprfAmount
<1>11. "eXas_eoe" \in Labels /\ "eXas" \in Labels /\ "eXs" \in Labels
  BY DEF Labels
<1>12. PICK s5, r5, s6, r6, s7, r7, v7, w7 :
        /\ s5 = SendTransfer("sr", "eXas_eoe", BitPprfWidths(P.tp, P.pb))
        /\ r5 = ReceiveTransfer("sr", "eXas_eoe", BitPprfWidths(P.tp, P.pb))
        /\ s6 = ReceiveTransfer("rs", "eXas", BitPprfWidths(P.tp, P.pb))
        /\ r6 = SendTransfer("rs", "eXas", BitPprfWidths(P.tp, P.pb))
        /\ s7 = SendTransfer("sr", "eXs", PprfWidths(P.td, P.k, P.db))
        /\ r7 = ReceiveTransfer("sr", "eXs", PprfWidths(P.td, P.k, P.db))
        /\ v7 = Ensure(P.k = P.k) /\ w7 = Ensure(CeilLog2(P.db) > 0)
  OBVIOUS
<1>13. Pair(s5, r5, m, 0, V) /\ Pair(s6, r6, 0, m, V) /\ Pair(s7, r7, n, 0, V) /\ Has(r7, "write")
  BY <1>9, <1>10, <1>11, <1>12, PairTransfer
<1>14. Pair(v7, w7, 0, 0, V)
  BY <1>1, <1>12, PairEnsure
<1>15. Pair(v7 \o s7, w7 \o r7, 0 + n, 0 + 0, V)
  BY <1>13, <1>14, PairThen
<1>16. PICK s8, r8 : s8 = v7 \o s7 /\ r8 = w7 \o r7
  OBVIOUS
<1>17. Pair(s8, r8, n, 0, V)
  <2>1. 0 + n = n /\ 0 + 0 = 0
    OBVIOUS
  <2> QED
    BY <1>15, <1>16, <2>1
<1>18. en \in Nat
  <2>1. ea \in Seq(Ops) /\ Takes(ea, "sr", en)
    BY <1>5 DEF Pair, Fits
  <2> QED
    BY <2>1, TakesNat
<1>19. Pair(ea \o s1, eb \o r1, en + 0, 0 + 0, V)
  BY <1>5, <1>8, PairThen
<1>20. Pair((ea \o s1) \o s2, (eb \o r1) \o r2, (en + 0) + 0, (0 + 0) + 0, V)
  BY <1>8, <1>19, PairThen
<1>21. PICK a, b : a = (ea \o s1) \o s2 /\ b = (eb \o r1) \o r2
  OBVIOUS
<1>22. Pair(a, b, en, 0, V)
  <2>1. (en + 0) + 0 = en /\ (0 + 0) + 0 = 0
    BY <1>18
  <2> QED
    BY <1>20, <1>21, <2>1
<1>23. Pair(a \o s3, b \o r3, en + 0, 0 + 0, V)
  BY <1>8, <1>22, PairThen
<1>24. Pair((a \o s3) \o s4, (b \o r3) \o r4, (en + 0) + 0, (0 + 0) + 0, V)
  BY <1>8, <1>23, PairThen
<1>25. PICK c, d : c = (a \o s3) \o s4 /\ d = (b \o r3) \o r4
  OBVIOUS
<1>26. Pair(c, d, en, 0, V)
  <2>1. (en + 0) + 0 = en /\ (0 + 0) + 0 = 0
    BY <1>18
  <2> QED
    BY <1>24, <1>25, <2>1
<1>27. Pair(c \o s5, d \o r5, en + m, 0 + 0, V)
  BY <1>13, <1>26, PairThen
<1>28. Pair((c \o s5) \o s6, (d \o r5) \o r6, (en + m) + 0, (0 + 0) + m, V)
  BY <1>13, <1>27, PairThen
<1>29. Pair(((c \o s5) \o s6) \o s8, ((d \o r5) \o r6) \o r8, ((en + m) + 0) + n, ((0 + 0) + m) + 0, V)
  BY <1>17, <1>28, PairThen
<1>30. /\ InSr(P) = ((en + m) + 0) + n /\ InRs(P) = ((0 + 0) + m) + 0
       /\ InSr(P) \in Nat /\ InRs(P) \in Nat
  BY <1>4, <1>9, <1>10, <1>18 DEF InSr, InRs, SenderNumOTs
<1>31. SenderOnline(P) = ((c \o s5) \o s6) \o s8
  BY <1>4, <1>7, <1>12, <1>21, <1>25, <1>16 DEF SenderOnline, PprfSend
<1>32. ReceiverOnline(P) = ((d \o r5) \o r6) \o r8
  BY <1>4, <1>7, <1>12, <1>21, <1>25, <1>16 DEF ReceiverOnline, PprfReceive
<1>33. PICK f, g, h : f = (d \o r5) \o r6 /\ g = eb \o r1 /\ h = b \o r3
  OBVIOUS
<1>34. /\ eb \in Seq(Ops) /\ r1 \in Seq(Ops) /\ g \in Seq(Ops) /\ r2 \in Seq(Ops) /\ b = g \o r2
       /\ b \in Seq(Ops) /\ r3 \in Seq(Ops) /\ h \in Seq(Ops) /\ r4 \in Seq(Ops) /\ d = h \o r4
       /\ d \in Seq(Ops) /\ r5 \in Seq(Ops) /\ d \o r5 \in Seq(Ops) /\ r6 \in Seq(Ops)
       /\ f \in Seq(Ops) /\ w7 \in Seq(Ops) /\ r7 \in Seq(Ops) /\ r8 \in Seq(Ops)
  BY <1>5, <1>8, <1>13, <1>19, <1>21, <1>22, <1>23, <1>25, <1>26, <1>27, <1>28, <1>14, <1>17, <1>33
  DEF Pair, Fits
<1>35. ASSUME ~Suited(P) PROVE Barred(f \o r8)
  <2>1. CASE ~(ReducedLength(errorBits(P), P.threshold) >= P.threshold)
    <3>1. Barred(g)
      BY <1>5, <1>33, <1>34, <2>1, BarredThen
    <3>2. Barred(b)
      BY <1>34, <3>1, BarredThen
    <3>3. Barred(h)
      BY <1>33, <1>34, <3>2, BarredThen
    <3>4. Barred(d)
      BY <1>34, <3>3, BarredThen
    <3>5. Barred(d \o r5)
      BY <1>34, <3>4, BarredThen
    <3>6. Barred(f)
      BY <1>33, <1>34, <3>5, BarredThen
    <3> QED
      BY <1>34, <3>6, BarredThen
  <2>2. CASE ~(P.db > 1)
    <3>1. ~(CeilLog2(P.db) > 0)
      BY <1>2, <2>2, NoLevels
    <3>2. Has(w7, "throw")
      BY <1>12, <3>1, EnsureThrows
    <3>3. Barred(r8)
      BY <1>13, <1>16, <1>34, <3>2, BarredThen
    <3> QED
      BY <1>34, <3>3, BarredThen
  <2> QED
    BY <1>35, <2>1, <2>2 DEF Suited
<1> QED
  BY <1>1, <1>29, <1>30, <1>31, <1>32, <1>33, <1>35

-----------------------------------------------------------------------------
\* The scripts as wholes: the pools are filled at the places 1 and 2, and from
\* there on the places are those of messages, of transfers and of conditions.
Swap(s, r, i, d) ==
  /\ s[i].op = "read" /\ r[i].op = "get" /\ s[i + 1].op = "get" /\ r[i + 1].op = "write"
  /\ Message(r[i + 1], s[i])
  /\ Message(s[i + 2], r[i + 2]) /\ i + 2 <= Len(s)
  /\ r[i].dir = d /\ s[i + 1].dir = d /\ r[i].n = s[i + 1].n

\* What is checked is taken, at one of the next two places.
Checked(s, r, i) ==
  /\ s[i].op = "check" /\ r[i].op = "check"
  /\ \E j \in {i + 1, i + 2} : s[j].op = "get" /\ s[j].dir = s[i].dir /\ s[j].n = s[i].n
  /\ \E j \in {i + 1, i + 2} : r[j].op = "get" /\ r[j].dir = r[i].dir /\ r[j].n = r[i].n

Place(s, r, i, d, e) ==
  \/ Message(s[i], r[i])
  \/ Message(r[i], s[i])
  \/ Judged(s[i], r[i], Verdicts)
  \/ Checked(s, r, i) /\ i + 2 <= Len(s)
  \/ Swap(s, r, i, d) /\ i + 1 <= Len(s)
  \/ Swap(s, r, i - 1, d) /\ i - 1 >= 3
  \/ Swap(r, s, i, e) /\ i + 1 <= Len(s)
  \/ Swap(r, s, i - 1, e) /\ i - 1 >= 3

Filling(s, i, d, n) == s[i].op = "rot" /\ s[i].dir = d /\ s[i].n = n

\* The script s of a party that sends in the direction d, and r of its peer.
Woven(s, r, d, e) ==
  /\ s \in Seq(Ops) /\ r \in Seq(Ops) /\ Len(r) = Len(s) /\ Len(s) >= 2
  /\ \A i \in 3..Len(s) : s[i].n > 0 /\ r[i].n > 0 /\ Place(s, r, i, d, e)
  /\ \A i \in 1..2 : s[i].op = "rot" /\ r[i].op = "rot" /\ s[i].dir = r[i].dir /\ s[i].n = r[i].n

LEMMA WovenBack ==
  ASSUME NEW s, NEW r, NEW d, NEW e, Woven(s, r, d, e)
  PROVE  Woven(r, s, e, d)
BY DEF Woven, Place, Checked, Judged

LEMMA TransferPlaces ==
  ASSUME NEW s, NEW r, NEW d, NEW e, NEW i \in Nat, i >= 3, Len(r) = Len(s), Len(s) \in Nat,
         s[1].op = "rot", s[2].op = "rot", Transfers(s, r, i, d)
  PROVE  Place(s, r, i, d, e) /\ Place(r, s, i, e, d)
<1>1. PICK t \in 1..i : i <= t + 3 /\ t + 3 <= Len(s) /\ TransferAt(s, r, t, d)
  BY DEF Transfers
<1>2. t >= 3
  <2>1. s[t].op = "check"
    BY <1>1 DEF TransferAt
  <2> QED
    BY <2>1
<1>3. t + 1 + 1 = t + 2 /\ t + 1 + 2 = t + 3 /\ t + 1 - 1 = t /\ t + 2 - 1 = t + 1
  OBVIOUS
<1>4. Swap(s, r, t + 1, d)
  BY <1>1, <1>3 DEF TransferAt, Swap
<1>5. CASE i = t
  <2>1. Checked(s, r, t) /\ Checked(r, s, t)
    BY <1>1 DEF TransferAt, Checked
  <2> QED
    BY <1>1, <1>5, <2>1 DEF Place
<1>6. CASE i = t + 1
  <2>1. Swap(s, r, i, d) /\ i + 1 <= Len(s) /\ i + 1 <= Len(r)
    BY <1>1, <1>4, <1>6
  <2> QED
    BY <2>1 DEF Place
<1>7. CASE i = t + 2
  <2>1. i - 1 = t + 1 /\ i - 1 >= 3
    BY <1>2, <1>7
  <2> QED
    BY <1>4, <2>1 DEF Place
<1>8. CASE i = t + 3
  <2>1. Message(s[i], r[i])
    BY <1>1, <1>8 DEF TransferAt
  <2> QED
    BY <2>1 DEF Place
<1> QED
  BY <1>1, <1>5, <1>6, <1>7, <1>8

LEMMA HeadIs ==
  ASSUME NEW x \in Nat, NEW y \in Nat
  PROVE  \E h \in Seq(Ops) :
           /\ h = Rot("sr", x) \o Rot("rs", y) /\ Len(h) = 2
           /\ Filling(h, 1, "sr", x) /\ Filling(h, 2, "rs", y)
<1>1. PICK a, b \in Ops :
        /\ Line(a) = Rot("sr", x) /\ a.op = "rot" /\ a.dir = "sr" /\ a.n = x
        /\ Line(b) = Rot("rs", y) /\ b.op = "rot" /\ b.dir = "rs" /\ b.n = y
  <2>1. "rot" \in Kinds /\ "" \in Tags
    BY DEF Kinds, Tags
  <2>2. OpOf("rot", "", x, "sr") \in Ops /\ OpOf("rot", "", y, "rs") \in Ops
    BY <2>1, OpIs
  <2> QED
    BY <2>2 DEF OpOf, Rot, Line
<1>2. PICK u \in Seq(Ops) : u = Line(a) /\ Len(u) = 1 /\ u[1] = a
  BY Sole DEF Line
<1>3. PICK v : v = Behind(u, Line(b)) /\ Extended(u, 1, v, b)
  BY <1>2, OneMore
<1>4. v \in Seq(Ops) /\ Len(v) = 2 /\ v[1] = a /\ v[2] = b
  BY <1>2, <1>3 DEF Extended
<1>5. v = Rot("sr", x) \o Rot("rs", y)
  BY <1>1, <1>2, <1>3 DEF Behind
<1> QED
  BY <1>1, <1>4, <1>5 DEF Filling

\* The head of a script takes nothing.
LEMMA HeadTakes ==
  ASSUME NEW h \in Seq(Ops), Len(h) = 2, NEW x, NEW y, Filling(h, 1, "sr", x), Filling(h, 2, "rs", y),
         NEW s \in Seq(Ops), NEW c, NEW m, Takes(s, c, m)
  PROVE  Takes(h \o s, c, m)
<1>1. \A i \in 1..2 : i = 1 \/ i = 2
  OBVIOUS
<1>2. \A i \in 1..Len(h) : h[i].op # "get"
  BY <1>1 DEF Filling
<1>3. Takes(h, c, 0)
  BY <1>2, TakesNone
<1>4. Takes(h \o s, c, 0 + m)
  BY <1>3, TakesThen
<1>5. m \in Nat
  BY TakesNat
<1> QED
  BY <1>4, <1>5

\* An error is among what can come of the conditions.
Bounded(s, V) == \A i \in 1..Len(s) : s[i].op = "throw" => "throw" \in V

Whole(a, b, x, y, V) ==
  /\ Woven(a, b, "sr", "rs")
  /\ Bounded(a, V) /\ Bounded(b, V)
  /\ Filling(a, 1, "sr", x) /\ Filling(a, 2, "rs", y)
  /\ Filling(b, 1, "sr", x) /\ Filling(b, 2, "rs", y)
  /\ Takes(a, "sr", x) /\ Takes(b, "sr", x) /\ Takes(a, "rs", y) /\ Takes(b, "rs", y)

LEMMA MeetBounded ==
  ASSUME NEW V, NEW s, NEW r, NEW d, NEW e, NEW i \in Nat, Meet(s, r, i, d, e, V)
  PROVE  s[i].op = "throw" \/ r[i].op = "throw" => "throw" \in V
<1> SUFFICES ASSUME s[i].op = "throw" \/ r[i].op = "throw" PROVE "throw" \in V
  OBVIOUS
<1>1. ~Message(s[i], r[i]) /\ ~Message(r[i], s[i])
  BY DEF Message
<1>2. ASSUME NEW u, NEW v, NEW c, Transfers(u, v, i, c)
      PROVE  u[i].op # "throw" /\ v[i].op # "throw"
  <2>1. PICK t \in 1..i : i <= t + 3 /\ TransferAt(u, v, t, c)
    BY <1>2 DEF Transfers
  <2>2. i = t \/ i = t + 1 \/ i = t + 2 \/ i = t + 3
    BY <2>1
  <2> QED
    BY <2>1, <2>2 DEF TransferAt, Message
<1>3. ~Transfers(s, r, i, d) /\ ~Transfers(r, s, i, e)
  BY <1>2
<1>4. Judged(s[i], r[i], V)
  BY <1>1, <1>3 DEF Meet
<1> QED
  BY <1>4 DEF Judged

LEMMA WholeIs ==
  ASSUME NEW V, NEW s, NEW r, NEW x \in Nat, NEW y \in Nat, Pair(s, r, x, y, V),
         NEW h \in Seq(Ops), Len(h) = 2, Filling(h, 1, "sr", x), Filling(h, 2, "rs", y)
  PROVE  Whole(h \o s, h \o r, x, y, V)
<1>1. PICK n \in Nat : s \in Seq(Ops) /\ r \in Seq(Ops) /\ Len(s) = n /\ Len(r) = n
  BY DEF Pair, Fits
<1>2. PICK a, b : a = Behind(h, s) /\ b = Behind(h, r)
  OBVIOUS
<1>3. StandsBehind(Ops, h, s, a) /\ StandsBehind(Ops, h, r, b)
  BY <1>1, <1>2, Continued DEF IsOver
<1>4. /\ a \in Seq(Ops) /\ Len(a) = 2 + n /\ b \in Seq(Ops) /\ Len(b) = 2 + n
      /\ \A i \in 1..2 : a[i] = h[i] /\ b[i] = h[i]
      /\ \A i \in 1..n : a[2 + i] = s[i] /\ b[2 + i] = r[i]
  BY <1>1, <1>3 DEF StandsBehind
<1>5. Filling(a, 1, "sr", x) /\ Filling(a, 2, "rs", y) /\ Filling(b, 1, "sr", x) /\ Filling(b, 2, "rs", y)
  BY <1>4 DEF Filling
<1>6. ASSUME NEW i \in 1..n
      PROVE  /\ a[2 + i].n > 0 /\ b[2 + i].n > 0 /\ Place(a, b, 2 + i, "sr", "rs")
             /\ a[2 + i].op = "throw" \/ b[2 + i].op = "throw" => "throw" \in V
  <2>1. Meet(s, r, i, "sr", "rs", V) /\ s[i].n > 0 /\ r[i].n > 0
    BY <1>1 DEF Pair, Fits
  <2>2. /\ Len(s) \in Nat /\ Len(r) = Len(s) /\ Len(a) \in Nat /\ Len(b) = Len(a)
        /\ 2 + Len(s) <= Len(a) /\ i \in 1..Len(s)
        /\ \A j \in 1..Len(s) : a[2 + j] = s[j] /\ b[2 + j] = r[j]
    BY <1>1, <1>4
  <2>3. Meet(a, b, 2 + i, "sr", "rs", V)
    BY <2>1, <2>2, MeetMoved
  <2>4. 2 + i \in Nat /\ 2 + i >= 3 /\ a[1].op = "rot" /\ a[2].op = "rot" /\ b[1].op = "rot" /\ b[2].op = "rot"
    BY <1>5 DEF Filling
  <2>5. Place(a, b, 2 + i, "sr", "rs")
    <3>1. CASE \/ Message(a[2 + i], b[2 + i]) \/ Message(b[2 + i], a[2 + i])
               \/ Judged(a[2 + i], b[2 + i], V)
      BY <3>1 DEF Place, Judged
    <3>2. CASE Transfers(a, b, 2 + i, "sr")
      BY <2>2, <2>4, <3>2, TransferPlaces
    <3>3. CASE Transfers(b, a, 2 + i, "rs")
      BY <2>2, <2>4, <3>3, TransferPlaces
    <3> QED
      BY <2>3, <3>1, <3>2, <3>3 DEF Meet
  <2>6. a[2 + i].op = "throw" \/ b[2 + i].op = "throw" => "throw" \in V
    BY <2>3, <2>4, MeetBounded
  <2> QED
    BY <1>4, <2>1, <2>5, <2>6
<1>7. ASSUME NEW i \in 3..Len(a)
      PROVE  /\ a[i].n > 0 /\ b[i].n > 0 /\ Place(a, b, i, "sr", "rs")
             /\ a[i].op = "throw" \/ b[i].op = "throw" => "throw" \in V
  <2>1. i - 2 \in 1..n /\ 2 + (i - 2) = i
    BY <1>4
  <2> QED
    BY <1>6, <2>1
<1>8. \A i \in 1..2 : a[i].op = "rot" /\ b[i].op = "rot" /\ a[i].dir = b[i].dir /\ a[i].n = b[i].n
  <2>1. \A i \in 1..2 : i = 1 \/ i = 2
    OBVIOUS
  <2> QED
    BY <1>5, <2>1 DEF Filling
<1>9. Woven(a, b, "sr", "rs")
  BY <1>4, <1>7, <1>8 DEF Woven
<1>10. Takes(a, "sr", x) /\ Takes(b, "sr", x) /\ Takes(a, "rs", y) /\ Takes(b, "rs", y)
  BY <1>1, <1>2, HeadTakes DEF Pair, Behind
<1>11. Bounded(a, V) /\ Bounded(b, V)
  <2>1. \A i \in 1..Len(a) : i \in 1..2 \/ i \in 3..Len(a)
    BY <1>4
  <2> QED
    BY <1>4, <1>7, <1>8, <2>1 DEF Bounded
<1>12. Whole(a, b, x, y, V)
  BY <1>5, <1>9, <1>10, <1>11 DEF Whole
<1> QED
  BY <1>2, <1>12 DEF Behind

LEMMA ScriptsFit ==
  ASSUME NEW P \in ParamSet
  PROVE  /\ Whole(ScriptOf[P][Alice], ScriptOf[P][Bob], InSr(P), InRs(P), Outcomes(P))
         /\ InSr(P) \in Nat /\ InRs(P) \in Nat
         /\ ~Suited(P) => Barred(ScriptOf[P][Bob])
<1>1. /\ Pair(SenderOnline(P), ReceiverOnline(P), InSr(P), InRs(P), Outcomes(P))
      /\ InSr(P) \in Nat /\ InRs(P) \in Nat
      /\ ~Suited(P) => Barred(ReceiverOnline(P))
  BY OnlineFits
<1>2. PICK x, y \in Nat : x = InSr(P) /\ y = InRs(P)
  BY <1>1
<1>3. PICK h \in Seq(Ops) :
        /\ h = Rot("sr", x) \o Rot("rs", y) /\ Len(h) = 2
        /\ Filling(h, 1, "sr", x) /\ Filling(h, 2, "rs", y)
  BY HeadIs
<1>4. Whole(h \o SenderOnline(P), h \o ReceiverOnline(P), x, y, Outcomes(P))
  BY <1>1, <1>2, <1>3, WholeIs
<1>5. Alice # Bob
  BY TcpAssumption
<1>6. ScriptOf[P][Alice] = h \o SenderOnline(P)
  BY <1>2, <1>3 DEF ScriptOf, Script, Parties, InSr, InRs
<1>7. ReceiverNumOTs(P).received = x /\ ReceiverNumOTs(P).sent = y
  BY <1>2 DEF InSr, InRs, SenderNumOTs, ReceiverNumOTs
<1>8. ScriptOf[P][Bob] = h \o ReceiverOnline(P)
  BY <1>3, <1>5, <1>7 DEF ScriptOf, Script, Parties
<1>9. ASSUME ~Suited(P) PROVE Barred(h \o ReceiverOnline(P))
  <2>1. PICK o \in Seq(Ops) : o = ReceiverOnline(P) /\ Barred(o)
    BY <1>1, <1>9 DEF Pair, Fits
  <2>2. Barred(h \o o)
    BY <2>1, BarredThen
  <2> QED
    BY <2>1, <2>2
<1> QED
  BY <1>1, <1>2, <1>4, <1>6, <1>8, <1>9

-----------------------------------------------------------------------------
\* The bytes that a script has written, or read, up to each place, and the OTs
\* that it has taken.
Amounts(s, op) == [i \in 1..Len(s) |-> IF s[i].op = op THEN s[i].n ELSE 0]
Upto(s, op) == CHOOSE F \in [0..Len(s) -> Nat] : RunningTotal(F, Amounts(s, op), Len(s))
Taken(s, c) == CHOOSE F \in [0..Len(s) -> Nat] : RunningTotal(F, Gets(s, c), Len(s))

Counts(F, f, n) == F \in [0..n -> Nat] /\ f \in [1..n -> Nat] /\ RunningTotal(F, f, n)

LEMMA NumberOf ==
  ASSUME NEW s \in Seq(Ops), NEW i \in 1..Len(s)
  PROVE  s[i].n \in Nat
<1>1. s[i] \in Ops
  OBVIOUS
<1> QED
  BY <1>1 DEF Ops

LEMMA UptoIs ==
  ASSUME NEW s \in Seq(Ops), NEW op
  PROVE  Counts(Upto(s, op), Amounts(s, op), Len(s))
<1>1. \A i \in 1..Len(s) : s[i].n \in Nat
  BY NumberOf
<1>2. Amounts(s, op) \in [1..Len(s) -> Nat]
  BY <1>1 DEF Amounts
<1>3. Len(s) \in Nat
  OBVIOUS
<1>4. \E F \in [0..Len(s) -> Nat] : RunningTotal(F, Amounts(s, op), Len(s))
  BY <1>2, <1>3, RunningTotals
<1> QED
  BY <1>2, <1>4 DEF Upto, Counts

LEMMA TakenIs ==
  ASSUME NEW s \in Seq(Ops), NEW c
  PROVE  Counts(Taken(s, c), Gets(s, c), Len(s))
<1>1. \A i \in 1..Len(s) : s[i].n \in Nat
  BY NumberOf
<1>2. Gets(s, c) \in [1..Len(s) -> Nat]
  BY <1>1 DEF Gets
<1>3. Len(s) \in Nat
  OBVIOUS
<1>4. \E F \in [0..Len(s) -> Nat] : RunningTotal(F, Gets(s, c), Len(s))
  BY <1>2, <1>3, RunningTotals
<1> QED
  BY <1>2, <1>4 DEF Taken, Counts

LEMMA CountsStep ==
  ASSUME NEW n \in Nat, NEW F, NEW f, Counts(F, f, n), NEW i \in 1..n
  PROVE  F[i] = F[i - 1] + f[i] /\ F[i] \in Nat /\ F[i - 1] \in Nat /\ f[i] \in Nat
BY DEF Counts, RunningTotal

LEMMA CountsGrow ==
  ASSUME NEW n \in Nat, NEW F, NEW f, Counts(F, f, n), NEW i \in 0..n, NEW j \in 0..i
  PROVE  F[j] <= F[i] /\ F[i] \in Nat /\ F[j] \in Nat
<1>1. F \in [0..n -> Nat] /\ RunningTotal(F, f, n) /\ \A k \in 1..n : f[k] \in Nat
  BY DEF Counts
<1>2. F[j] <= F[i]
  BY <1>1, TotalsGrow
<1>3. i \in 0..n /\ j \in 0..n
  OBVIOUS
<1>4. F[i] \in Nat /\ F[j] \in Nat
  BY <1>1, <1>3
<1> QED
  BY <1>2, <1>4

\* Where one reads while the other takes, the other writes next.
LEMMA SwapAt ==
  ASSUME NEW s, NEW r, NEW d, NEW e, Woven(s, r, d, e), NEW i \in 1..Len(s),
         r[i].op = "read", s[i].op = "get"
  PROVE  Swap(r, s, i, e) /\ i + 1 <= Len(s) /\ i >= 3
<1>1. i >= 3
  <2>1. i \notin 1..2
    BY DEF Woven
  <2> QED
    BY <2>1
<1>2. i \in 3..Len(s)
  BY <1>1
<1>3. Place(s, r, i, d, e)
  BY <1>2 DEF Woven
<1>4. i - 1 + 1 = i
  OBVIOUS
<1>5. /\ ~Message(s[i], r[i]) /\ ~Message(r[i], s[i]) /\ ~Judged(s[i], r[i], Verdicts)
      /\ ~Checked(s, r, i) /\ ~Swap(s, r, i, d)
  BY DEF Message, Judged, Verdicts, Checked, Swap
<1>6. ~Swap(s, r, i - 1, d) /\ ~Swap(r, s, i - 1, e)
  BY <1>4 DEF Swap
<1> QED
  BY <1>1, <1>3, <1>5, <1>6 DEF Place

\* What r has read, and s is about to write, at the place i.
Pending(r, s, i) == IF i >= 1 /\ r[i].op = "read" /\ s[i].op = "get" THEN r[i].n ELSE 0

LEMMA PendingType ==
  ASSUME NEW s, NEW r \in Seq(Ops), NEW i \in 0..Len(r)
  PROVE  Pending(r, s, i) \in Nat
<1>1. CASE i >= 1
  <2>1. i \in 1..Len(r)
    BY <1>1
  <2> QED
    BY <2>1, NumberOf DEF Pending
<1>2. CASE ~(i >= 1)
  BY <1>2 DEF Pending
<1> QED
  BY <1>1, <1>2

\* Behind such a place no other comes.
LEMMA PendingNext ==
  ASSUME NEW s, NEW r, NEW d, NEW e, Woven(s, r, d, e), NEW i \in 0..(Len(s) - 1)
  PROVE  \/ Pending(r, s, i) = 0 /\ ~(i >= 1 /\ r[i].op = "read" /\ s[i].op = "get")
         \/ i >= 3 /\ Swap(r, s, i, e) /\ Pending(r, s, i) = r[i].n
<1>1. CASE i >= 1 /\ r[i].op = "read" /\ s[i].op = "get"
  <2>1. i \in 1..Len(s)
    BY <1>1 DEF Woven
  <2>2. Swap(r, s, i, e) /\ i >= 3
    BY <1>1, <2>1, SwapAt
  <2> QED
    BY <1>1, <2>2 DEF Pending
<1>2. CASE ~(i >= 1 /\ r[i].op = "read" /\ s[i].op = "get")
  BY <1>2 DEF Pending
<1> QED
  BY <1>1, <1>2

LEMMA ReadsStep ==
  ASSUME NEW s, NEW r, NEW d, NEW e, Woven(s, r, d, e), NEW i \in 0..(Len(s) - 1),
         NEW j, j = i + 1
  PROVE  Amounts(r, "read")[j] + Pending(r, s, i) = Amounts(s, "write")[j] + Pending(r, s, j)
<1> SUFFICES (IF r[j].op = "read" THEN r[j].n ELSE 0) + Pending(r, s, i)
               = (IF s[j].op = "write" THEN s[j].n ELSE 0) + Pending(r, s, j)
  <2>1. j \in 1..Len(s) /\ j \in 1..Len(r)
    BY DEF Woven
  <2> QED
    BY <2>1 DEF Amounts
<1>0. j \in 1..Len(s) /\ j - 1 = i /\ Len(s) \in Nat /\ j >= 1 /\ j \in 1..Len(r)
  BY DEF Woven
<1>1. s[j].n \in Nat /\ r[j].n \in Nat
  <2>1. s[j] \in Ops /\ r[j] \in Ops
    BY <1>0 DEF Woven
  <2> QED
    BY <2>1 DEF Ops
<1>2. CASE i >= 3 /\ Swap(r, s, i, e) /\ Pending(r, s, i) = r[i].n
  <2>1. r[j].op = "get" /\ s[j].op = "write" /\ s[j].n = r[i].n
    BY <1>2 DEF Swap, Message
  <2>2. Pending(r, s, j) = 0
    BY <2>1 DEF Pending
  <2> QED
    BY <1>1, <1>2, <2>1, <2>2
<1>3. CASE Pending(r, s, i) = 0 /\ ~(i >= 1 /\ r[i].op = "read" /\ s[i].op = "get")
  <2>1. CASE j < 3
    <3>1. j \in 1..2
      BY <1>0, <2>1
    <3>2. r[j].op = "rot" /\ s[j].op = "rot"
      BY <3>1 DEF Woven
    <3>3. Pending(r, s, j) = 0
      BY <3>2 DEF Pending
    <3> QED
      BY <1>3, <3>2, <3>3
  <2>2. CASE j >= 3
    <3>1. j \in 3..Len(s)
      BY <1>0, <2>2
    <3>2. Place(s, r, j, d, e)
      BY <3>1 DEF Woven
    <3>3. CASE Message(s[j], r[j])
      BY <1>1, <1>3, <3>3 DEF Message, Pending
    <3>4. CASE Message(r[j], s[j])
      BY <1>1, <1>3, <3>4 DEF Message, Pending
    <3>5. CASE Checked(s, r, j)
      BY <1>1, <1>3, <3>5 DEF Checked, Pending
    <3>10. CASE Judged(s[j], r[j], Verdicts)
      BY <1>1, <1>3, <3>10 DEF Judged, Verdicts, Pending
    <3>6. CASE Swap(s, r, j, d)
      BY <1>1, <1>3, <3>6 DEF Swap, Pending
    <3>7. CASE Swap(s, r, j - 1, d)
      <4>1. s[j].op = "get" /\ r[j].op = "write"
        BY <1>0, <3>7 DEF Swap
      <4> QED
        BY <1>1, <1>3, <4>1 DEF Pending
    <3>8. CASE Swap(r, s, j, e)
      BY <1>0, <1>1, <1>3, <3>8 DEF Swap, Pending
    <3>9. ~(Swap(r, s, j - 1, e) /\ j - 1 >= 3)
      BY <1>0, <1>3 DEF Swap
    <3> QED
      BY <3>2, <3>3, <3>4, <3>5, <3>6, <3>7, <3>8, <3>9, <3>10 DEF Place
  <2> QED
    BY <1>0, <2>1, <2>2
<1> QED
  BY <1>2, <1>3, PendingNext

\* What r has read is what s has written, but for what is pending.
LEMMA ReadsFollow ==
  ASSUME NEW s, NEW r, NEW d, NEW e, Woven(s, r, d, e), NEW i \in 0..Len(s)
  PROVE  Upto(r, "read")[i] = Upto(s, "write")[i] + Pending(r, s, i)
<1>1. PICK L \in Nat : L = Len(s) /\ L = Len(r) /\ s \in Seq(Ops) /\ r \in Seq(Ops)
  BY DEF Woven
<1>2. PICK W, w : W = Upto(s, "write") /\ w = Amounts(s, "write") /\ Counts(W, w, L)
  BY <1>1, UptoIs
<1>3. PICK R, v : R = Upto(r, "read") /\ v = Amounts(r, "read") /\ Counts(R, v, L)
  BY <1>1, UptoIs
<1> DEFINE S == {k \in 0..L : R[k] = W[k] + Pending(r, s, k)}
<1>4. 0 \in S
  <2>1. R[0] = 0 /\ W[0] = 0
    BY <1>2, <1>3 DEF Counts, RunningTotal
  <2>2. Pending(r, s, 0) = 0
    BY DEF Pending
  <2> QED
    BY <2>1, <2>2
<1>5. ASSUME NEW k \in 0..(L - 1), k \in S PROVE k + 1 \in S
  <2>1. PICK j \in 1..L : j = k + 1 /\ j - 1 = k
    OBVIOUS
  <2>2. R[j] = R[j - 1] + v[j] /\ R[j - 1] \in Nat /\ v[j] \in Nat
    BY <1>3, CountsStep
  <2>3. W[j] = W[j - 1] + w[j] /\ W[j - 1] \in Nat /\ w[j] \in Nat
    BY <1>2, CountsStep
  <2>4. PICK x, y : x = Pending(r, s, k) /\ y = Pending(r, s, j)
    OBVIOUS
  <2>5. k \in 0..(Len(s) - 1)
    BY <1>1
  <2>6. v[j] + x = w[j] + y
    BY <1>2, <1>3, <2>1, <2>4, <2>5, ReadsStep
  <2>7. R[k] = W[k] + x
    BY <1>5, <2>4
  <2>8. x \in Nat /\ y \in Nat
    BY <1>1, <2>1, <2>4, PendingType
  <2>9. R[j] = W[j] + y
    <3>1. PICK rk, wk, p, q \in Nat : rk = R[j - 1] /\ wk = W[j - 1] /\ p = v[j] /\ q = w[j]
      BY <2>2, <2>3
    <3>2. rk = wk + x /\ p + x = q + y
      BY <2>1, <2>6, <2>7, <3>1
    <3>3. rk + p = (wk + q) + y
      BY <2>8, <3>2
    <3> QED
      BY <2>2, <2>3, <3>1, <3>3
  <2> QED
    BY <2>1, <2>4, <2>9
<1> HIDE DEF S
<1>6. 0..L \subseteq S
  BY Zenon, <1>4, <1>5, IntervalInduction
<1> QED
  BY <1>1, <1>2, <1>3, <1>6 DEF S

\* Every read has the write whose message it takes.
LEMMA ReadMeetsWrite ==
  ASSUME NEW s, NEW r, NEW d, NEW e, Woven(s, r, d, e), NEW i \in 1..Len(s), r[i].op = "read"
  PROVE  \E j \in 1..Len(s) :
           /\ Message(s[j], r[i])
           /\ Upto(s, "write")[j - 1] = Upto(r, "read")[i - 1]
<1>1. PICK L \in Nat : L = Len(s) /\ L = Len(r) /\ s \in Seq(Ops) /\ r \in Seq(Ops)
  BY DEF Woven
<1>2. PICK W, w : W = Upto(s, "write") /\ w = Amounts(s, "write") /\ Counts(W, w, L)
  BY <1>1, UptoIs
<1>3. PICK R : R = Upto(r, "read")
  OBVIOUS
<1>4. PICK k \in 0..(L - 1) : k = i - 1 /\ k + 1 = i
  BY <1>1
<1>5. i >= 3
  <2>1. i \notin 1..2
    BY DEF Woven
  <2> QED
    BY <2>1
<1>6. Place(s, r, i, d, e)
  BY <1>5 DEF Woven
<1>7. Pending(r, s, k) = 0
  <2> SUFFICES ASSUME k >= 3, Swap(r, s, k, e) PROVE FALSE
    BY <1>1, PendingNext
  <2>1. r[i].op = "get"
    BY <1>4 DEF Swap
  <2> QED
    BY <2>1
<1>8. R[k] = W[k]
  <2>0. k \in 0..Len(s)
    BY <1>1
  <2>1. R[k] = W[k] + Pending(r, s, k)
    BY <1>2, <1>3, <2>0, ReadsFollow
  <2>2. W[k] \in Nat
    BY <1>2 DEF Counts
  <2> QED
    BY <1>7, <2>1, <2>2
<1>9. CASE Message(s[i], r[i])
  BY <1>2, <1>3, <1>4, <1>8, <1>9
<1>10. CASE Swap(r, s, i, e) /\ i + 1 <= Len(s)
  <2>1. PICK j \in 1..L : j = i + 1 /\ j - 1 = i
    BY <1>1, <1>10
  <2>2. Message(s[j], r[i]) /\ s[i].op = "get"
    BY <1>10, <2>1 DEF Swap
  <2>3. W[i] = W[k]
    <3>1. W[i] = W[i - 1] + w[i] /\ W[i - 1] \in Nat
      BY <1>1, <1>2, CountsStep
    <3>2. w[i] = 0
      BY <1>2, <2>2 DEF Amounts
    <3>3. W[i - 1] = W[k]
      BY <1>4
    <3> QED
      BY <3>1, <3>2, <3>3
  <2>4. W[j - 1] = R[i - 1]
    BY <1>4, <1>8, <2>1, <2>3
  <2> QED
    BY <1>1, <1>2, <1>3, <2>2, <2>4
<1>11. ~Message(r[i], s[i]) /\ ~Judged(s[i], r[i], Verdicts) /\ ~Checked(s, r, i) /\ ~Swap(s, r, i, d)
  BY DEF Message, Judged, Verdicts, Checked, Swap
<1>12. ~Swap(s, r, i - 1, d) /\ ~Swap(r, s, i - 1, e)
  <2>1. i - 1 + 1 = i
    OBVIOUS
  <2> QED
    BY <2>1 DEF Swap
<1> QED
  BY <1>6, <1>9, <1>10, <1>11, <1>12 DEF Place

\* All that is written is read.
LEMMA AllIsRead ==
  ASSUME NEW s, NEW r, NEW d, NEW e, Woven(s, r, d, e)
  PROVE  Upto(s, "write")[Len(s)] = Upto(r, "read")[Len(s)]
<1>1. PICK L \in Nat : L = Len(s) /\ L >= 2 /\ s \in Seq(Ops) /\ r \in Seq(Ops)
  BY DEF Woven
<1>2. PICK W : W = Upto(s, "write")
  OBVIOUS
<1>3. W[L] \in Nat
  BY <1>1, <1>2, UptoIs DEF Counts
<1>4. Pending(r, s, L) = 0
  <2> SUFFICES ASSUME r[L].op = "read", s[L].op = "get" PROVE FALSE
    BY DEF Pending
  <2>1. L \in 1..Len(s)
    BY <1>1
  <2>2. L + 1 <= Len(s)
    BY <2>1, SwapAt
  <2> QED
    BY <1>1, <2>2
<1>5. L \in 0..Len(s)
  BY <1>1
<1>6. Upto(r, "read")[L] = W[L] + Pending(r, s, L)
  BY <1>2, <1>5, ReadsFollow
<1> QED
  BY <1>1, <1>2, <1>3, <1>4, <1>6

-----------------------------------------------------------------------------
\* The OTs that r has taken, and s is about to take, at the place i.
Ahead(s, r, i, c) ==
  IF i >= 1 /\ s[i].op = "read" /\ r[i].op = "get" /\ r[i].dir = c THEN r[i].n ELSE 0

LEMMA AheadType ==
  ASSUME NEW s, NEW r \in Seq(Ops), NEW i \in 0..Len(r), NEW c
  PROVE  Ahead(s, r, i, c) \in Nat
<1>1. CASE i >= 1
  <2>1. i \in 1..Len(r)
    BY <1>1
  <2> QED
    BY <2>1, NumberOf DEF Ahead
<1>2. CASE ~(i >= 1)
  BY <1>2 DEF Ahead
<1> QED
  BY <1>1, <1>2

\* At most one of the two is ahead, and it takes nothing more until the other has followed.
LEMMA AheadNext ==
  ASSUME NEW s, NEW r, NEW d, NEW e, Woven(s, r, d, e), NEW i \in 0..(Len(s) - 1), NEW c
  PROVE  \/ i >= 3 /\ Swap(s, r, i, d)
         \/ i >= 3 /\ Swap(r, s, i, e)
         \/ /\ Ahead(s, r, i, c) = 0 /\ Ahead(r, s, i, c) = 0
            /\ ~(i >= 1 /\ s[i].op = "read" /\ r[i].op = "get")
            /\ ~(i >= 1 /\ r[i].op = "read" /\ s[i].op = "get")
<1>1. CASE i >= 1 /\ s[i].op = "read" /\ r[i].op = "get"
  <2>1. i \in 1..Len(r)
    BY <1>1 DEF Woven
  <2>2. Woven(r, s, e, d)
    BY WovenBack
  <2>3. i >= 3 /\ Swap(s, r, i, d)
    BY <1>1, <2>1, <2>2, SwapAt, SMTT(30)
  <2> QED
    BY <2>3
<1>2. CASE i >= 1 /\ r[i].op = "read" /\ s[i].op = "get"
  <2>1. i \in 1..Len(s)
    BY <1>2 DEF Woven
  <2> QED
    BY <1>2, <2>1, SwapAt
<1>3. CASE /\ ~(i >= 1 /\ s[i].op = "read" /\ r[i].op = "get")
           /\ ~(i >= 1 /\ r[i].op = "read" /\ s[i].op = "get")
  BY <1>3 DEF Ahead
<1> QED
  BY <1>1, <1>2, <1>3

LEMMA TakesStep ==
  ASSUME NEW s, NEW r, NEW d, NEW e, Woven(s, r, d, e), NEW i \in 0..(Len(s) - 1),
         NEW j, j = i + 1, NEW c
  PROVE  Gets(s, c)[j] + Ahead(s, r, j, c) + Ahead(r, s, i, c)
           = Gets(r, c)[j] + Ahead(r, s, j, c) + Ahead(s, r, i, c)
<1>0. j \in 1..Len(s) /\ j - 1 = i /\ Len(s) \in Nat /\ j >= 1 /\ j \in 1..Len(r)
  BY DEF Woven
<1>1. s[j].n \in Nat /\ r[j].n \in Nat
  BY <1>0, NumberOf DEF Woven
<1> SUFFICES (IF s[j].op = "get" /\ s[j].dir = c THEN s[j].n ELSE 0) + Ahead(s, r, j, c) + Ahead(r, s, i, c)
               = (IF r[j].op = "get" /\ r[j].dir = c THEN r[j].n ELSE 0) + Ahead(r, s, j, c) + Ahead(s, r, i, c)
  BY <1>0 DEF Gets
<1>2. CASE i >= 3 /\ Swap(s, r, i, d)
  <2>1. /\ s[i].op = "read" /\ r[i].op = "get" /\ s[j].op = "get" /\ r[j].op = "write"
        /\ s[j].dir = r[i].dir /\ s[j].n = r[i].n
    BY <1>2 DEF Swap
  <2>2. Ahead(s, r, j, c) = 0 /\ Ahead(r, s, j, c) = 0 /\ Ahead(r, s, i, c) = 0
    BY <2>1 DEF Ahead
  <2>3. Ahead(s, r, i, c) = IF s[j].dir = c THEN s[j].n ELSE 0
    BY <1>2, <2>1 DEF Ahead
  <2> QED
    BY <1>1, <2>1, <2>2, <2>3
<1>3. CASE i >= 3 /\ Swap(r, s, i, e)
  <2>1. /\ r[i].op = "read" /\ s[i].op = "get" /\ r[j].op = "get" /\ s[j].op = "write"
        /\ r[j].dir = s[i].dir /\ r[j].n = s[i].n
    BY <1>3 DEF Swap
  <2>2. Ahead(r, s, j, c) = 0 /\ Ahead(s, r, j, c) = 0 /\ Ahead(s, r, i, c) = 0
    BY <2>1 DEF Ahead
  <2>3. Ahead(r, s, i, c) = IF r[j].dir = c THEN r[j].n ELSE 0
    BY <1>3, <2>1 DEF Ahead
  <2> QED
    BY <1>1, <2>1, <2>2, <2>3
<1>4. CASE /\ Ahead(s, r, i, c) = 0 /\ Ahead(r, s, i, c) = 0
           /\ ~(i >= 1 /\ s[i].op = "read" /\ r[i].op = "get")
           /\ ~(i >= 1 /\ r[i].op = "read" /\ s[i].op = "get")
  <2>1. CASE s[j].op # "get" /\ r[j].op # "get"
    BY <1>4, <2>1 DEF Ahead
  <2>2. CASE ~(s[j].op # "get" /\ r[j].op # "get")
    <3>1. j >= 3
      <4>1. j \notin 1..2
        BY <2>2 DEF Woven
      <4> QED
        BY <1>0, <4>1
    <3>2. Place(s, r, j, d, e)
      BY <1>0, <3>1 DEF Woven
    <3>3. ~Message(s[j], r[j]) /\ ~Message(r[j], s[j]) /\ ~Judged(s[j], r[j], Verdicts) /\ ~Checked(s, r, j)
      BY <2>2 DEF Message, Judged, Verdicts, Checked
    <3>4. ~(Swap(s, r, j - 1, d) /\ j - 1 >= 3) /\ ~(Swap(r, s, j - 1, e) /\ j - 1 >= 3)
      BY <1>0, <1>4 DEF Swap
    <3>5. CASE Swap(s, r, j, d)
      BY <1>0, <1>1, <1>4, <3>5 DEF Swap, Ahead
    <3>6. CASE Swap(r, s, j, e)
      BY <1>0, <1>1, <1>4, <3>6 DEF Swap, Ahead
    <3> QED
      BY <3>2, <3>3, <3>4, <3>5, <3>6 DEF Place
  <2> QED
    BY <2>1, <2>2
<1> QED
  BY <1>2, <1>3, <1>4, AheadNext

LEMMA TakesFollow ==
  ASSUME NEW s, NEW r, NEW d, NEW e, Woven(s, r, d, e), NEW i \in 0..Len(s), NEW c
  PROVE  Taken(s, c)[i] + Ahead(s, r, i, c) = Taken(r, c)[i] + Ahead(r, s, i, c)
<1>1. PICK L \in Nat : L = Len(s) /\ L = Len(r) /\ s \in Seq(Ops) /\ r \in Seq(Ops)
  BY DEF Woven
<1>2. PICK W, w : W = Taken(s, c) /\ w = Gets(s, c) /\ Counts(W, w, L)
  BY <1>1, TakenIs
<1>3. PICK R, v : R = Taken(r, c) /\ v = Gets(r, c) /\ Counts(R, v, L)
  BY <1>1, TakenIs
<1> DEFINE S == {k \in 0..L : W[k] + Ahead(s, r, k, c) = R[k] + Ahead(r, s, k, c)}
<1>4. 0 \in S
  <2>1. R[0] = 0 /\ W[0] = 0
    BY <1>2, <1>3 DEF Counts, RunningTotal
  <2>2. Ahead(s, r, 0, c) = 0 /\ Ahead(r, s, 0, c) = 0
    BY DEF Ahead
  <2> QED
    BY <2>1, <2>2
<1>5. ASSUME NEW k \in 0..(L - 1), k \in S PROVE k + 1 \in S
  <2>1. PICK j \in 1..L : j = k + 1 /\ j - 1 = k
    OBVIOUS
  <2>2. R[j] = R[j - 1] + v[j] /\ R[j - 1] \in Nat /\ v[j] \in Nat
    BY <1>3, CountsStep
  <2>3. W[j] = W[j - 1] + w[j] /\ W[j - 1] \in Nat /\ w[j] \in Nat
    BY <1>2, CountsStep
  <2>4. PICK x, y : x = Ahead(s, r, k, c) /\ y = Ahead(s, r, j, c)
    OBVIOUS
  <2>5. PICK z, u : z = Ahead(r, s, k, c) /\ u = Ahead(r, s, j, c)
    OBVIOUS
  <2>6. k \in 0..(Len(s) - 1)
    BY <1>1
  <2>7. w[j] + y + z = v[j] + u + x
    BY <1>2, <1>3, <2>1, <2>4, <2>5, <2>6, TakesStep
  <2>8. W[k] + x = R[k] + z
    BY <1>5, <2>4, <2>5
  <2>9. x \in Nat /\ y \in Nat /\ z \in Nat /\ u \in Nat
    <3>1. k \in 0..Len(s) /\ j \in 0..Len(s) /\ k \in 0..Len(r) /\ j \in 0..Len(r)
      BY <1>1, <2>1
    <3>2. x \in Nat /\ y \in Nat
      BY <1>1, <2>4, <3>1, AheadType
    <3>3. z \in Nat /\ u \in Nat
      BY <1>1, <2>5, <3>1, AheadType
    <3> QED
      BY <3>2, <3>3
  <2>10. W[j] + y = R[j] + u
    <3>1. PICK rk, wk, p, q \in Nat : rk = R[j - 1] /\ wk = W[j - 1] /\ p = v[j] /\ q = w[j]
      BY <2>2, <2>3
    <3>2. wk + x = rk + z /\ q + y + z = p + u + x
      BY <2>1, <2>7, <2>8, <3>1
    <3>3. (wk + q) + y = (rk + p) + u
      BY <2>9, <3>2
    <3> QED
      BY <2>2, <2>3, <3>1, <3>3
  <2> QED
    BY <2>1, <2>4, <2>5, <2>10
<1> HIDE DEF S
<1>6. 0..L \subseteq S
  BY Zenon, <1>4, <1>5, IntervalInduction
<1> QED
  BY <1>1, <1>2, <1>3, <1>6 DEF S

-----------------------------------------------------------------------------
\* What a script takes in all, and no more than that at any place.
LEMMA TakenInAll ==
  ASSUME NEW s \in Seq(Ops), NEW c, NEW m, Takes(s, c, m)
  PROVE  Taken(s, c)[Len(s)] = m /\ m \in Nat
<1>1. Len(s) \in Nat /\ Counts(Taken(s, c), Gets(s, c), Len(s))
  BY TakenIs
<1>2. PICK F \in [0..Len(s) -> Nat] : RunningTotal(F, Gets(s, c), Len(s)) /\ F[Len(s)] = m
  BY DEF Takes
<1>3. PICK G \in [0..Len(s) -> Nat] : G = Taken(s, c) /\ RunningTotal(G, Gets(s, c), Len(s))
  BY <1>1 DEF Counts
<1>4. Len(s) \in 0..Len(s)
  BY <1>1
<1>5. F[Len(s)] = G[Len(s)]
  BY <1>1, <1>2, <1>3, <1>4, TotalsUnique
<1> QED
  BY <1>2, <1>3, <1>4, <1>5

\* The OTs that are checked for are among them.
LEMMA CheckedFits ==
  ASSUME NEW s, NEW r, NEW d, NEW e, Woven(s, r, d, e), NEW i \in 1..Len(s), s[i].op = "check",
         NEW c, c = s[i].dir
  PROVE  Taken(s, c)[i - 1] + s[i].n <= Taken(s, c)[Len(s)]
<1>1. PICK L \in Nat : L = Len(s) /\ s \in Seq(Ops)
  BY DEF Woven
<1>2. PICK G, g : G = Taken(s, c) /\ g = Gets(s, c) /\ Counts(G, g, L)
  BY <1>1, TakenIs
<1>3. i >= 3
  <2>1. i \notin 1..2
    BY DEF Woven
  <2> QED
    BY <2>1
<1>4. Checked(s, r, i) /\ i + 2 <= L
  <2>1. Place(s, r, i, d, e)
    BY <1>3 DEF Woven
  <2>2. i - 1 + 1 = i
    OBVIOUS
  <2>3. ~Swap(s, r, i, d) /\ ~Swap(s, r, i - 1, d) /\ ~Swap(r, s, i, e) /\ ~Swap(r, s, i - 1, e)
    BY <2>2 DEF Swap
  <2>4. ~Message(s[i], r[i]) /\ ~Message(r[i], s[i]) /\ ~Judged(s[i], r[i], Verdicts)
    BY DEF Message, Judged, Verdicts
  <2> QED
    BY <1>1, <2>1, <2>3, <2>4 DEF Place
<1>5. PICK j \in {i + 1, i + 2} : s[j].op = "get" /\ s[j].dir = c /\ s[j].n = s[i].n
  BY <1>4 DEF Checked
<1>6. j \in 1..L /\ j \in 0..L /\ L \in 0..L /\ j \in 0..L /\ j - 1 \in 0..L /\ i - 1 \in 0..(j - 1)
  BY <1>1, <1>4, <1>5
<1>7. G[j] = G[j - 1] + g[j] /\ G[j] <= G[L] /\ G[i - 1] <= G[j - 1]
      /\ G[j - 1] \in Nat /\ G[L] \in Nat /\ G[i - 1] \in Nat
  <2>1. G[j] = G[j - 1] + g[j]
    BY <1>2, <1>6, CountsStep
  <2>2. j \in 0..L /\ L \in 0..L
    BY <1>6
  <2>3. G[j] <= G[L] /\ G[L] \in Nat
    BY <1>2, <2>2, CountsGrow
  <2>4. G[i - 1] <= G[j - 1] /\ G[i - 1] \in Nat /\ G[j - 1] \in Nat
    BY <1>2, <1>6, CountsGrow
  <2> QED
    BY <2>1, <2>3, <2>4
<1>8. g[j] = s[i].n /\ s[i].n \in Nat
  BY <1>1, <1>2, <1>5, <1>6, NumberOf DEF Gets
<1> QED
  BY <1>1, <1>2, <1>7, <1>8

\* The place of a byte.
LEMMA PlaceOf ==
  ASSUME NEW n \in Nat, NEW F, NEW f, Counts(F, f, n), NEW y \in Nat, y < F[n]
  PROVE  \E i \in 1..n : F[i - 1] <= y /\ y < F[i] /\ f[i] > 0
<1> DEFINE S == {i \in 0..n : F[i] <= y}
<1>1. 0 \in S
  BY DEF Counts, RunningTotal
<1>2. PICK k \in S : \A z \in S : k >= z
  <2>1. S \in SUBSET (0..n) /\ S # {}
    BY <1>1
  <2> HIDE DEF S
  <2> QED
    BY <2>1, LargestExists
<1>3. F[k] <= y /\ k \in 0..n /\ F[n] \in Nat
  BY DEF Counts
<1>4. k # n
  BY <1>3
<1>5. PICK i \in 1..n : i = k + 1 /\ i - 1 = k
  BY <1>3, <1>4
<1>6. F[i] = F[i - 1] + f[i] /\ F[i] \in Nat /\ F[i - 1] \in Nat /\ f[i] \in Nat
  BY CountsStep
<1>7. i \notin S
  BY <1>2, <1>5
<1>8. y < F[i]
  BY <1>6, <1>7
<1>9. F[i - 1] <= y
  BY <1>3, <1>5
<1> QED
  BY <1>6, <1>8, <1>9

-----------------------------------------------------------------------------
\* Where a party is in its script, and what it has written or read there.
Where(s, k, m) ==
  /\ k \in 0..Len(s) /\ m \in Nat
  /\ m # 0 => /\ k < Len(s) /\ s[k + 1].op \in {"read", "write", "rot"}
              /\ s[k + 1].op # "rot" => m < s[k + 1].n

Done(s, op, k, m) == Upto(s, op)[k] + (IF k < Len(s) /\ s[k + 1].op = op THEN m ELSE 0)

\* The place after one more byte.
After(s, k, m, j, n) ==
  \/ m + 1 = s[k + 1].n /\ j = k + 1 /\ n = 0
  \/ m + 1 # s[k + 1].n /\ j = k /\ n = m + 1

LEMMA DoneType ==
  ASSUME NEW s \in Seq(Ops), NEW k, NEW m, Where(s, k, m), NEW op
  PROVE  Done(s, op, k, m) \in Nat /\ Upto(s, op)[k] <= Done(s, op, k, m)
<1>1. Upto(s, op)[k] \in Nat
  BY UptoIs DEF Where, Counts
<1> QED
  BY <1>1 DEF Done, Where

\* What is done is all that lies before, and nothing of what lies ahead.
LEMMA DoneBefore ==
  ASSUME NEW s \in Seq(Ops), NEW k, NEW m, Where(s, k, m), NEW op, NEW i \in 0..Len(s), i <= k
  PROVE  Upto(s, op)[i] <= Done(s, op, k, m)
<1>1. PICK F, f : F = Upto(s, op) /\ Counts(F, f, Len(s)) /\ Len(s) \in Nat
  BY UptoIs
<1>2. k \in 0..Len(s) /\ i \in 0..k
  BY DEF Where
<1>3. F[i] <= F[k] /\ F[i] \in Nat /\ F[k] \in Nat
  BY <1>1, <1>2, CountsGrow
<1> QED
  BY <1>1, <1>3, DoneType

LEMMA DoneAhead ==
  ASSUME NEW s \in Seq(Ops), NEW k, NEW m, Where(s, k, m), NEW op \in {"read", "write"},
         NEW i \in 1..Len(s), s[i].op = op, s[i].n > 0, k < i
  PROVE  Done(s, op, k, m) < Upto(s, op)[i]
<1>1. PICK F, f : F = Upto(s, op) /\ f = Amounts(s, op) /\ Counts(F, f, Len(s)) /\ Len(s) \in Nat
  BY UptoIs
<1>2. PICK j \in 1..Len(s) : j = k + 1 /\ j - 1 = k
  BY <1>1 DEF Where
<1>3. F[i] = F[i - 1] + f[i] /\ F[i] \in Nat /\ F[i - 1] \in Nat /\ f[i] = s[i].n /\ s[i].n \in Nat
  BY <1>1, CountsStep, NumberOf DEF Amounts
<1>4. F[j] = F[k] + f[j] /\ F[j] \in Nat /\ F[k] \in Nat /\ f[j] \in Nat
  BY <1>1, <1>2, CountsStep
<1>5. CASE s[j].op = op /\ m # 0
  <2>1. f[j] = s[j].n /\ s[j].n \in Nat
    BY <1>1, <1>5, NumberOf DEF Amounts
  <2>2. Done(s, op, k, m) = F[k] + m /\ m \in Nat /\ m < s[j].n
    BY <1>1, <1>2, <1>5 DEF Done, Where
  <2>3. j \in 0..i /\ i \in 0..Len(s)
    BY <1>1, <1>2
  <2>4. F[j] <= F[i]
    BY <1>1, <2>3, CountsGrow
  <2>5. PICK a, b, c \in Nat : a = F[k] /\ b = F[j] /\ c = F[i]
    BY <1>3, <1>4
  <2>6. PICK z, l \in Nat : z = s[j].n /\ l = m /\ b = a + z /\ l < z
    BY <1>4, <2>1, <2>2, <2>5
  <2>7. a + l < c
    <3>1. b <= c
      BY <2>4, <2>5
    <3> QED
      BY <2>6, <3>1
  <2> QED
    BY <1>1, <2>2, <2>5, <2>6, <2>7
<1>6. CASE s[j].op # op \/ m = 0
  <2>1. Done(s, op, k, m) = F[k]
    BY <1>1, <1>2, <1>4, <1>6 DEF Done
  <2>2. F[k] <= F[i - 1]
    <3>1. i - 1 \in 0..Len(s) /\ k \in 0..(i - 1)
      BY <1>1, <1>2
    <3> QED
      BY <1>1, <3>1, CountsGrow
  <2> QED
    BY <1>1, <1>3, <1>4, <2>1, <2>2
<1> QED
  BY <1>5, <1>6

\* One more byte read or written.
LEMMA ByteDone ==
  ASSUME NEW s \in Seq(Ops), NEW k, NEW m, Where(s, k, m), k < Len(s), NEW o \in {"read", "write"},
         s[k + 1].op = o, s[k + 1].n > 0, NEW j, NEW n, After(s, k, m, j, n)
  PROVE  /\ Where(s, j, n)
         /\ Done(s, o, j, n) = Done(s, o, k, m) + 1
         /\ \A a \in {"read", "write"} : a # o => Done(s, a, j, n) = Done(s, a, k, m)
         /\ \A c : Taken(s, c)[j] = Taken(s, c)[k]
<1>1. PICK i \in 1..Len(s) : i = k + 1 /\ i - 1 = k /\ s[i].n \in Nat /\ Len(s) \in Nat
  BY NumberOf DEF Where
<1>2. k \in Nat /\ m \in Nat /\ (m = 0 \/ m < s[i].n)
  BY <1>1 DEF Where
<1>3. Where(s, j, n)
  BY <1>1, <1>2 DEF Where, After
<1>4. ASSUME NEW a \in {"read", "write"}
      PROVE  /\ Upto(s, a)[i] = Upto(s, a)[k] + (IF s[i].op = a THEN s[i].n ELSE 0)
             /\ Upto(s, a)[k] \in Nat
  <2>1. PICK F, f : F = Upto(s, a) /\ f = Amounts(s, a) /\ Counts(F, f, Len(s))
    BY UptoIs
  <2>2. F[i] = F[i - 1] + f[i] /\ F[i - 1] \in Nat
    BY <1>1, <2>1, CountsStep
  <2>3. f[i] = IF s[i].op = a THEN s[i].n ELSE 0
    BY <1>1, <2>1 DEF Amounts
  <2> QED
    BY <1>1, <2>1, <2>2, <2>3
<1>5. Done(s, o, k, m) = Upto(s, o)[k] + m
  BY DEF Done
<1>6. ASSUME NEW a \in {"read", "write"}, a # o PROVE Done(s, a, k, m) = Upto(s, a)[k]
  BY <1>4, <1>6 DEF Done
<1>7. CASE m + 1 = s[i].n /\ j = i /\ n = 0
  <2>1. \A a \in {"read", "write"} : Done(s, a, j, n) = Upto(s, a)[i]
    <3>1. \A a \in {"read", "write"} : Upto(s, a)[i] \in Nat
      BY <1>1, <1>4
    <3> QED
      BY <1>7, <3>1 DEF Done
  <2>2. Done(s, o, j, n) = Done(s, o, k, m) + 1
    <3>1. PICK a, z \in Nat : a = Upto(s, o)[k] /\ z = s[i].n
      BY <1>1, <1>4
    <3>2. Upto(s, o)[i] = a + z /\ m + 1 = z
      BY <1>1, <1>4, <1>7, <3>1
    <3>3. Done(s, o, j, n) = a + (m + 1) /\ Done(s, o, k, m) = a + m
      BY <1>5, <2>1, <3>1, <3>2
    <3> QED
      BY <1>2, <3>1, <3>3
  <2>3. \A a \in {"read", "write"} : a # o => Done(s, a, j, n) = Done(s, a, k, m)
    BY <1>1, <1>4, <1>6, <2>1
  <2>4. ASSUME NEW c PROVE Taken(s, c)[j] = Taken(s, c)[k]
    <3>1. PICK F, f : F = Taken(s, c) /\ f = Gets(s, c) /\ Counts(F, f, Len(s))
      BY TakenIs
    <3>2. F[i] = F[i - 1] + f[i] /\ F[i - 1] \in Nat
      BY <1>1, <3>1, CountsStep
    <3>3. f[i] = 0
      BY <1>1, <3>1 DEF Gets
    <3> QED
      BY <1>1, <1>7, <3>1, <3>2, <3>3
  <2> QED
    BY <1>3, <2>2, <2>3, <2>4
<1>8. CASE m + 1 # s[i].n /\ j = k /\ n = m + 1
  <2>1. Done(s, o, j, n) = Upto(s, o)[k] + (m + 1)
    BY <1>8 DEF Done
  <2>2. Done(s, o, j, n) = Done(s, o, k, m) + 1
    BY <1>2, <1>4, <1>5, <2>1, SMTT(30)
  <2>3. \A a \in {"read", "write"} : a # o => Done(s, a, j, n) = Done(s, a, k, m)
    <3>1. ASSUME NEW a \in {"read", "write"}, a # o PROVE Done(s, a, j, n) = Upto(s, a)[k]
      BY <1>4, <1>8, <3>1 DEF Done
    <3> QED
      BY <1>6, <3>1
  <2> QED
    BY <1>3, <1>8, <2>2, <2>3
<1> QED
  BY <1>1, <1>7, <1>8 DEF After

\* A step in, or past, an operation that neither reads nor writes.
LEMMA StepDone ==
  ASSUME NEW s \in Seq(Ops), NEW k, NEW m, Where(s, k, m), k < Len(s),
         s[k + 1].op \notin {"read", "write"}
  PROVE  /\ s[k + 1].op # "rot" => m = 0
         /\ Where(s, k + 1, 0)
         /\ \A a \in {"read", "write"} : Done(s, a, k + 1, 0) = Done(s, a, k, m)
         /\ \A a \in {"read", "write"} : \A v \in Nat : Done(s, a, k, v) = Done(s, a, k, m)
<1>1. PICK i \in 1..Len(s) : i = k + 1 /\ i - 1 = k /\ s[i].n \in Nat /\ Len(s) \in Nat
  BY NumberOf DEF Where
<1>2. (s[k + 1].op # "rot" => m = 0) /\ k \in Nat
  BY DEF Where
<1>3. Where(s, i, 0)
  BY <1>1 DEF Where
<1>4. ASSUME NEW a \in {"read", "write"}
      PROVE  /\ Done(s, a, i, 0) = Done(s, a, k, m)
             /\ \A v \in Nat : Done(s, a, k, v) = Done(s, a, k, m)
  <2>1. PICK F, f : F = Upto(s, a) /\ f = Amounts(s, a) /\ Counts(F, f, Len(s))
    BY UptoIs
  <2>2. F[i] = F[i - 1] + f[i] /\ F[i - 1] \in Nat
    BY <1>1, <2>1, CountsStep
  <2>3. f[i] = 0
    BY <1>1, <2>1 DEF Amounts
  <2> QED
    BY <1>1, <2>1, <2>2, <2>3 DEF Done
<1> QED
  BY <1>1, <1>2, <1>3, <1>4

LEMMA StepTaken ==
  ASSUME NEW s \in Seq(Ops), NEW k \in 0..(Len(s) - 1), NEW c
  PROVE  /\ Taken(s, c)[k] \in Nat
         /\ Taken(s, c)[k + 1] = Taken(s, c)[k] + Gets(s, c)[k + 1]
<1>0. PICK L \in Nat : L = Len(s)
  OBVIOUS
<1>1. PICK i \in 1..L : i = k + 1 /\ i - 1 = k
  BY <1>0
<1>2. PICK F, f : F = Taken(s, c) /\ f = Gets(s, c) /\ Counts(F, f, L)
  BY <1>0, TakenIs
<1>3. F[i] = F[i - 1] + f[i] /\ F[i - 1] \in Nat
  BY <1>2, CountsStep
<1> QED
  BY <1>1, <1>2, <1>3

-----------------------------------------------------------------------------
\* The bytes of a stream of which c were read: each is of the message of its place.
Carried(s, c, t) ==
  \A x \in 1..Len(t) : \A j \in 1..Len(s) :
    s[j].op = "write" /\ Upto(s, "write")[j - 1] < c + x /\ c + x <= Upto(s, "write")[j]
      => t[x] = <<s[j].tag, (c + x) - Upto(s, "write")[j - 1]>>

LEMMA CarriedHeard ==
  ASSUME NEW s, NEW c \in Nat, NEW A, NEW t \in Seq(A), t # <<>>, Carried(s, c, t)
  PROVE  Carried(s, c + 1, Tail(t)) /\ Tail(t) \in Seq(A) /\ Len(Tail(t)) = Len(t) - 1 /\ Len(t) \in Nat \ {0}
<1>1. /\ Tail(t) \in Seq(A) /\ Len(Tail(t)) = Len(t) - 1 /\ Len(t) \in Nat \ {0}
      /\ \A x \in 1..(Len(t) - 1) : Tail(t)[x] = t[x + 1]
  <2>1. Len(t) \in Nat \ {0}
    BY EmptySeq
  <2> QED
    BY <2>1, HeadTailProperties
<1>2. ASSUME NEW x \in 1..Len(Tail(t)), NEW j \in 1..Len(s), s[j].op = "write",
             Upto(s, "write")[j - 1] < (c + 1) + x, (c + 1) + x <= Upto(s, "write")[j]
      PROVE  Tail(t)[x] = <<s[j].tag, ((c + 1) + x) - Upto(s, "write")[j - 1]>>
  <2>1. PICK y \in 1..Len(t) : y = x + 1 /\ c + y = (c + 1) + x
    BY <1>1
  <2>2. t[y] = <<s[j].tag, (c + y) - Upto(s, "write")[j - 1]>>
    BY <1>2, <2>1 DEF Carried
  <2> QED
    BY <1>1, <2>1, <2>2
<1>3. Carried(s, c + 1, Tail(t))
  BY <1>2 DEF Carried
<1> QED
  BY <1>1, <1>3

LEMMA CarriedWritten ==
  ASSUME NEW s \in Seq(Ops), NEW c \in Nat, NEW A, NEW t \in Seq(A), Carried(s, c, t),
         NEW k, NEW m, Where(s, k, m), k < Len(s), s[k + 1].op = "write", s[k + 1].n > 0,
         c + Len(t) = Done(s, "write", k, m), NEW b \in A, b = <<s[k + 1].tag, m + 1>>
  PROVE  Carried(s, c, Append(t, b)) /\ Append(t, b) \in Seq(A) /\ Len(Append(t, b)) = Len(t) + 1
<1>1. PICK u : u = Append(t, b)
  OBVIOUS
<1>2. /\ u \in Seq(A) /\ Len(u) = Len(t) + 1 /\ Len(t) \in Nat
      /\ u[Len(t) + 1] = b /\ \A x \in 1..Len(t) : u[x] = t[x]
  BY <1>1, AppendProperties
<1>3. PICK i \in 1..Len(s) : i = k + 1 /\ i - 1 = k /\ Len(s) \in Nat
  <2>1. k \in Nat /\ Len(s) \in Nat
    BY DEF Where
  <2> QED
    BY <2>1
<1>4. PICK W, w : W = Upto(s, "write") /\ w = Amounts(s, "write") /\ Counts(W, w, Len(s))
  BY UptoIs
<1>5. W[i] = W[k] + s[i].n /\ W[k] \in Nat /\ W[i] \in Nat /\ s[i].n \in Nat
  <2>1. W[i] = W[i - 1] + w[i] /\ W[i] \in Nat /\ W[i - 1] \in Nat
    BY <1>3, <1>4, CountsStep, SMTT(30)
  <2>2. w[i] = s[i].n
    BY <1>3, <1>4 DEF Amounts
  <2>3. s[i].n \in Nat /\ i - 1 = k
    BY <1>3, NumberOf
  <2> QED
    BY <2>1, <2>2, <2>3
<1>6. c + Len(t) = W[k] + m /\ m \in Nat /\ m < s[i].n
  BY <1>3, <1>4, <1>5 DEF Done, Where
<1>61. PICK l, a, z \in Nat : l = Len(t) /\ a = W[k] /\ z = s[i].n
  BY <1>2, <1>5
<1>62. c + l = a + m /\ m \in Nat /\ m < z
  BY <1>6, <1>61
<1>7. ASSUME NEW j \in 1..Len(s), W[j - 1] < c + (Len(t) + 1), c + (Len(t) + 1) <= W[j]
      PROVE  j = i
  <2>1. W[j - 1] \in Nat /\ W[j] \in Nat
    BY <1>3, <1>4, CountsStep
  <2>2. CASE j < i
    <3>1. j \in 0..k /\ k \in 0..Len(s)
      BY <1>3, <2>2
    <3>2. W[j] <= W[k]
      BY <1>3, <1>4, <3>1, CountsGrow
    <3>3. PICK v \in Nat : v = W[j]
      BY <2>1
    <3>4. c + (l + 1) <= v /\ v <= a
      BY <1>7, <1>61, <3>2, <3>3
    <3> QED
      BY <1>62, <3>4
  <2>3. CASE i < j
    <3>1. i \in 0..(j - 1) /\ j - 1 \in 0..Len(s)
      BY <1>3, <2>3
    <3>2. W[i] <= W[j - 1]
      BY <1>3, <1>4, <3>1, CountsGrow
    <3>3. PICK y, v \in Nat : y = W[j - 1] /\ v = W[i]
      BY <1>5, <2>1
    <3>4. v = a + z /\ m < z /\ y < c + (l + 1) /\ v <= y
      BY <1>5, <1>6, <1>7, <1>61, <3>2, <3>3
    <3> QED
      BY <1>62, <3>4
  <2> QED
    BY <1>3, <2>2, <2>3
<1>8. ASSUME NEW x \in 1..Len(u), NEW j \in 1..Len(s), s[j].op = "write",
             W[j - 1] < c + x, c + x <= W[j]
      PROVE  u[x] = <<s[j].tag, (c + x) - W[j - 1]>>
  <2>1. CASE x \in 1..Len(t)
    BY <1>2, <1>4, <1>8, <2>1 DEF Carried
  <2>2. CASE x = Len(t) + 1
    <3>1. j = i
      BY <1>7, <1>8, <2>2
    <3>2. (c + x) - W[k] = m + 1
      <4>1. (c + (l + 1)) - a = m + 1
        BY <1>62
      <4> QED
        BY <1>61, <2>2, <4>1
    <3> QED
      BY <1>2, <1>3, <2>2, <3>1, <3>2
  <2> QED
    BY <1>2, <2>1, <2>2
<1>9. Carried(s, c, u)
  BY <1>4, <1>8 DEF Carried
<1> QED
  BY <1>1, <1>2, <1>9

-----------------------------------------------------------------------------
\* The inductive invariant.  Where a party is, and the OTs left to it there.
Unbarred(s, k) == \A i \in 1..k : s[i].op # "throw"

Stands(s, k, m, f, l, x, y) ==
  /\ Where(s, k, m) /\ Unbarred(s, k)
  /\ f["sr"] = IF k >= 1 THEN x - Taken(s, "sr")[k] ELSE 0
  /\ f["rs"] = IF k >= 2 THEN y - Taken(s, "rs")[k] ELSE 0
  /\ l = "closed" => k = Len(s)

\* The stream t of the bytes that s has written and r has not read; some are
\* lost only when the reader is gone.
Wire == Tags \X Nat
Flows(s, r, k, m, i, n, t, gone) ==
  /\ t \in Seq(Wire)
  /\ Done(r, "read", i, n) + Len(t) <= Done(s, "write", k, m)
  /\ ~gone => Done(r, "read", i, n) + Len(t) = Done(s, "write", k, m)
  /\ Carried(s, Done(r, "read", i, n), t)

LEMMA FlowWrites ==
  ASSUME NEW s \in Seq(Ops), NEW r \in Seq(Ops), NEW k, NEW m, NEW i, NEW n, NEW t, NEW gone \in BOOLEAN,
         Flows(s, r, k, m, i, n, t, gone), Where(s, k, m), Where(r, i, n),
         k < Len(s), s[k + 1].op = "write", s[k + 1].n > 0, NEW j, NEW v, After(s, k, m, j, v),
         NEW u, (gone /\ u = t) \/ (~gone /\ u = Append(t, <<s[k + 1].tag, m + 1>>))
  PROVE  Flows(s, r, j, v, i, n, u, gone)
<1>1. PICK a, b \in Nat : a = Done(r, "read", i, n) /\ b = Done(s, "write", k, m)
  BY DoneType
<1>2. Done(s, "write", j, v) = b + 1
  BY <1>1, ByteDone
<1>3. t \in Seq(Wire) /\ Len(t) \in Nat /\ a + Len(t) <= b /\ (~gone => a + Len(t) = b) /\ Carried(s, a, t)
  BY <1>1 DEF Flows
<1>4. CASE gone /\ u = t
  <2>1. a + Len(u) <= b + 1
    BY <1>3, <1>4
  <2> QED
    BY <1>1, <1>2, <1>3, <1>4, <2>1 DEF Flows
<1>5. CASE ~gone /\ u = Append(t, <<s[k + 1].tag, m + 1>>)
  <2>1. PICK e \in Wire : e = <<s[k + 1].tag, m + 1>>
    <3>1. k + 1 \in 1..Len(s) /\ m + 1 \in Nat
      BY DEF Where
    <3>2. s[k + 1] \in Ops
      BY <3>1
    <3>3. s[k + 1].tag \in Tags
      BY <3>2 DEF Ops
    <3> QED
      BY <3>1, <3>3 DEF Wire
  <2>2. Carried(s, a, u) /\ u \in Seq(Wire) /\ Len(u) = Len(t) + 1
    BY <1>1, <1>3, <1>5, <2>1, CarriedWritten
  <2>3. a + Len(u) = b + 1
    <3>1. PICK c, d \in Nat : c = Len(t) /\ d = Len(u) /\ a + c = b /\ d = c + 1
      BY <1>3, <1>5, <2>2
    <3>2. a + d = b + 1
      BY <3>1
    <3> QED
      BY <3>1, <3>2
  <2>4. a + Len(u) <= b + 1
    BY <1>1, <2>3
  <2> QED
    BY <1>1, <1>2, <2>2, <2>3, <2>4 DEF Flows
<1> QED
  BY <1>4, <1>5

LEMMA FlowReads ==
  ASSUME NEW s \in Seq(Ops), NEW r \in Seq(Ops), NEW k, NEW m, NEW i, NEW n, NEW t, NEW gone \in BOOLEAN,
         Flows(s, r, k, m, i, n, t, gone), Where(s, k, m), Where(r, i, n),
         i < Len(r), r[i + 1].op = "read", r[i + 1].n > 0, NEW j, NEW v, After(r, i, n, j, v), t # <<>>
  PROVE  Flows(s, r, k, m, j, v, Tail(t), gone)
<1>1. PICK a, b \in Nat : a = Done(r, "read", i, n) /\ b = Done(s, "write", k, m)
  BY DoneType
<1>2. Done(r, "read", j, v) = a + 1
  BY <1>1, ByteDone
<1>3. t \in Seq(Wire) /\ Len(t) \in Nat /\ a + Len(t) <= b /\ (~gone => a + Len(t) = b) /\ Carried(s, a, t)
  BY <1>1 DEF Flows
<1>4. PICK u : u = Tail(t)
  OBVIOUS
<1>5. Carried(s, a + 1, u) /\ u \in Seq(Wire) /\ Len(u) = Len(t) - 1 /\ Len(t) \in Nat \ {0}
  BY <1>1, <1>3, <1>4, CarriedHeard
<1>6. PICK c, d \in Nat : c = Len(u) /\ d = Len(t) /\ d = c + 1
  BY <1>5
<1>7. (a + 1) + Len(u) <= b /\ (~gone => (a + 1) + Len(u) = b)
  <2>1. a + d <= b /\ (~gone => a + d = b)
    BY <1>3, <1>6
  <2>2. (a + 1) + c <= b /\ (~gone => (a + 1) + c = b)
    BY <1>6, <2>1
  <2> QED
    BY <1>6, <2>2
<1>8. Flows(s, r, k, m, j, v, u, gone)
  BY <1>1, <1>2, <1>5, <1>7 DEF Flows
<1> QED
  BY <1>4, <1>8

LEMMA FlowStays ==
  ASSUME NEW s, NEW r, NEW k, NEW m, NEW i, NEW n, NEW t, NEW gone \in BOOLEAN,
         Flows(s, r, k, m, i, n, t, gone),
         NEW k2, NEW m2, Done(s, "write", k2, m2) = Done(s, "write", k, m),
         NEW i2, NEW n2, Done(r, "read", i2, n2) = Done(r, "read", i, n),
         NEW gone2 \in BOOLEAN, gone => gone2
  PROVE  Flows(s, r, k2, m2, i2, n2, t, gone2)
BY DEF Flows

\* A party never comes past a condition that it throws at.
LEMMA UnbarredStep ==
  ASSUME NEW s, NEW k \in Nat, Unbarred(s, k), s[k + 1].op # "throw"
  PROVE  Unbarred(s, k + 1)
<1>1. \A i \in 1..(k + 1) : i \in 1..k \/ i = k + 1
  OBVIOUS
<1> QED
  BY <1>1 DEF Unbarred

LEMMA StandsByte ==
  ASSUME NEW s \in Seq(Ops), NEW k, NEW m, NEW f, NEW l, NEW x, NEW y, Stands(s, k, m, f, l, x, y),
         k < Len(s), s[k + 1].op \in {"read", "write"}, s[k + 1].n > 0, k >= 2,
         NEW j, NEW v, After(s, k, m, j, v)
  PROVE  Stands(s, j, v, f, l, x, y)
<1>1. Where(s, k, m) /\ k \in Nat
  BY DEF Stands, Where
<1>2. Where(s, j, v) /\ \A c : Taken(s, c)[j] = Taken(s, c)[k]
  BY <1>1, ByteDone
<1>3. j >= 2 /\ j >= 1 /\ k >= 1
  BY <1>1 DEF After
<1>4. l # "closed"
  BY <1>1 DEF Stands
<1>5. Unbarred(s, j)
  <2>1. Unbarred(s, k) /\ Unbarred(s, k + 1)
    BY <1>1, UnbarredStep DEF Stands
  <2> QED
    BY <2>1 DEF After
<1> QED
  BY <1>2, <1>3, <1>4, <1>5 DEF Stands

LEMMA StandsCheck ==
  ASSUME NEW s \in Seq(Ops), NEW k, NEW m, NEW f, NEW l, NEW x, NEW y, Stands(s, k, m, f, l, x, y),
         k < Len(s), s[k + 1].op \in {"check", "pass"}, k >= 2
  PROVE  Stands(s, k + 1, m, f, l, x, y)
<1>1. Where(s, k, m) /\ k \in Nat
  BY DEF Stands, Where
<1>6. Unbarred(s, k + 1)
  BY <1>1, UnbarredStep DEF Stands
<1>2. Where(s, k + 1, m) /\ \A c : Taken(s, c)[k] \in Nat /\ Taken(s, c)[k + 1] = Taken(s, c)[k] + 0
  <2>1. Where(s, k + 1, m)
    <3>1. m = 0 /\ Where(s, k + 1, 0)
      BY <1>1, StepDone
    <3> QED
      BY <3>1
  <2>2. k \in 0..(Len(s) - 1) /\ k + 1 \in 1..Len(s)
    BY <1>1
  <2>3. ASSUME NEW c PROVE Taken(s, c)[k] \in Nat /\ Taken(s, c)[k + 1] = Taken(s, c)[k] + 0
    <3>1. Gets(s, c)[k + 1] = 0
      BY <2>2 DEF Gets
    <3> QED
      BY <2>2, <3>1, StepTaken
  <2> QED
    BY <2>1, <2>3
<1>3. \A c : Taken(s, c)[k + 1] = Taken(s, c)[k]
  BY <1>2
<1>4. k + 1 >= 2 /\ k + 1 >= 1 /\ k >= 1
  BY <1>1
<1>5. l # "closed"
  BY <1>1 DEF Stands
<1> QED
  BY <1>2, <1>3, <1>4, <1>5, <1>6 DEF Stands

LEMMA StandsGet ==
  ASSUME NEW s \in Seq(Ops), NEW k, NEW m, NEW f, NEW l, NEW x \in Nat, NEW y \in Nat,
         Stands(s, k, m, f, l, x, y),
         k < Len(s), s[k + 1].op = "get", k >= 2, f \in [Directions -> Int],
         NEW h, h = [f EXCEPT ![s[k + 1].dir] = @ - s[k + 1].n]
  PROVE  Stands(s, k + 1, m, h, l, x, y)
<1>1. Where(s, k, m) /\ k \in Nat
  BY DEF Stands, Where
<1>2. PICK i \in 1..Len(s) : i = k + 1 /\ s[i].n \in Nat
  BY <1>1, NumberOf DEF Where
<1>3. /\ Where(s, i, m)
      /\ \A c : /\ Taken(s, c)[k] \in Nat
                /\ Taken(s, c)[i] = Taken(s, c)[k] + (IF s[i].dir = c THEN s[i].n ELSE 0)
  <2>1. Where(s, k + 1, m)
    <3>1. m = 0 /\ Where(s, k + 1, 0)
      BY <1>1, StepDone
    <3> QED
      BY <3>1
  <2>2. k \in 0..(Len(s) - 1)
    BY <1>1
  <2>3. ASSUME NEW c
        PROVE  /\ Taken(s, c)[k] \in Nat
               /\ Taken(s, c)[i] = Taken(s, c)[k] + (IF s[i].dir = c THEN s[i].n ELSE 0)
    <3>1. Gets(s, c)[i] = IF s[i].dir = c THEN s[i].n ELSE 0
      BY <1>2 DEF Gets
    <3> QED
      BY <1>2, <2>2, <3>1, StepTaken
  <2> QED
    BY <1>2, <2>1, <2>3
<1>4. i >= 2 /\ i >= 1 /\ k >= 1
  BY <1>1, <1>2
<1>5. l # "closed"
  BY <1>1 DEF Stands
<1>6. f["sr"] = x - Taken(s, "sr")[k] /\ f["rs"] = y - Taken(s, "rs")[k]
  BY <1>4 DEF Stands
<1>7. \A c \in Directions : h[c] = IF c = s[i].dir THEN f[c] - s[i].n ELSE f[c]
  BY <1>2
<1>8. h["sr"] = x - Taken(s, "sr")[i]
  <2>1. PICK a, n \in Nat : a = Taken(s, "sr")[k] /\ n = s[i].n
    BY <1>2, <1>3
  <2>2. "sr" \in Directions
    BY DEF Directions
  <2>3. CASE s[i].dir = "sr"
    <3>1. Taken(s, "sr")[i] = a + n /\ h["sr"] = (x - a) - n
      BY <1>3, <1>6, <1>7, <2>1, <2>2, <2>3
    <3>2. (x - a) - n = x - (a + n)
      OBVIOUS
    <3> QED
      BY <3>1, <3>2
  <2>4. CASE s[i].dir # "sr"
    <3>1. Taken(s, "sr")[i] = a
      BY <1>3, <2>1, <2>4
    <3> QED
      BY <1>6, <1>7, <2>1, <2>2, <2>4, <3>1
  <2> QED
    BY <2>3, <2>4
<1>9. h["rs"] = y - Taken(s, "rs")[i]
  <2>1. PICK a, n \in Nat : a = Taken(s, "rs")[k] /\ n = s[i].n
    BY <1>2, <1>3
  <2>2. "rs" \in Directions
    BY DEF Directions
  <2>3. CASE s[i].dir = "rs"
    <3>1. Taken(s, "rs")[i] = a + n /\ h["rs"] = (y - a) - n
      BY <1>3, <1>6, <1>7, <2>1, <2>2, <2>3
    <3>2. (y - a) - n = y - (a + n)
      OBVIOUS
    <3> QED
      BY <3>1, <3>2
  <2>4. CASE s[i].dir # "rs"
    <3>1. Taken(s, "rs")[i] = a
      BY <1>3, <2>1, <2>4
    <3> QED
      BY <1>6, <1>7, <2>1, <2>2, <2>4, <3>1
  <2> QED
    BY <2>3, <2>4
<1>11. Unbarred(s, i)
  BY <1>1, <1>2, UnbarredStep DEF Stands
<1>10. Stands(s, i, m, h, l, x, y)
  BY <1>3, <1>4, <1>5, <1>8, <1>9, <1>11 DEF Stands
<1> QED
  BY <1>2, <1>10

-----------------------------------------------------------------------------
Typed ==
  /\ params \in ParamSet
  /\ link \in [Parties -> LinkStates] /\ connected \in [Parties -> BOOLEAN]
  /\ accepted \in [Parties -> BOOLEAN] /\ slept \in [Parties -> Nat]
  /\ pc \in [Parties -> Nat] /\ moved \in [Parties -> Nat]
  /\ pool \in [Parties -> [Directions -> Int]]
  /\ stream \in [Parties -> Seq(Wire)]
  /\ crashes \in Nat

\* The join: what a party that was accepted, or has joined, may rely on.
JoinedAs(l, c, a, w, peer) ==
  /\ l = "connecting" /\ ~a => w = 0
  /\ a => peer
  /\ l \in {"open", "closed"} => c /\ a
  /\ c => l # "down"
  /\ l = "down" => ~a /\ w = 0

Joint(p) == JoinedAs(link[p], connected[p], accepted[p], slept[p], connected[Peer(p)])

Standing(p) ==
  Stands(script(p), pc[p], moved[p], pool[p], link[p], InSr(params), InRs(params))

Flowing(p) ==
  Flows(script(p), script(Peer(p)), pc[p], moved[p], pc[Peer(p)], moved[Peer(p)],
        stream[p], Gone(Peer(p)))

\* The pools are filled by both at once.
Together == \A p \in Parties : pc[p] < 2 => pc[Peer(p)] = pc[p]

\* With parameters that are suited, nothing is thrown but for a crash.
Quiet == Suited(params) /\ crashes = 0 => \A p \in Parties : link[p] # "failed"

IInv ==
  /\ Typed /\ Together /\ Quiet
  /\ \A p \in Parties : Joint(p) /\ Standing(p) /\ Flowing(p)

LEMMA Peers ==
  /\ \A p \in Parties : Peer(p) \in Parties /\ Peer(p) # p /\ Peer(Peer(p)) = p
  /\ \A p, q \in Parties : q = p \/ q = Peer(p)
BY TcpAssumption DEF Parties, Peer

Sends(p) == IF p = Alice THEN "sr" ELSE "rs"

\* The scripts of a party and of its peer.
LEMMA ScriptsOf ==
  ASSUME NEW P \in ParamSet, NEW p \in Parties
  PROVE  LET s == ScriptOf[P][p]
             r == ScriptOf[P][Peer(p)]
         IN  /\ Woven(s, r, Sends(p), Sends(Peer(p)))
             /\ Filling(s, 1, "sr", InSr(P)) /\ Filling(s, 2, "rs", InRs(P))
             /\ Takes(s, "sr", InSr(P)) /\ Takes(s, "rs", InRs(P))
             /\ Bounded(s, Outcomes(P))
<1>1. Whole(ScriptOf[P][Alice], ScriptOf[P][Bob], InSr(P), InRs(P), Outcomes(P))
  BY ScriptsFit
<1>2. PICK a, b : a = ScriptOf[P][Alice] /\ b = ScriptOf[P][Bob]
  OBVIOUS
<1>3. Whole(a, b, InSr(P), InRs(P), Outcomes(P))
  BY <1>1, <1>2
<1>4. Woven(a, b, "sr", "rs") /\ Woven(b, a, "rs", "sr")
  BY <1>3, WovenBack DEF Whole
<1>5. Alice # Bob /\ Peer(Alice) = Bob /\ Peer(Bob) = Alice
  BY TcpAssumption DEF Peer
<1>6. CASE p = Alice
  BY <1>2, <1>3, <1>4, <1>5, <1>6 DEF Whole, Sends
<1>7. CASE p = Bob
  BY <1>2, <1>3, <1>4, <1>5, <1>7 DEF Whole, Sends
<1> QED
  BY <1>6, <1>7 DEF Parties

\* What is known of the script where a party is.
Known(s, r, d, e, x, y) ==
  /\ s \in Seq(Ops) /\ r \in Seq(Ops) /\ Len(s) \in Nat /\ Len(s) >= 2 /\ Len(r) = Len(s)
  /\ Woven(s, r, d, e) /\ Woven(r, s, e, d)
  /\ Filling(s, 1, "sr", x) /\ Filling(s, 2, "rs", y)
  /\ Taken(s, "sr")[Len(s)] = x /\ Taken(s, "rs")[Len(s)] = y
  /\ x \in Nat /\ y \in Nat

LEMMA ScriptKnown ==
  ASSUME NEW P \in ParamSet, NEW p \in Parties
  PROVE  Known(ScriptOf[P][p], ScriptOf[P][Peer(p)], Sends(p), Sends(Peer(p)), InSr(P), InRs(P))
<1>1. PICK s, r : s = ScriptOf[P][p] /\ r = ScriptOf[P][Peer(p)]
  OBVIOUS
<1>2. PICK d, e : d = Sends(p) /\ e = Sends(Peer(p))
  OBVIOUS
<1>3. Woven(s, r, d, e) /\ Filling(s, 1, "sr", InSr(P)) /\ Filling(s, 2, "rs", InRs(P))
      /\ Takes(s, "sr", InSr(P)) /\ Takes(s, "rs", InRs(P))
  BY <1>1, <1>2, ScriptsOf
<1>4. Woven(r, s, e, d)
  BY <1>3, WovenBack
<1>5. s \in Seq(Ops) /\ r \in Seq(Ops) /\ Len(s) \in Nat /\ Len(s) >= 2 /\ Len(r) = Len(s)
  BY <1>3 DEF Woven
<1>6. Taken(s, "sr")[Len(s)] = InSr(P) /\ Taken(s, "rs")[Len(s)] = InRs(P)
      /\ InSr(P) \in Nat /\ InRs(P) \in Nat
  BY <1>3, <1>5, TakenInAll
<1>7. Known(s, r, d, e, InSr(P), InRs(P))
  BY <1>3, <1>4, <1>5, <1>6 DEF Known
<1> QED
  BY <1>1, <1>2, <1>7

LEMMA KnownAt ==
  ASSUME NEW s, NEW r, NEW d, NEW e, NEW x, NEW y, Known(s, r, d, e, x, y),
         NEW k, NEW m, Where(s, k, m), k < Len(s)
  PROVE  /\ k \in Nat /\ k + 1 \in 1..Len(s) /\ s[k + 1] \in Ops
         /\ s[k + 1].op = "rot" => k < 2
         /\ s[k + 1].op # "rot" => k >= 2 /\ s[k + 1].n > 0
<1>1. k \in Nat /\ Len(s) \in Nat /\ s \in Seq(Ops) /\ Woven(s, r, d, e)
  BY DEF Known, Where
<1>2. k + 1 \in 1..Len(s) /\ s[k + 1] \in Ops
  BY <1>1
<1>3. CASE k < 2
  <2>1. k + 1 \in 1..2
    BY <1>1, <1>3
  <2> QED
    BY <1>1, <1>2, <1>3, <2>1 DEF Woven
<1>4. CASE k >= 2
  <2>1. PICK i \in 3..Len(s) : i = k + 1
    BY <1>1, <1>4
  <2>2. s[i].n > 0 /\ Place(s, r, i, d, e)
    BY <1>1, <2>1 DEF Woven
  <2>3. i - 1 + 1 = i
    OBVIOUS
  <2>4. s[i].op # "rot"
    BY <2>2, <2>3 DEF Place, Message, Judged, Verdicts, Checked, Swap
  <2> QED
    BY <1>1, <1>2, <1>4, <2>1, <2>2, <2>4
<1> QED
  BY <1>1, <1>3, <1>4

-----------------------------------------------------------------------------
LEMMA Beginning == Init => IInv
<1> SUFFICES ASSUME Init PROVE IInv
  OBVIOUS
<1>1. Typed
  BY DEF Init, TcpInit, Typed, LinkStates
<1>2. \A p \in Parties : Peer(p) \in Parties
  BY Peers
<1>3. Together /\ Quiet
  BY <1>2 DEF Init, TcpInit, Together, Quiet
<1>4. ASSUME NEW p \in Parties PROVE Joint(p) /\ Standing(p) /\ Flowing(p)
  <2>1. link[p] = "down" /\ link[Peer(p)] = "down" /\ ~connected[p] /\ ~accepted[p] /\ slept[p] = 0
    BY <1>2 DEF Init, TcpInit
  <2>2. Joint(p)
    BY <2>1 DEF Joint, JoinedAs
  <2>3. pc[p] = 0 /\ moved[p] = 0 /\ pc[Peer(p)] = 0 /\ moved[Peer(p)] = 0 /\ stream[p] = <<>>
        /\ pool[p] = [d \in Directions |-> 0] /\ params \in ParamSet
    BY <1>2 DEF Init, TcpInit
  <2>4. PICK s, r : s = script(p) /\ r = script(Peer(p))
    OBVIOUS
  <2>5. s \in Seq(Ops) /\ r \in Seq(Ops) /\ Len(s) \in Nat /\ Len(r) \in Nat
    BY <2>3, <2>4, ScriptKnown DEF Known, script
  <2>6. Where(s, 0, 0) /\ Where(r, 0, 0) /\ Unbarred(s, 0)
    BY <2>5 DEF Where, Unbarred
  <2>7. Standing(p)
    BY <2>1, <2>3, <2>4, <2>6 DEF Standing, Stands, Directions
  <2>8. Done(r, "read", 0, 0) = 0 /\ Done(s, "write", 0, 0) = 0
    <3>1. ASSUME NEW u \in Seq(Ops), NEW op PROVE Done(u, op, 0, 0) = 0
      <4>1. Upto(u, op)[0] = 0
        BY UptoIs DEF Counts, RunningTotal
      <4> QED
        BY <4>1 DEF Done
    <3> QED
      BY <2>5, <3>1
  <2>9. Carried(s, 0, <<>>) /\ <<>> \in Seq(Wire) /\ Len(<<>>) = 0
    BY DEF Carried
  <2>10. Flows(s, r, 0, 0, 0, 0, <<>>, Gone(Peer(p)))
    BY <2>8, <2>9 DEF Flows
  <2> QED
    BY <2>2, <2>3, <2>4, <2>7, <2>10 DEF Flowing
<1> QED
  BY <1>1, <1>3, <1>4 DEF IInv

-----------------------------------------------------------------------------
\* What holds where a party is.
LEMMA Here ==
  ASSUME IInv, NEW p \in Parties
  PROVE  /\ Known(script(p), script(Peer(p)), Sends(p), Sends(Peer(p)), InSr(params), InRs(params))
         /\ Peer(p) \in Parties /\ Peer(p) # p /\ Peer(Peer(p)) = p /\ \A z \in Parties : z = p \/ z = Peer(p)
         /\ Where(script(p), pc[p], moved[p]) /\ Where(script(Peer(p)), pc[Peer(p)], moved[Peer(p)])
         /\ pc[p] >= 2 => pc[Peer(p)] >= 2
<1>1. params \in ParamSet /\ Together /\ pc[p] \in Nat /\ pc[Peer(p)] \in Nat
  BY Peers DEF IInv, Typed
<1>2. Peer(p) \in Parties /\ Peer(p) # p /\ Peer(Peer(p)) = p /\ \A z \in Parties : z = p \/ z = Peer(p)
  BY Peers
<1>3. Standing(p) /\ Standing(Peer(p))
  BY <1>2 DEF IInv
<1>4. Where(script(p), pc[p], moved[p]) /\ Where(script(Peer(p)), pc[Peer(p)], moved[Peer(p)])
  BY <1>3 DEF Standing, Stands
<1>5. Known(script(p), script(Peer(p)), Sends(p), Sends(Peer(p)), InSr(params), InRs(params))
  BY <1>1, ScriptKnown DEF script
<1>6. pc[p] >= 2 => pc[Peer(p)] >= 2
  BY <1>1, <1>2 DEF Together
<1> QED
  BY <1>2, <1>4, <1>5, <1>6

\* A step of one party in its script.
LEMMA Stepped ==
  ASSUME IInv, NEW p \in Parties, Typed', params' = params,
         UNCHANGED <<link, connected, accepted, slept, crashes>>,
         NEW q, q = Peer(p), pc'[q] = pc[q], moved'[q] = moved[q], pool'[q] = pool[q],
         pc[p] >= 2, pc'[p] >= 2, Standing(p)', Flowing(p)', Flowing(q)'
  PROVE  IInv'
<1>1. /\ q \in Parties /\ q # p /\ Peer(q) = p /\ \A z \in Parties : z = p \/ z = q
      /\ pc[q] >= 2
  BY Here
<1>2. Together'
  <2>1. pc'[p] \in Nat /\ pc'[q] \in Nat /\ pc[q] \in Nat
    BY <1>1 DEF Typed, IInv
  <2>2. ~(pc'[p] < 2) /\ ~(pc'[q] < 2)
    BY <1>1, <2>1
  <2> QED
    BY <1>1, <2>2 DEF Together
<1>3. Quiet'
  BY DEF IInv, Quiet
<1>4. \A z \in Parties : Joint(z)'
  BY DEF IInv, Joint
<1>5. Standing(q)'
  <2>1. Standing(q) /\ script(q)' = script(q)
    BY <1>1 DEF IInv, script
  <2> QED
    BY <2>1 DEF Standing
<1> QED
  BY <1>1, <1>2, <1>3, <1>4, <1>5 DEF IInv

\* A step that only changes where a party is between its start and its end.
LEMMA Relinked ==
  ASSUME IInv, NEW p \in Parties, Typed', UNCHANGED <<params, pc, moved, pool, stream>>,
         NEW q, q = Peer(p), link'[q] = link[q], Joint(p)', Joint(q)', Quiet',
         link'[p] = "closed" => pc[p] = Len(script(p)), Gone(p) => Gone(p)'
  PROVE  IInv'
<1>1. q \in Parties /\ q # p /\ Peer(q) = p /\ \A z \in Parties : z = p \/ z = q
  BY Here
<1>2. Together'
  BY DEF IInv, Together
<1>3. script(p)' = script(p) /\ script(q)' = script(q)
  BY DEF script
<1>4. Standing(p)' /\ Standing(q)'
  <2>1. Standing(p) /\ Standing(q)
    BY <1>1 DEF IInv
  <2>2. Standing(q)'
    BY <1>3, <2>1 DEF Standing
  <2>3. Standing(p)'
    BY <1>3, <2>1 DEF Standing, Stands
  <2> QED
    BY <2>2, <2>3
<1>5. Flowing(p)'
  <2>1. Flowing(p)
    BY DEF IInv
  <2>2. Gone(q)' = Gone(q)
    BY DEF Gone
  <2> QED
    BY <1>3, <2>1, <2>2 DEF Flowing
<1>6. Flowing(q)'
  <2>1. Flowing(q)
    BY <1>1 DEF IInv
  <2>3. Flows(script(q), script(p), pc[q], moved[q], pc[p], moved[p], stream[q], Gone(p))
    BY <1>1, <2>1 DEF Flowing
  <2>4. Flows(script(q), script(p), pc[q], moved[q], pc[p], moved[p], stream[q], Gone(p)')
    BY <2>3 DEF Flows
  <2> QED
    BY <1>1, <1>3, <2>4 DEF Flowing
<1> QED
  BY <1>1, <1>2, <1>4, <1>5, <1>6 DEF IInv

\* The byte that a party moves.
LEMMA ByteMoved ==
  ASSUME IInv, NEW p \in Parties, NEW o \in {"read", "write"}, At(p, o), MoveByte(p),
         UNCHANGED <<link, connected, accepted, slept, params, pool, crashes>>,
         stream' \in [Parties -> Seq(Wire)],
         NEW q, q = Peer(p), NEW s, s = script(p)
  PROVE  /\ Typed' /\ Standing(p)' /\ pc[p] >= 2 /\ pc'[p] >= 2
         /\ pc'[q] = pc[q] /\ moved'[q] = moved[q]
         /\ After(s, pc[p], moved[p], pc'[p], moved'[p])
         /\ script(p)' = script(p) /\ script(q)' = script(q)
         /\ pc[p] < Len(s) /\ s[pc[p] + 1].op = o /\ s[pc[p] + 1].n > 0 /\ s \in Seq(Ops)
<1>1. /\ pc \in [Parties -> Nat] /\ moved \in [Parties -> Nat] /\ Typed /\ Standing(p)
      /\ q \in Parties /\ q # p /\ link[p] = "open"
  BY Here DEF IInv, Typed, At
<1>2. Known(s, script(q), Sends(p), Sends(q), InSr(params), InRs(params)) /\ Where(s, pc[p], moved[p])
  BY Here
<1>3. pc[p] < Len(s) /\ s[pc[p] + 1].op = o /\ s \in Seq(Ops)
  BY <1>2 DEF At, Known
<1>4. pc[p] >= 2 /\ s[pc[p] + 1].n > 0
  <2>1. s[pc[p] + 1].op # "rot"
    BY <1>3
  <2> QED
    BY <1>2, <1>3, <2>1, KnownAt
<1>5. /\ After(s, pc[p], moved[p], pc'[p], moved'[p])
      /\ pc'[q] = pc[q] /\ moved'[q] = moved[q]
      /\ pc' \in [Parties -> Nat] /\ moved' \in [Parties -> Nat]
  <2>1. PICK k, m \in Nat : k = pc[p] /\ m = moved[p] /\ k + 1 \in Nat /\ m + 1 \in Nat
    BY <1>1
  <2>2. Op(p).n = s[k + 1].n
    BY <2>1 DEF Op
  <2>3. \/ /\ m + 1 = s[k + 1].n
           /\ pc' = [pc EXCEPT ![p] = k + 1] /\ moved' = [moved EXCEPT ![p] = 0]
        \/ /\ m + 1 # s[k + 1].n
           /\ pc' = pc /\ moved' = [moved EXCEPT ![p] = m + 1]
    BY <2>1, <2>2 DEF MoveByte
  <2>4. After(s, k, m, pc'[p], moved'[p])
    <3>1. CASE m + 1 = s[k + 1].n
      <4>1. pc'[p] = k + 1 /\ moved'[p] = 0
        BY <1>1, <2>3, <3>1
      <4> QED
        BY <3>1, <4>1 DEF After
    <3>2. CASE m + 1 # s[k + 1].n
      <4>1. pc'[p] = k /\ moved'[p] = m + 1
        BY <1>1, <2>1, <2>3, <3>2
      <4> QED
        BY <3>2, <4>1 DEF After
    <3> QED
      BY <3>1, <3>2
  <2>5. pc'[q] = pc[q] /\ moved'[q] = moved[q]
    BY <1>1, <2>3
  <2>6. pc' \in [Parties -> Nat] /\ moved' \in [Parties -> Nat]
    <3>1. ASSUME NEW v \in Nat
          PROVE  /\ [pc EXCEPT ![p] = v] \in [Parties -> Nat]
                 /\ [moved EXCEPT ![p] = v] \in [Parties -> Nat]
      BY <1>1
    <3>2. [pc EXCEPT ![p] = k + 1] \in [Parties -> Nat] /\ [moved EXCEPT ![p] = 0] \in [Parties -> Nat]
      BY <2>1, <3>1
    <3>3. [moved EXCEPT ![p] = m + 1] \in [Parties -> Nat]
      BY <2>1, <3>1
    <3>4. pc \in [Parties -> Nat]
      BY <1>1
    <3> QED
      BY ONLY <2>3, <3>2, <3>3, <3>4, Zenon
  <2> QED
    BY <2>1, <2>4, <2>5, <2>6
<1>6. pc'[p] >= 2
  BY <1>1, <1>4, <1>5 DEF After
<1>7. script(p)' = script(p) /\ script(q)' = script(q)
  BY DEF script
<1>8. Typed'
  BY <1>1, <1>5 DEF Typed
<1>9. Standing(p)'
  <2>1. Stands(s, pc[p], moved[p], pool[p], link[p], InSr(params), InRs(params))
    BY <1>1 DEF Standing
  <2>2. s[pc[p] + 1].op \in {"read", "write"}
    BY <1>3
  <2>3. Stands(s, pc'[p], moved'[p], pool[p], link[p], InSr(params), InRs(params))
    BY <1>3, <1>4, <1>5, <2>1, <2>2, StandsByte
  <2> QED
    BY <1>7, <2>3 DEF Standing
<1> QED
  BY <1>1, <1>3, <1>4, <1>5, <1>6, <1>7, <1>8, <1>9

LEMMA WritingKeeps ==
  ASSUME IInv, NEW p \in Parties, WriteByte(p)
  PROVE  IInv'
<1>1. PICK q, s, r : q = Peer(p) /\ s = script(p) /\ r = script(q)
  OBVIOUS
<1>2. /\ At(p, "write") /\ MoveByte(p)
      /\ UNCHANGED <<link, connected, accepted, slept, params, pool, crashes>>
  BY DEF WriteByte
<1>3. /\ q \in Parties /\ q # p /\ Peer(q) = p /\ Known(s, r, Sends(p), Sends(q), InSr(params), InRs(params))
      /\ Where(s, pc[p], moved[p]) /\ Where(r, pc[q], moved[q])
  BY <1>1, Here
<1>4. stream \in [Parties -> Seq(Wire)] /\ Flowing(p) /\ Flowing(q)
  BY <1>3 DEF IInv, Typed
<1>5. s \in Seq(Ops) /\ r \in Seq(Ops)
  BY <1>3 DEF Known
<1>6. pc[p] < Len(s) /\ s[pc[p] + 1].op = "write"
  BY <1>1, <1>2 DEF At
<1>7. <<s[pc[p] + 1].tag, moved[p] + 1>> \in Wire
  <2>1. pc[p] + 1 \in 1..Len(s) /\ moved[p] + 1 \in Nat
    BY <1>5, <1>6, <1>3 DEF Where
  <2>2. s[pc[p] + 1] \in Ops
    BY <1>5, <2>1
  <2> QED
    BY <2>1, <2>2 DEF Ops, Wire
<1>8. \/ Gone(q) /\ stream' = stream
      \/ ~Gone(q) /\ stream' = [stream EXCEPT ![p] = Append(@, <<s[pc[p] + 1].tag, moved[p] + 1>>)]
  BY <1>1 DEF WriteByte, Op
<1>9. stream'[q] = stream[q] /\ stream' \in [Parties -> Seq(Wire)]
      /\ ((Gone(q) /\ stream'[p] = stream[p])
          \/ (~Gone(q) /\ stream'[p] = Append(stream[p], <<s[pc[p] + 1].tag, moved[p] + 1>>)))
  <2>1. stream[p] \in Seq(Wire)
    BY <1>4
  <2>2. Append(stream[p], <<s[pc[p] + 1].tag, moved[p] + 1>>) \in Seq(Wire)
    BY <1>7, <2>1, AppendProperties
  <2> QED
    BY <1>3, <1>4, <1>8, <2>2
<1>10. /\ Typed' /\ Standing(p)' /\ pc[p] >= 2 /\ pc'[p] >= 2
       /\ pc'[q] = pc[q] /\ moved'[q] = moved[q]
       /\ After(s, pc[p], moved[p], pc'[p], moved'[p])
       /\ script(p)' = script(p) /\ script(q)' = script(q) /\ s[pc[p] + 1].n > 0
  BY <1>1, <1>2, <1>9, ByteMoved
<1>11. Gone(q)' = Gone(q) /\ Gone(p)' = Gone(p)
  BY <1>2 DEF Gone
<1>12. Flowing(p)'
  <2>1. Flows(s, r, pc[p], moved[p], pc[q], moved[q], stream[p], Gone(q))
    BY <1>1, <1>4 DEF Flowing
  <2>2. Flows(s, r, pc'[p], moved'[p], pc[q], moved[q], stream'[p], Gone(q))
    <3>1. PICK k, m, i, n, t, j, v, u :
            /\ k = pc[p] /\ m = moved[p] /\ i = pc[q] /\ n = moved[q] /\ t = stream[p]
            /\ j = pc'[p] /\ v = moved'[p] /\ u = stream'[p]
      OBVIOUS
    <3>2. PICK g \in BOOLEAN : g = Gone(q)
      <4>1. Gone(q) \in BOOLEAN
        BY DEF Gone
      <4> QED
        BY Zenon, <4>1
    <3>3. /\ Flows(s, r, k, m, i, n, t, g) /\ Where(s, k, m) /\ Where(r, i, n)
          /\ k < Len(s) /\ s[k + 1].op = "write" /\ s[k + 1].n > 0 /\ After(s, k, m, j, v)
          /\ (g /\ u = t) \/ (~g /\ u = Append(t, <<s[k + 1].tag, m + 1>>))
      BY <1>3, <1>6, <1>9, <1>10, <2>1, <3>1, <3>2
    <3>4. Flows(s, r, j, v, i, n, u, g)
      BY <1>5, <3>3, FlowWrites
    <3> QED
      BY <3>1, <3>2, <3>4
  <2> QED
    BY <1>1, <1>10, <1>11, <2>2 DEF Flowing
<1>13. Flowing(q)'
  <2>1. Flows(r, s, pc[q], moved[q], pc[p], moved[p], stream[q], Gone(p))
    BY <1>1, <1>3, <1>4 DEF Flowing
  <2>2. Done(s, "read", pc'[p], moved'[p]) = Done(s, "read", pc[p], moved[p])
    BY <1>3, <1>5, <1>6, <1>10, ByteDone
  <2>3. Flows(r, s, pc[q], moved[q], pc'[p], moved'[p], stream[q], Gone(p))
    BY <2>1, <2>2 DEF Flows
  <2> QED
    BY <1>1, <1>3, <1>9, <1>10, <1>11, <2>3 DEF Flowing
<1>14. pool' = pool /\ params' = params
  BY <1>2
<1> QED
  BY <1>1, <1>2, <1>10, <1>12, <1>13, <1>14, Stepped

LEMMA ReadingKeeps ==
  ASSUME IInv, NEW p \in Parties, ReadByte(p)
  PROVE  IInv'
<1>1. PICK q, s, r : q = Peer(p) /\ s = script(p) /\ r = script(q)
  OBVIOUS
<1>2. /\ At(p, "read") /\ MoveByte(p) /\ stream[q] # <<>>
      /\ stream' = [stream EXCEPT ![q] = Tail(@)]
      /\ UNCHANGED <<link, connected, accepted, slept, params, pool, crashes>>
  BY <1>1 DEF ReadByte
<1>3. /\ q \in Parties /\ q # p /\ Peer(q) = p /\ Known(s, r, Sends(p), Sends(q), InSr(params), InRs(params))
      /\ Where(s, pc[p], moved[p]) /\ Where(r, pc[q], moved[q])
  BY <1>1, Here
<1>4. stream \in [Parties -> Seq(Wire)] /\ Flowing(p) /\ Flowing(q)
  BY <1>3 DEF IInv, Typed
<1>5. s \in Seq(Ops) /\ r \in Seq(Ops)
  BY <1>3 DEF Known
<1>6. pc[p] < Len(s) /\ s[pc[p] + 1].op = "read"
  BY <1>1, <1>2 DEF At
<1>9. stream'[p] = stream[p] /\ stream'[q] = Tail(stream[q]) /\ stream' \in [Parties -> Seq(Wire)]
  <2>1. stream[q] \in Seq(Wire)
    BY <1>3, <1>4
  <2>2. Tail(stream[q]) \in Seq(Wire)
    BY <1>2, <2>1, HeadTailProperties
  <2> QED
    BY <1>2, <1>3, <1>4, <2>2
<1>10. /\ Typed' /\ Standing(p)' /\ pc[p] >= 2 /\ pc'[p] >= 2
       /\ pc'[q] = pc[q] /\ moved'[q] = moved[q]
       /\ After(s, pc[p], moved[p], pc'[p], moved'[p])
       /\ script(p)' = script(p) /\ script(q)' = script(q) /\ s[pc[p] + 1].n > 0
  BY <1>1, <1>2, <1>9, ByteMoved
<1>11. Gone(q)' = Gone(q) /\ Gone(p)' = Gone(p)
  BY <1>2 DEF Gone
<1>12. Flowing(q)'
  <2>1. Flows(r, s, pc[q], moved[q], pc[p], moved[p], stream[q], Gone(p))
    BY <1>1, <1>3, <1>4 DEF Flowing
  <2>2. Flows(r, s, pc[q], moved[q], pc'[p], moved'[p], stream'[q], Gone(p))
    <3>1. PICK k, m, i, n, t, j, v :
            /\ k = pc[q] /\ m = moved[q] /\ i = pc[p] /\ n = moved[p] /\ t = stream[q]
            /\ j = pc'[p] /\ v = moved'[p]
      OBVIOUS
    <3>2. PICK g \in BOOLEAN : g = Gone(p)
      <4>1. Gone(p) \in BOOLEAN
        BY DEF Gone
      <4> QED
        BY Zenon, <4>1
    <3>3. /\ Flows(r, s, k, m, i, n, t, g) /\ Where(r, k, m) /\ Where(s, i, n)
          /\ i < Len(s) /\ s[i + 1].op = "read" /\ s[i + 1].n > 0 /\ After(s, i, n, j, v)
          /\ t # <<>>
      BY <1>2, <1>3, <1>6, <1>10, <2>1, <3>1, <3>2
    <3>4. Flows(r, s, k, m, j, v, Tail(t), g)
      BY <1>5, <3>3, FlowReads
    <3> QED
      BY <1>9, <3>1, <3>2, <3>4
  <2> QED
    BY <1>1, <1>3, <1>10, <1>11, <2>2 DEF Flowing
<1>13. Flowing(p)'
  <2>1. Flows(s, r, pc[p], moved[p], pc[q], moved[q], stream[p], Gone(q))
    BY <1>1, <1>4 DEF Flowing
  <2>2. Done(s, "write", pc'[p], moved'[p]) = Done(s, "write", pc[p], moved[p])
    BY <1>3, <1>5, <1>6, <1>10, ByteDone
  <2>3. Flows(s, r, pc'[p], moved'[p], pc[q], moved[q], stream[p], Gone(q))
    BY <2>1, <2>2 DEF Flows
  <2> QED
    BY <1>1, <1>9, <1>10, <1>11, <2>3 DEF Flowing
<1>14. pool' = pool /\ params' = params
  BY <1>2
<1> QED
  BY <1>1, <1>2, <1>10, <1>12, <1>13, <1>14, Stepped

\* An operation that neither reads nor writes leaves the streams as they are.
LEMMA StepFlows ==
  ASSUME IInv, NEW p \in Parties, NEW o \in {"check", "pass", "get"}, At(p, o), Step(p),
         UNCHANGED <<link, params, stream>>, NEW q, q = Peer(p)
  PROVE  /\ Flowing(p)' /\ Flowing(q)' /\ pc' \in [Parties -> Nat] /\ moved' = moved
         /\ pc'[q] = pc[q] /\ pc'[p] = pc[p] + 1
         /\ pc[p] < Len(script(p)) /\ script(p)[pc[p] + 1].op = o /\ script(p)' = script(p)
<1>1. PICK s, r : s = script(p) /\ r = script(q)
  OBVIOUS
<1>2. /\ q \in Parties /\ q # p /\ Peer(q) = p /\ Known(s, r, Sends(p), Sends(q), InSr(params), InRs(params))
      /\ Where(s, pc[p], moved[p])
  BY <1>1, Here
<1>3. /\ pc' \in [Parties -> Nat] /\ moved' = moved /\ pc'[q] = pc[q] /\ pc'[p] = pc[p] + 1
  BY <1>2 DEF IInv, Typed, Step
<1>4. pc[p] < Len(s) /\ s[pc[p] + 1].op = o /\ s \in Seq(Ops)
  BY <1>1, <1>2 DEF At, Known
<1>5. script(p)' = s /\ script(q)' = r /\ Gone(p)' = Gone(p) /\ Gone(q)' = Gone(q)
  BY <1>1 DEF script, Gone
<1>6. \A a \in {"read", "write"} : Done(s, a, pc[p] + 1, moved[p]) = Done(s, a, pc[p], moved[p])
  <2>1. s[pc[p] + 1].op \notin {"read", "write", "rot"}
    BY <1>4
  <2>2. /\ moved[p] = 0
        /\ \A a \in {"read", "write"} : Done(s, a, pc[p] + 1, 0) = Done(s, a, pc[p], moved[p])
    BY <1>2, <1>4, <2>1, StepDone
  <2> QED
    BY <2>2
<1>7. Flowing(p)'
  <2>1. Flows(s, r, pc[p], moved[p], pc[q], moved[q], stream[p], Gone(q))
    BY <1>1 DEF IInv, Flowing
  <2>2. Flows(s, r, pc[p] + 1, moved[p], pc[q], moved[q], stream[p], Gone(q))
    BY <1>6, <2>1 DEF Flows
  <2> QED
    BY <1>3, <1>5, <2>2 DEF Flowing
<1>8. Flowing(q)'
  <2>1. Flows(r, s, pc[q], moved[q], pc[p], moved[p], stream[q], Gone(p))
    BY <1>1, <1>2 DEF IInv, Flowing
  <2>2. Flows(r, s, pc[q], moved[q], pc[p] + 1, moved[p], stream[q], Gone(p))
    BY <1>6, <2>1 DEF Flows
  <2> QED
    BY <1>2, <1>3, <1>5, <2>2 DEF Flowing
<1> QED
  BY <1>1, <1>3, <1>4, <1>5, <1>7, <1>8

LEMMA PastRot ==
  ASSUME IInv, NEW p \in Parties, NEW o, At(p, o), o # "rot"
  PROVE  pc[p] >= 2 /\ pc[p] + 1 \in 1..Len(script(p)) /\ script(p)[pc[p] + 1] \in Ops /\ pc[p] \in Nat
<1>1. PICK s, r : s = script(p) /\ r = script(Peer(p))
  OBVIOUS
<1>2. /\ Known(s, r, Sends(p), Sends(Peer(p)), InSr(params), InRs(params)) /\ Where(s, pc[p], moved[p])
  BY <1>1, Here
<1>3. pc[p] < Len(s) /\ s[pc[p] + 1].op # "rot"
  BY <1>1 DEF At
<1> QED
  BY <1>1, <1>2, <1>3, KnownAt

\* A check never fails: what is asked for is left.
LEMMA EnoughLeft ==
  ASSUME IInv, NEW p \in Parties, At(p, "check")
  PROVE  /\ Op(p).n <= pool[p][Op(p).dir] /\ Op(p).n \in Nat
         /\ pool[p][Op(p).dir] \in Int
<1>1. PICK s, r, k : s = script(p) /\ r = script(Peer(p)) /\ k = pc[p]
  OBVIOUS
<1>2. PICK x, y : x = InSr(params) /\ y = InRs(params)
  OBVIOUS
<1>3. Known(s, r, Sends(p), Sends(Peer(p)), x, y)
  BY <1>1, <1>2, Here
<1>4. k >= 2 /\ k + 1 \in 1..Len(s) /\ s[k + 1] \in Ops /\ k \in Nat /\ s[k + 1].op = "check"
  BY <1>1, PastRot DEF At
<1>5. PICK i \in 1..Len(s) : i = k + 1 /\ i - 1 = k
  BY <1>4
<1>6. PICK c : c = s[i].dir
  OBVIOUS
<1>7. c \in {"sr", "rs"}
  <2>1. Place(s, r, i, Sends(p), Sends(Peer(p)))
    BY <1>3, <1>4, <1>5 DEF Known, Woven
  <2>2. i - 1 + 1 = i
    OBVIOUS
  <2>3. Checked(s, r, i) /\ i + 2 <= Len(s)
    BY <1>4, <1>5, <2>1, <2>2 DEF Place, Message, Judged, Verdicts, Swap
  <2>4. PICK j \in {i + 1, i + 2} : s[j].op = "get" /\ s[j].dir = c
    BY <1>6, <2>3 DEF Checked
  <2>5. j \in 3..Len(s) /\ j \in Nat /\ Len(s) \in Nat
    BY <1>3, <1>4, <1>5, <2>3 DEF Known
  <2>6. Place(s, r, j, Sends(p), Sends(Peer(p)))
    BY <1>3, <2>5 DEF Known, Woven
  <2>7. j - 1 + 1 = j
    BY <2>5
  <2>8. \/ Swap(s, r, j - 1, Sends(p)) \/ Swap(r, s, j, Sends(Peer(p)))
    BY <2>4, <2>6, <2>7 DEF Place, Message, Judged, Verdicts, Swap, Checked
  <2>9. s[j].dir \in {Sends(p), Sends(Peer(p))}
    BY <2>7, <2>8 DEF Swap
  <2> QED
    BY <2>4, <2>9 DEF Sends
<1>8. Woven(s, r, Sends(p), Sends(Peer(p))) /\ s \in Seq(Ops) /\ Len(s) \in Nat
  BY <1>3 DEF Known
<1>9. Taken(s, c)[k] + s[i].n <= Taken(s, c)[Len(s)]
  BY <1>4, <1>5, <1>6, <1>8, CheckedFits
<1>10. s[i].n \in Nat /\ Taken(s, c)[k] \in Nat
  <2>1. k \in 0..(Len(s) - 1)
    BY <1>4, <1>5, <1>8
  <2> QED
    BY <1>8, <2>1, NumberOf, StepTaken
<1>11. pool[p][c] = Taken(s, c)[Len(s)] - Taken(s, c)[k]
  <2>1. Stands(s, k, moved[p], pool[p], link[p], x, y)
    BY <1>1, <1>2 DEF IInv, Standing
  <2>2. k >= 1 /\ k >= 2
    BY <1>4
  <2>3. pool[p]["sr"] = x - Taken(s, "sr")[k] /\ pool[p]["rs"] = y - Taken(s, "rs")[k]
    BY <2>1, <2>2 DEF Stands
  <2>4. Taken(s, "sr")[Len(s)] = x /\ Taken(s, "rs")[Len(s)] = y
    BY <1>3 DEF Known
  <2> QED
    BY <1>7, <2>3, <2>4
<1>12. Taken(s, c)[Len(s)] \in Nat
  BY <1>8, TakenIs DEF Counts
<1>13. s[i].n <= pool[p][c]
  <2>1. PICK a, b, n \in Nat : a = Taken(s, c)[k] /\ b = Taken(s, c)[Len(s)] /\ n = s[i].n
    BY <1>10, <1>12
  <2>2. n <= b - a
    BY <1>9, <2>1
  <2> QED
    BY <1>11, <2>1, <2>2
<1>14. pool[p][c] \in Int
  <2>1. pool[p] \in [Directions -> Int] /\ c \in Directions
    BY <1>7 DEF IInv, Typed, Directions
  <2> QED
    BY <2>1
<1> QED
  BY <1>1, <1>5, <1>6, <1>10, <1>13, <1>14 DEF Op

LEMMA CheckingKeeps ==
  ASSUME IInv, NEW p \in Parties, CheckPool(p)
  PROVE  IInv'
<1>1. At(p, "check") /\ UNCHANGED <<connected, accepted, slept, stream, params, pool, crashes>>
  BY DEF CheckPool
<1>2. PICK n, l : n = Op(p).n /\ l = pool[p][Op(p).dir]
  OBVIOUS
<1>3. n <= l /\ n \in Nat /\ l \in Int /\ pc[p] \in Nat /\ pc[p] >= 2
  BY <1>1, <1>2, EnoughLeft, PastRot
<1>4. ~(Op(p).n > pool[p][Op(p).dir])
  BY <1>2, <1>3
<1>5. Step(p) /\ UNCHANGED link
  BY <1>4 DEF CheckPool
<1>6. PICK q, s : q = Peer(p) /\ s = script(p)
  OBVIOUS
<1>7. /\ Flowing(p)' /\ Flowing(q)' /\ pc' \in [Parties -> Nat] /\ moved' = moved
      /\ pc'[q] = pc[q] /\ pc'[p] = pc[p] + 1
      /\ pc[p] < Len(s) /\ s[pc[p] + 1].op = "check" /\ script(p)' = s
  BY <1>1, <1>5, <1>6, StepFlows
<1>8. Typed'
  BY <1>1, <1>5, <1>7 DEF IInv, Typed
<1>9. Standing(p)'
  <2>1. Stands(s, pc[p], moved[p], pool[p], link[p], InSr(params), InRs(params)) /\ s \in Seq(Ops)
    BY <1>6, Here DEF IInv, Standing, Known
  <2>2. Stands(s, pc[p] + 1, moved[p], pool[p], link[p], InSr(params), InRs(params))
    BY <1>3, <1>7, <2>1, StandsCheck
  <2> QED
    BY <1>1, <1>5, <1>7, <2>2 DEF Standing
<1> QED
  BY <1>1, <1>3, <1>5, <1>6, <1>7, <1>8, <1>9, Stepped

LEMMA ThrowsOnly ==
  ASSUME IInv, NEW p \in Parties, At(p, "throw")
  PROVE  ~Suited(params)
<1>1. PICK s : s = script(p)
  OBVIOUS
<1>2. s[pc[p] + 1].op = "throw" /\ pc[p] + 1 \in 1..Len(s)
  BY <1>1, PastRot DEF At
<1>3. Bounded(s, Outcomes(params))
  <2>1. params \in ParamSet
    BY DEF IInv, Typed
  <2> QED
    BY <1>1, <2>1, ScriptsOf DEF script
<1>4. "throw" \in Outcomes(params)
  BY <1>2, <1>3 DEF Bounded
<1> QED
  BY <1>4 DEF Outcomes

LEMMA JudgingKeeps ==
  ASSUME IInv, NEW p \in Parties, At(p, "pass"), Step(p),
         UNCHANGED <<link, connected, accepted, slept, stream, params, pool, crashes>>
  PROVE  IInv'
<1>3. pc[p] \in Nat /\ pc[p] >= 2
  BY PastRot
<1>6. PICK q, s : q = Peer(p) /\ s = script(p)
  OBVIOUS
<1>7. /\ Flowing(p)' /\ Flowing(q)' /\ pc' \in [Parties -> Nat] /\ moved' = moved
      /\ pc'[q] = pc[q] /\ pc'[p] = pc[p] + 1
      /\ pc[p] < Len(s) /\ s[pc[p] + 1].op = "pass" /\ script(p)' = s
  BY <1>6, StepFlows
<1>8. Typed'
  BY <1>7 DEF IInv, Typed
<1>9. Standing(p)'
  <2>1. Stands(s, pc[p], moved[p], pool[p], link[p], InSr(params), InRs(params)) /\ s \in Seq(Ops)
    BY <1>6, Here DEF IInv, Standing, Known
  <2>2. Stands(s, pc[p] + 1, moved[p], pool[p], link[p], InSr(params), InRs(params))
    BY <1>3, <1>7, <2>1, StandsCheck
  <2> QED
    BY <1>7, <2>2 DEF Standing
<1> QED
  BY <1>3, <1>6, <1>7, <1>8, <1>9, Stepped

LEMMA GettingKeeps ==
  ASSUME IInv, NEW p \in Parties, GetOTs(p)
  PROVE  IInv'
<1>1. At(p, "get") /\ UNCHANGED <<tcpVars, params, crashes>> /\ Step(p)
  BY DEF GetOTs
<1>2. pc[p] \in Nat /\ pc[p] >= 2 /\ pc[p] + 1 \in 1..Len(script(p)) /\ script(p)[pc[p] + 1] \in Ops
  BY <1>1, PastRot
<1>3. UNCHANGED <<link, connected, accepted, slept, stream, params, crashes>>
  BY <1>1 DEF tcpVars
<1>4. PICK q, s : q = Peer(p) /\ s = script(p)
  OBVIOUS
<1>5. /\ Flowing(p)' /\ Flowing(q)' /\ pc' \in [Parties -> Nat] /\ moved' = moved
      /\ pc'[q] = pc[q] /\ pc'[p] = pc[p] + 1
      /\ pc[p] < Len(s) /\ s[pc[p] + 1].op = "get" /\ script(p)' = s
  BY <1>1, <1>3, <1>4, StepFlows
<1>6. q \in Parties /\ q # p /\ s \in Seq(Ops) /\ pool \in [Parties -> [Directions -> Int]]
      /\ InSr(params) \in Nat /\ InRs(params) \in Nat
  BY <1>4, Here DEF Known, IInv, Typed
<1>7. PICK d, n : d = s[pc[p] + 1].dir /\ n = s[pc[p] + 1].n
  OBVIOUS
<1>8. n \in Nat
  BY <1>2, <1>4, <1>7 DEF Ops
<1>9. pool' = [pool EXCEPT ![p][d] = @ - n]
  BY <1>4, <1>7 DEF GetOTs, Op
<1>10. pool'[q] = pool[q] /\ pool'[p] = [pool[p] EXCEPT ![d] = @ - n]
       /\ pool' \in [Parties -> [Directions -> Int]]
  <2>1. PICK f \in [Directions -> Int] : f = pool[p]
    BY <1>6
  <2>2. PICK h : h = [f EXCEPT ![d] = @ - n]
    OBVIOUS
  <2>3. h \in [Directions -> Int]
    <3>1. ASSUME NEW c \in Directions PROVE h[c] \in Int
      BY <1>8, <2>1, <2>2, <3>1
    <3> QED
      BY <2>2, <3>1
  <2>4. pool' = [pool EXCEPT ![p] = h]
    BY <1>9, <2>1, <2>2
  <2>5. pool'[q] = pool[q] /\ pool'[p] = h
    BY <1>6, <2>4
  <2>6. pool' \in [Parties -> [Directions -> Int]]
    BY <1>6, <2>3, <2>4
  <2> QED
    BY <2>1, <2>2, <2>5, <2>6
<1>11. Typed'
  BY <1>3, <1>5, <1>10 DEF IInv, Typed
<1>12. Standing(p)'
  <2>1. Stands(s, pc[p], moved[p], pool[p], link[p], InSr(params), InRs(params))
    BY <1>4 DEF IInv, Standing
  <2>2. pool[p] \in [Directions -> Int]
    BY <1>6
  <2>3. Stands(s, pc[p] + 1, moved[p], pool'[p], link[p], InSr(params), InRs(params))
    BY <1>2, <1>5, <1>6, <1>7, <1>10, <2>1, <2>2, StandsGet
  <2> QED
    BY <1>3, <1>5, <2>3 DEF Standing
<1>13. pc'[p] >= 2 /\ moved'[q] = moved[q]
  BY <1>2, <1>5
<1> QED
  BY <1>2, <1>3, <1>4, <1>5, <1>10, <1>11, <1>12, <1>13, Stepped

LEMMA StandsRot ==
  ASSUME NEW s, NEW r, NEW d, NEW e, NEW x, NEW y, Known(s, r, d, e, x, y),
         NEW k, NEW m, NEW f, NEW l, Stands(s, k, m, f, l, x, y),
         k < Len(s), s[k + 1].op = "rot", f \in [Directions -> Int],
         NEW h, h = [f EXCEPT ![s[k + 1].dir] = s[k + 1].n]
  PROVE  Stands(s, k + 1, 0, h, l, x, y)
<1>1. Where(s, k, m) /\ k \in Nat /\ s \in Seq(Ops) /\ x \in Nat /\ y \in Nat /\ Len(s) \in Nat /\ Len(s) >= 2
  BY DEF Stands, Where, Known
<1>2. k < 2
  BY <1>1, KnownAt
<1>3. Where(s, k + 1, 0) /\ Unbarred(s, k + 1)
  BY <1>1, StepDone, UnbarredStep DEF Stands
<1>4. l # "closed"
  BY <1>1 DEF Stands
<1>5. \A c : Taken(s, c)[0] = 0
  BY <1>1, TakenIs DEF Counts, RunningTotal
<1>6. s[1].op = "rot" /\ s[1].dir = "sr" /\ s[1].n = x /\ s[2].op = "rot" /\ s[2].dir = "rs" /\ s[2].n = y
  BY DEF Known, Filling
<1>7. ASSUME NEW c PROVE Taken(s, c)[1] = 0 /\ Taken(s, c)[2] = 0
  <2>1. 0 \in 0..(Len(s) - 1) /\ 1 \in 0..(Len(s) - 1) /\ 1 \in 1..Len(s) /\ 2 \in 1..Len(s)
    BY <1>1
  <2>2. Gets(s, c)[1] = 0 /\ Gets(s, c)[2] = 0
    BY <1>6, <2>1 DEF Gets
  <2>3. Taken(s, c)[0 + 1] = Taken(s, c)[0] + Gets(s, c)[0 + 1]
    BY <1>1, <2>1, StepTaken
  <2>4. Taken(s, c)[1 + 1] = Taken(s, c)[1] + Gets(s, c)[1 + 1]
    BY <1>1, <2>1, StepTaken
  <2> QED
    BY <1>5, <2>2, <2>3, <2>4
<1>8. CASE k = 0
  <2>1. h["sr"] = x /\ h["rs"] = f["rs"]
    BY <1>6, <1>8 DEF Directions
  <2>2. f["rs"] = 0
    BY <1>8 DEF Stands
  <2>3. k + 1 = 1 /\ x - 0 = x /\ ~(1 >= 2) /\ 1 >= 1
    BY <1>1, <1>8
  <2> QED
    BY <1>3, <1>4, <1>7, <2>1, <2>2, <2>3 DEF Stands
<1>9. CASE k = 1
  <2>1. h["rs"] = y /\ h["sr"] = f["sr"]
    BY <1>6, <1>9 DEF Directions
  <2>2. f["sr"] = x - 0
    BY <1>7, <1>9 DEF Stands
  <2>3. k + 1 = 2 /\ y - 0 = y /\ 2 >= 2 /\ 2 >= 1
    BY <1>1, <1>9
  <2> QED
    BY <1>3, <1>4, <1>7, <2>1, <2>2, <2>3 DEF Stands
<1> QED
  BY <1>1, <1>2, <1>8, <1>9

\* The connection of a run() of the OT extension.
LEMMA ConnectingKeeps ==
  ASSUME IInv, RotConnect
  PROVE  IInv'
<1>1. /\ \A p \in Parties : At(p, "rot")
      /\ moved' = [p \in Parties |-> 1]
      /\ UNCHANGED <<link, connected, accepted, slept, stream, params, pc, pool, crashes>>
  BY DEF RotConnect, tcpVars
<1>2. ASSUME NEW p \in Parties PROVE Standing(p)' /\ Flowing(p)'
  <2>1. PICK q, s, r : q = Peer(p) /\ s = script(p) /\ r = script(q)
    OBVIOUS
  <2>2. /\ q \in Parties /\ q # p /\ Peer(q) = p /\ Known(s, r, Sends(p), Sends(q), InSr(params), InRs(params))
        /\ Where(s, pc[p], moved[p]) /\ Where(r, pc[q], moved[q])
    BY <2>1, Here
  <2>3. pc[p] < Len(s) /\ s[pc[p] + 1].op = "rot" /\ pc[q] < Len(r) /\ r[pc[q] + 1].op = "rot"
    BY <1>1, <2>1, <2>2 DEF At
  <2>4. s \in Seq(Ops) /\ r \in Seq(Ops)
    BY <2>2 DEF Known
  <2>5. \A a \in {"read", "write"} : Done(s, a, pc[p], 1) = Done(s, a, pc[p], moved[p])
    BY <2>2, <2>3, <2>4, StepDone
  <2>6. \A a \in {"read", "write"} : Done(r, a, pc[q], 1) = Done(r, a, pc[q], moved[q])
    BY <2>2, <2>3, <2>4, StepDone
  <2>7. script(p)' = s /\ script(q)' = r /\ Gone(q)' = Gone(q) /\ moved'[p] = 1 /\ moved'[q] = 1
    BY <1>1, <2>1, <2>2 DEF script, Gone
  <2>8. Flowing(p)'
    <3>1. Flows(s, r, pc[p], moved[p], pc[q], moved[q], stream[p], Gone(q))
      BY <2>1 DEF IInv, Flowing
    <3>2. Flows(s, r, pc[p], 1, pc[q], 1, stream[p], Gone(q))
      BY <2>5, <2>6, <3>1 DEF Flows
    <3> QED
      BY <1>1, <2>1, <2>7, <3>2 DEF Flowing
  <2>9. Standing(p)'
    <3>1. Stands(s, pc[p], moved[p], pool[p], link[p], InSr(params), InRs(params))
      BY <2>1 DEF IInv, Standing
    <3>2. Where(s, pc[p], 1)
      BY <2>2, <2>3 DEF Where
    <3>3. Stands(s, pc[p], 1, pool[p], link[p], InSr(params), InRs(params))
      BY <3>1, <3>2 DEF Stands
    <3> QED
      BY <1>1, <2>7, <3>3 DEF Standing
  <2> QED
    BY <2>8, <2>9
<1>3. Typed' /\ Together' /\ Quiet' /\ \A p \in Parties : Joint(p)'
  BY <1>1 DEF IInv, Typed, Together, Quiet, Joint
<1> QED
  BY <1>2, <1>3 DEF IInv

LEMMA FillingKeeps ==
  ASSUME IInv, RotRun
  PROVE  IInv'
<1>1. /\ \A p \in Parties : At(p, "rot")
      /\ pool' = [p \in Parties |-> [pool[p] EXCEPT ![Op(p).dir] = Op(p).n]]
      /\ pc' = [p \in Parties |-> pc[p] + 1] /\ moved' = [p \in Parties |-> 0]
      /\ UNCHANGED <<link, connected, accepted, slept, stream, params, crashes>>
  BY DEF RotRun, tcpVars
<1>2. pc \in [Parties -> Nat] /\ pool \in [Parties -> [Directions -> Int]] /\ Together
  BY DEF IInv, Typed
<1>3. ASSUME NEW p \in Parties
      PROVE  /\ Standing(p)' /\ Flowing(p)' /\ Op(p).n \in Nat /\ pool'[p] \in [Directions -> Int]
             /\ pc'[p] < 2 => pc'[Peer(p)] = pc'[p]
  <2>1. PICK q, s, r : q = Peer(p) /\ s = script(p) /\ r = script(q)
    OBVIOUS
  <2>2. /\ q \in Parties /\ q # p /\ Peer(q) = p /\ Known(s, r, Sends(p), Sends(q), InSr(params), InRs(params))
        /\ Where(s, pc[p], moved[p]) /\ Where(r, pc[q], moved[q])
    BY <2>1, Here
  <2>3. pc[p] < Len(s) /\ s[pc[p] + 1].op = "rot" /\ pc[q] < Len(r) /\ r[pc[q] + 1].op = "rot"
    BY <1>1, <2>1, <2>2 DEF At
  <2>4. s \in Seq(Ops) /\ r \in Seq(Ops)
    BY <2>2 DEF Known
  <2>5. \A a \in {"read", "write"} : Done(s, a, pc[p] + 1, 0) = Done(s, a, pc[p], moved[p])
    BY <2>2, <2>3, <2>4, StepDone
  <2>6. \A a \in {"read", "write"} : Done(r, a, pc[q] + 1, 0) = Done(r, a, pc[q], moved[q])
    BY <2>2, <2>3, <2>4, StepDone
  <2>7. script(p)' = s /\ script(q)' = r /\ Gone(q)' = Gone(q)
    BY <1>1, <2>1 DEF script, Gone
  <2>8. pc'[p] = pc[p] + 1 /\ pc'[q] = pc[q] + 1 /\ moved'[p] = 0 /\ moved'[q] = 0
    BY <1>1, <2>2
  <2>9. Flowing(p)'
    <3>1. Flows(s, r, pc[p], moved[p], pc[q], moved[q], stream[p], Gone(q))
      BY <2>1 DEF IInv, Flowing
    <3>2. Flows(s, r, pc[p] + 1, 0, pc[q] + 1, 0, stream[p], Gone(q))
      BY <2>5, <2>6, <3>1 DEF Flows
    <3> QED
      BY <1>1, <2>1, <2>7, <2>8, <3>2 DEF Flowing
  <2>10. Standing(p)' /\ pool'[p] \in [Directions -> Int] /\ Op(p).n \in Nat
    <3>1. PICK f \in [Directions -> Int] : f = pool[p]
      BY <1>2
    <3>2. Stands(s, pc[p], moved[p], f, link[p], InSr(params), InRs(params))
      BY <2>1, <3>1 DEF IInv, Standing
    <3>3. PICK h : h = [f EXCEPT ![s[pc[p] + 1].dir] = s[pc[p] + 1].n]
      OBVIOUS
    <3>4. Stands(s, pc[p] + 1, 0, h, link[p], InSr(params), InRs(params))
      BY <2>2, <2>3, <3>2, <3>3, StandsRot
    <3>5. s[pc[p] + 1] \in Ops
      BY <2>2, <2>3, KnownAt
    <3>6. s[pc[p] + 1].n \in Nat
      BY <3>5 DEF Ops
    <3>7. h \in [Directions -> Int]
      <4>1. ASSUME NEW c \in Directions PROVE h[c] \in Int
        BY <3>3, <3>6
      <4> QED
        BY <3>3, <4>1
    <3>8. pool'[p] = h
      BY <1>1, <2>1, <3>1, <3>3 DEF Op
    <3>9. Standing(p)'
      BY <1>1, <2>7, <2>8, <3>4, <3>8 DEF Standing
    <3> QED
      BY <2>1, <3>6, <3>7, <3>8, <3>9 DEF Op
  <2>11. pc'[q] = pc'[p]
    <3>1. pc[p] < 2
      BY <2>2, <2>3, KnownAt
    <3> QED
      BY <1>2, <2>1, <2>8, <3>1 DEF Together
  <2> QED
    BY <2>1, <2>9, <2>10, <2>11
<1>4. Together'
  BY <1>3 DEF Together
<1>5. /\ pool' \in [Parties -> [Directions -> Int]]
      /\ pc' \in [Parties -> Nat] /\ moved' \in [Parties -> Nat]
  <2>1. pool' = [p \in Parties |-> pool'[p]]
    BY <1>1
  <2>2. \A p \in Parties : pool'[p] \in [Directions -> Int]
    BY <1>3
  <2>3. pool' \in [Parties -> [Directions -> Int]]
    BY <2>1, <2>2
  <2>4. pc' \in [Parties -> Nat] /\ moved' \in [Parties -> Nat]
    BY <1>1, <1>2
  <2> QED
    BY <2>3, <2>4
<1>6. Typed'
  BY <1>1, <1>5 DEF IInv, Typed
<1>7. Quiet' /\ \A p \in Parties : Joint(p)'
  BY <1>1 DEF IInv, Quiet, Joint
<1> QED
  BY <1>3, <1>4, <1>6, <1>7 DEF IInv

-----------------------------------------------------------------------------
\* An end of the stream, or of the peer, is met only when the peer failed.
LEMMA NoEndMet ==
  ASSUME IInv, NEW p \in Parties, link[Peer(p)] = "closed",
         (At(p, "read") /\ stream[Peer(p)] = <<>>) \/ At(p, "rot")
  PROVE  FALSE
<1>1. PICK q, s, r : q = Peer(p) /\ s = script(p) /\ r = script(q)
  OBVIOUS
<1>2. /\ q \in Parties /\ q # p /\ Peer(q) = p /\ Known(s, r, Sends(p), Sends(q), InSr(params), InRs(params))
      /\ Where(s, pc[p], moved[p]) /\ Where(r, pc[q], moved[q]) /\ (pc[q] >= 2 => pc[p] >= 2)
  BY <1>1, Here
<1>3. /\ s \in Seq(Ops) /\ r \in Seq(Ops) /\ Len(s) \in Nat /\ Len(s) >= 2 /\ Len(r) = Len(s)
      /\ Woven(r, s, Sends(q), Sends(p))
  BY <1>2 DEF Known
<1>4. pc[q] = Len(s)
  <2>1. Standing(q)
    BY <1>2 DEF IInv
  <2> QED
    BY <1>1, <1>3, <2>1 DEF Standing, Stands
<1>5. link[p] = "open" /\ pc[p] < Len(s)
  BY <1>1 DEF At
<1>6. CASE At(p, "rot")
  <2>1. pc[p] < 2
    BY <1>1, <1>2, <1>6, KnownAt DEF At
  <2> QED
    BY <1>2, <1>3, <1>4, <2>1 DEF Where
<1>7. CASE At(p, "read") /\ stream[q] = <<>>
  <2>1. s[pc[p] + 1].op = "read" /\ s[pc[p] + 1].n > 0 /\ pc[p] + 1 \in 1..Len(s) /\ pc[p] \in Nat
    <3>1. s[pc[p] + 1].op = "read"
      BY <1>1, <1>7 DEF At
    <3>2. s[pc[p] + 1].op # "rot"
      BY <3>1
    <3> QED
      BY <1>2, <1>5, <3>1, <3>2, KnownAt
  <2>2. Flows(r, s, pc[q], moved[q], pc[p], moved[p], <<>>, Gone(p))
    BY <1>1, <1>2, <1>7 DEF IInv, Flowing
  <2>3. ~Gone(p)
    BY <1>5 DEF Gone
  <2>4. PICK a, b \in Nat : a = Done(s, "read", pc[p], moved[p]) /\ b = Done(r, "write", pc[q], moved[q])
    BY <1>2, <1>3, DoneType
  <2>5. a = b
    <3>1. Len(<<>>) = 0
      OBVIOUS
    <3>2. a + Len(<<>>) = b
      BY <2>2, <2>3, <2>4 DEF Flows
    <3> QED
      BY <2>4, <3>1, <3>2
  <2>6. PICK i \in 1..Len(s) : i = pc[p] + 1 /\ pc[p] < i
    BY <2>1
  <2>7. a < Upto(s, "read")[i]
    BY <1>2, <1>3, <2>1, <2>4, <2>6, DoneAhead
  <2>8. Upto(s, "read")[i] <= Upto(s, "read")[Len(s)] /\ Upto(s, "read")[i] \in Nat /\ Upto(s, "read")[Len(s)] \in Nat
    <3>1. Counts(Upto(s, "read"), Amounts(s, "read"), Len(s))
      BY <1>3, UptoIs
    <3>2. Len(s) \in 0..Len(s) /\ i \in 0..Len(s)
      BY <1>3
    <3> QED
      BY <1>3, <3>1, <3>2, CountsGrow
  <2>9. Upto(r, "write")[Len(r)] = Upto(s, "read")[Len(r)]
    BY <1>3, AllIsRead
  <2>10. Upto(r, "write")[Len(r)] <= b
    <3>1. Len(r) \in 0..Len(r) /\ Len(r) <= pc[q]
      BY <1>3, <1>4
    <3> QED
      BY <1>2, <1>3, <2>4, <3>1, DoneBefore
  <2>11. PICK x, z \in Nat : x = Upto(s, "read")[i] /\ z = Upto(s, "read")[Len(s)]
    BY <2>8
  <2>12. a < x /\ x <= z /\ z <= b
    BY <1>3, <2>7, <2>8, <2>9, <2>10, <2>11
  <2> QED
    BY <2>4, <2>5, <2>11, <2>12
<1> QED
  BY <1>1, <1>6, <1>7

\* A party ends: an exception, a crash, or the end of the protocol.
LEMMA EndingKeeps ==
  ASSUME IInv, NEW p \in Parties, NEW l \in {"closed", "failed"},
         link' = [link EXCEPT ![p] = l],
         UNCHANGED <<connected, accepted, slept, stream, params, pc, moved, pool>>,
         crashes' \in Nat, Suited(params) /\ crashes' = 0 => crashes = 0 /\ l # "failed",
         l = "closed" => link[p] = "open" /\ pc[p] = Len(script(p)), ~Gone(p)
  PROVE  IInv'
<1>1. PICK q : q = Peer(p)
  OBVIOUS
<1>2. q \in Parties /\ q # p /\ Peer(q) = p /\ \A z \in Parties : z = p \/ z = q
  BY <1>1, Here
<1>3. link \in [Parties -> LinkStates] /\ Joint(p) /\ Joint(q)
  BY <1>2 DEF IInv, Typed
<1>4. link'[p] = l /\ link'[q] = link[q]
  BY <1>2, <1>3
<1>5. Typed'
  BY <1>3 DEF IInv, Typed, LinkStates
<1>6. Joint(q)'
  BY <1>1, <1>2, <1>3, <1>4 DEF Joint
<1>7. Joint(p)'
  BY <1>3, <1>4 DEF Joint, JoinedAs
<1>8. Quiet'
  BY <1>2, <1>4 DEF IInv, Quiet
<1> QED
  BY <1>1, <1>4, <1>5, <1>6, <1>7, <1>8, Relinked

LEMMA LosingKeeps ==
  ASSUME IInv, NEW p \in Parties, PeerLost(p) \/ RotLost(p)
  PROVE  IInv'
<1>1. /\ Gone(Peer(p)) /\ link' = [link EXCEPT ![p] = "failed"]
      /\ (At(p, "read") /\ stream[Peer(p)] = <<>>) \/ At(p, "rot")
      /\ UNCHANGED <<connected, accepted, slept, stream, params, pc, moved, pool, crashes>>
  BY DEF PeerLost, RotLost, Fail
<1>2. ~(Suited(params) /\ crashes = 0)
  <2>1. link[Peer(p)] = "failed"
    BY <1>1, NoEndMet DEF Gone
  <2>2. Peer(p) \in Parties
    BY Peers
  <2> QED
    BY <2>1, <2>2 DEF IInv, Quiet
<1>3. ~Gone(p) /\ crashes \in Nat
  BY <1>1 DEF At, Gone, IInv, Typed
<1> QED
  BY <1>1, <1>2, <1>3, EndingKeeps

LEMMA ThrowingKeeps ==
  ASSUME IInv, NEW p \in Parties, At(p, "throw"), Fail(p),
         UNCHANGED <<connected, accepted, slept, stream, params, pc, moved, pool, crashes>>
  PROVE  IInv'
<1>1. ~Suited(params) /\ ~Gone(p) /\ crashes \in Nat
  BY ThrowsOnly DEF At, Gone, IInv, Typed
<1> QED
  BY <1>1, EndingKeeps DEF Fail

LEMMA ClosingKeeps ==
  ASSUME IInv, NEW p \in Parties, Close(p)
  PROVE  IInv'
<1>1. ~Gone(p) /\ crashes \in Nat
  BY DEF Close, Gone, IInv, Typed
<1> QED
  BY <1>1, EndingKeeps DEF Close

LEMMA CrashingKeeps ==
  ASSUME IInv, NEW p \in Parties, Crash(p)
  PROVE  IInv'
<1>1. crashes \in Nat /\ crashes' = crashes + 1
  BY DEF Crash, IInv, Typed
<1>2. crashes' \in Nat /\ crashes' # 0
  BY <1>1
<1> QED
  BY <1>2, EndingKeeps DEF Crash, Fail

\* A refusal is not the last: who is asked was there, or nobody has waited yet.
LEMMA JoiningKeeps ==
  ASSUME IInv, NEW p \in Parties, Joining(p)
  PROVE  IInv'
<1>1. PICK q : q = Peer(p)
  OBVIOUS
<1>2. q \in Parties /\ q # p /\ Peer(q) = p /\ \A z \in Parties : z = p \/ z = q
  BY <1>1, Here
<1>3. /\ link \in [Parties -> LinkStates] /\ connected \in [Parties -> BOOLEAN]
      /\ accepted \in [Parties -> BOOLEAN] /\ slept \in [Parties -> Nat]
      /\ JoinedAs(link[p], connected[p], accepted[p], slept[p], connected[q])
      /\ JoinedAs(link[q], connected[q], accepted[q], slept[q], connected[p])
      /\ Quiet /\ Typed
  BY <1>1, <1>2 DEF IInv, Typed, Joint
<1>4. UNCHANGED <<params, pc, moved, pool, crashes>>
  BY DEF Joining
<1>5. SUFFICES /\ stream' = stream /\ link'[q] = link[q] /\ link' \in [Parties -> LinkStates]
               /\ connected' \in [Parties -> BOOLEAN] /\ accepted' \in [Parties -> BOOLEAN]
               /\ slept' \in [Parties -> Nat]
               /\ JoinedAs(link'[p], connected'[p], accepted'[p], slept'[p], connected'[q])
               /\ JoinedAs(link'[q], connected'[q], accepted'[q], slept'[q], connected'[p])
               /\ Suited(params) /\ crashes = 0 => link'[p] # "failed"
               /\ link'[p] # "closed" /\ ~Gone(p)
  <2>1. Typed'
    BY <1>3, <1>4, <1>5 DEF Typed
  <2>2. Joint(p)' /\ Joint(q)'
    BY <1>1, <1>2, <1>5 DEF Joint
  <2>3. Quiet'
    BY <1>2, <1>3, <1>4, <1>5 DEF Quiet
  <2> QED
    BY <1>1, <1>4, <1>5, <2>1, <2>2, <2>3, Relinked
<1>6. CASE Construct(p)
  BY <1>2, <1>3, <1>6 DEF Construct, JoinedAs, LinkStates, Gone
<1>7. CASE Connect(p)
  <2>1. link'[p] \in {"accepting", "connecting", "open"}
    BY <1>3, <1>7 DEF Connect, AfterConnect
  <2> QED
    BY <1>2, <1>3, <1>7, <2>1 DEF Connect, AfterConnect, JoinedAs, LinkStates, Gone
<1>8. CASE ConnectRefused(p)
  <2>1. link[p] = "connecting" /\ ~connected[p] /\ ~Listening(q) /\ UNCHANGED <<connected, accepted, stream>>
    BY <1>1, <1>8 DEF ConnectRefused
  <2>2. CASE slept[p] > COMM_TIMEOUT
    <3>1. link' = [link EXCEPT ![p] = "failed"] /\ slept' = slept
      BY <1>8, <2>2 DEF ConnectRefused
    <3>2. accepted[p]
      <4>1. COMM_TIMEOUT \in Nat
        BY TcpAssumption
      <4>2. slept[p] # 0
        BY <2>2, <4>1
      <4> QED
        BY <1>3, <2>1, <4>2 DEF JoinedAs
    <3>3. link[q] = "failed"
      <4>1. connected[q] /\ link[q] # "down"
        BY <1>3, <3>2 DEF JoinedAs
      <4>2. link[q] \notin {"open", "closed"}
        BY <1>3, <2>1 DEF JoinedAs
      <4>3. link[q] \in LinkStates
        BY <1>2, <1>3
      <4> QED
        BY <2>1, <4>1, <4>2, <4>3 DEF Listening, LinkStates
    <3>4. ~(Suited(params) /\ crashes = 0)
      BY <1>2, <1>3, <3>3 DEF Quiet
    <3> QED
      BY <1>2, <1>3, <2>1, <3>1, <3>4 DEF JoinedAs, LinkStates, Gone
  <2>3. CASE ~(slept[p] > COMM_TIMEOUT)
    <3>1. link' = [link EXCEPT ![p] = AfterConnect(FALSE, accepted[p])]
          /\ slept' = [slept EXCEPT ![p] = @ + COMM_SLEEP]
      BY <1>8, <2>3 DEF ConnectRefused
    <3>2. slept' \in [Parties -> Nat] /\ slept'[q] = slept[q]
      BY <1>2, <1>3, <3>1, TcpAssumption
    <3> QED
      BY <1>2, <1>3, <2>1, <3>1, <3>2 DEF AfterConnect, JoinedAs, LinkStates, Gone
  <2> QED
    BY <2>2, <2>3
<1>9. CASE Accept(p)
  BY <1>1, <1>2, <1>3, <1>9 DEF Accept, AfterAccept, JoinedAs, LinkStates, Gone
<1> QED
  BY <1>6, <1>7, <1>8, <1>9 DEF Joining, Join

LEMMA StandingStill ==
  ASSUME IInv, UNCHANGED vars
  PROVE  IInv'
<1>1. UNCHANGED <<link, connected, accepted, slept, stream, params, pc, moved, pool, crashes>>
  BY DEF vars, tcpVars
<1>2. Typed' /\ Together' /\ Quiet'
  BY <1>1 DEF IInv, Typed, Together, Quiet
<1>3. ASSUME NEW p \in Parties PROVE Joint(p)' /\ Standing(p)' /\ Flowing(p)'
  <2>1. script(p)' = script(p) /\ script(Peer(p))' = script(Peer(p)) /\ Gone(Peer(p))' = Gone(Peer(p))
    BY <1>1 DEF script, Gone
  <2> QED
    BY <1>1, <2>1 DEF IInv, Joint, Standing, Flowing
<1> QED
  BY <1>2, <1>3 DEF IInv

LEMMA Going == IInv /\ [Next]_vars => IInv'
<1> SUFFICES ASSUME IInv, [Next]_vars PROVE IInv'
  OBVIOUS
<1>1. ASSUME NEW p \in Parties, LocalCheck(p) PROVE IInv'
  <2>1. CASE At(p, "pass") /\ Step(p) /\ UNCHANGED link
    BY <1>1, <2>1, JudgingKeeps DEF LocalCheck
  <2>2. CASE At(p, "throw") /\ Fail(p) /\ UNCHANGED <<pc, moved>>
    BY <1>1, <2>2, ThrowingKeeps DEF LocalCheck
  <2> QED
    BY <1>1, <2>1, <2>2 DEF LocalCheck
<1>2. ASSUME NEW p \in Parties, Proceed(p) PROVE IInv'
  BY <1>1, <1>2, JoiningKeeps, CheckingKeeps, GettingKeeps, WritingKeeps, ReadingKeeps, LosingKeeps,
     ClosingKeeps
  DEF Proceed
<1> QED
  BY <1>2, ConnectingKeeps, FillingKeeps, CrashingKeeps, StandingStill DEF Next, Stop

\* The inductive invariant holds throughout a run of the protocol.
THEOREM Invariance == Spec => []IInv
<1> QED
  BY Beginning, Going, PTL DEF Spec

-----------------------------------------------------------------------------
\* What the invariant says of one party and its peer, as the proofs below use it.
Meeting(s, r, d, e, x, y, p, q) ==
  /\ q = Peer(p) /\ s = script(p) /\ r = script(q) /\ d = Sends(p) /\ e = Sends(q)
  /\ x = InSr(params) /\ y = InRs(params)

LEMMA Both ==
  ASSUME IInv, NEW p \in Parties, NEW s, NEW r, NEW d, NEW e, NEW x, NEW y, NEW q,
         Meeting(s, r, d, e, x, y, p, q)
  PROVE  /\ q \in Parties /\ Known(s, r, d, e, x, y)
         /\ Where(s, pc[p], moved[p]) /\ Where(r, pc[q], moved[q])
         /\ Flows(s, r, pc[p], moved[p], pc[q], moved[q], stream[p], Gone(q))
         /\ Flows(r, s, pc[q], moved[q], pc[p], moved[p], stream[q], Gone(p))
         /\ Stands(s, pc[p], moved[p], pool[p], link[p], x, y)
         /\ Stands(r, pc[q], moved[q], pool[q], link[q], x, y)
<1>1. q \in Parties /\ Peer(q) = p
  BY Here DEF Meeting
<1>2. Flowing(p) /\ Flowing(q) /\ Standing(p) /\ Standing(q)
  BY <1>1 DEF IInv
<1>3. Known(s, r, d, e, x, y) /\ Where(s, pc[p], moved[p]) /\ Where(r, pc[q], moved[q])
  BY Here DEF Meeting
<1> QED
  BY <1>1, <1>2, <1>3 DEF Meeting, Flowing, Standing

\* All that the one has to write is what the other has to read.
LEMMA SameAmounts ==
  ASSUME NEW s, NEW r, NEW d, NEW e, NEW x, NEW y, Known(s, r, d, e, x, y)
  PROVE  \E z \in Nat : /\ z = Upto(s, "write")[Len(s)] /\ z = Upto(r, "read")[Len(s)]
                        /\ \A i \in 0..Len(s) : Upto(s, "write")[i] \in Nat /\ Upto(s, "write")[i] <= z
                        /\ \A i \in 0..Len(s) : Upto(r, "read")[i] \in Nat /\ Upto(r, "read")[i] <= z
<1>1. /\ s \in Seq(Ops) /\ r \in Seq(Ops) /\ Len(s) \in Nat /\ Len(r) = Len(s) /\ Woven(s, r, d, e)
  BY DEF Known
<1>2. Upto(s, "write")[Len(s)] = Upto(r, "read")[Len(s)]
  BY <1>1, AllIsRead
<1>3. Counts(Upto(s, "write"), Amounts(s, "write"), Len(s)) /\ Counts(Upto(r, "read"), Amounts(r, "read"), Len(s))
  BY <1>1, UptoIs
<1>4. Len(s) \in 0..Len(s) /\ \A i \in 0..Len(s) : i \in 0..Len(s)
  BY <1>1
<1>5. \A i \in 0..Len(s) : /\ Upto(s, "write")[i] \in Nat /\ Upto(s, "write")[i] <= Upto(s, "write")[Len(s)]
                           /\ Upto(r, "read")[i] \in Nat /\ Upto(r, "read")[i] <= Upto(r, "read")[Len(s)]
  BY <1>1, <1>3, <1>4, CountsGrow
<1> QED
  BY <1>2, <1>4, <1>5

\* No more is done than there is in all.
LEMMA DoneAtMost ==
  ASSUME NEW s, NEW r, NEW d, NEW e, NEW x, NEW y, Known(s, r, d, e, x, y),
         NEW k, NEW m, Where(s, k, m), NEW b, b = Done(s, "write", k, m),
         NEW z, z = Upto(s, "write")[Len(s)]
  PROVE  b <= z
<1>1. PICK w \in Nat : /\ w = z
                       /\ \A i \in 0..Len(s) : Upto(s, "write")[i] \in Nat /\ Upto(s, "write")[i] <= w
  BY SameAmounts
<1>2. s \in Seq(Ops) /\ Len(s) \in Nat /\ k \in Nat /\ k \in 0..Len(s)
  BY DEF Known, Where
<1>3. CASE k = Len(s)
  <2>1. Upto(s, "write")[k] \in Nat
    BY <1>1, <1>2
  <2>2. b = Upto(s, "write")[k] + 0
    BY <1>2, <1>3 DEF Done
  <2> QED
    BY <1>1, <1>3, <2>1, <2>2
<1>4. CASE k < Len(s)
  <2>1. PICK i \in 1..Len(s) : i = k + 1 /\ i \in 0..Len(s) /\ k < i
    BY <1>2, <1>4
  <2>2. CASE s[i].op = "write"
    <3>1. s[k + 1].op # "rot"
      BY <2>1, <2>2
    <3>2. s[i].n > 0
      BY <1>4, <2>1, <3>1, KnownAt
    <3>3. Done(s, "write", k, m) < Upto(s, "write")[i]
      BY <1>2, <2>1, <2>2, <3>2, DoneAhead
    <3>4. b \in Nat
      BY <1>2, DoneType
    <3>5. PICK v \in Nat : v = Upto(s, "write")[i] /\ v <= w
      BY <1>1, <2>1
    <3> QED
      BY <1>1, <3>3, <3>4, <3>5
  <2>3. CASE s[i].op # "write"
    <3>1. Upto(s, "write")[k] \in Nat /\ Upto(s, "write")[k] <= w
      BY <1>1, <1>2
    <3>2. b = Upto(s, "write")[k] + 0
      BY <2>1, <2>3 DEF Done
    <3> QED
      BY <1>1, <3>1, <3>2
  <2> QED
    BY <2>2, <2>3
<1> QED
  BY <1>2, <1>3, <1>4

\* A party that has come to its end has read all that its peer has to write.
LEMMA AllHeard ==
  ASSUME NEW s, NEW r, NEW d, NEW e, NEW x, NEW y, Known(s, r, d, e, x, y),
         NEW k, NEW m, NEW t, NEW gone, NEW n, Where(s, k, m), Where(r, Len(r), n),
         Flows(s, r, k, m, Len(r), n, t, gone)
  PROVE  t = <<>> /\ \A i \in (k + 1)..Len(s) : s[i].op # "write"
<1>1. PICK z \in Nat : /\ z = Upto(s, "write")[Len(s)] /\ z = Upto(r, "read")[Len(s)]
                       /\ \A i \in 0..Len(s) : Upto(s, "write")[i] \in Nat /\ Upto(s, "write")[i] <= z
  BY SameAmounts
<1>2. s \in Seq(Ops) /\ r \in Seq(Ops) /\ Len(s) \in Nat /\ Len(r) = Len(s) /\ k \in Nat
  BY DEF Known, Where
<1>3. PICK a, b \in Nat : a = Done(r, "read", Len(r), n) /\ b = Done(s, "write", k, m)
  BY <1>2, DoneType
<1>4. z <= a
  BY <1>1, <1>2, <1>3, DoneType
<1>5. t \in Seq(Wire) /\ Len(t) \in Nat /\ a + Len(t) <= b
  BY <1>3 DEF Flows
<1>6. b <= z
  BY <1>1, <1>3, DoneAtMost
<1>7. t = <<>>
  <2>1. PICK l \in Nat : l = Len(t)
    BY <1>5
  <2>2. a + l <= b
    BY <1>5, <2>1
  <2>3. l = 0
    BY <1>4, <1>6, <2>2
  <2>4. Len(t) = 0
    BY <2>1, <2>3
  <2> QED
    BY <1>5, <2>4, EmptySeq
<1>8. ASSUME NEW i \in (k + 1)..Len(s), s[i].op = "write" PROVE FALSE
  <2>1. i \in 1..Len(s) /\ k < i /\ i \in 0..Len(s)
    BY <1>2
  <2>2. s[i].n > 0
    <3>1. i >= 3
      <4>1. i \notin 1..2
        BY <1>8 DEF Known, Woven
      <4> QED
        BY <2>1, <4>1
    <3> QED
      BY <1>2, <2>1, <3>1 DEF Known, Woven
  <2>3. Done(s, "write", k, m) < Upto(s, "write")[i]
    BY <1>2, <1>8, <2>1, <2>2, DoneAhead
  <2>4. PICK v \in Nat : v = Upto(s, "write")[i] /\ v <= z
    BY <1>1, <2>1
  <2>5. b < v
    BY <1>3, <2>3, <2>4
  <2>6. PICK l \in Nat : l = Len(t) /\ a + l <= b
    BY <1>5
  <2> QED
    BY <1>4, <2>4, <2>5, <2>6
<1> QED
  BY <1>7, <1>8

LEMMA EndedClean ==
  ASSUME IInv, NEW p \in Parties, link[p] = "closed"
  PROVE  /\ \A d \in Directions : pool[p][d] = 0
         /\ stream[Peer(p)] = <<>>
         /\ \A i \in (pc[Peer(p)] + 1)..Len(script(Peer(p))) : script(Peer(p))[i].op # "write"
<1>1. PICK s, r, d, e, x, y, q : Meeting(s, r, d, e, x, y, p, q)
  BY DEF Meeting
<1>2. /\ q \in Parties /\ Known(s, r, d, e, x, y)
      /\ Where(s, pc[p], moved[p]) /\ Where(r, pc[q], moved[q])
      /\ Flows(r, s, pc[q], moved[q], pc[p], moved[p], stream[q], Gone(p))
      /\ Stands(s, pc[p], moved[p], pool[p], link[p], x, y)
  BY <1>1, Both
<1>3. pc[p] = Len(s) /\ Len(s) \in Nat /\ Len(s) >= 2 /\ x \in Nat /\ y \in Nat
  BY <1>2 DEF Stands, Known
<1>4. \A c \in Directions : pool[p][c] = 0
  <2>1. pool[p]["sr"] = x - Taken(s, "sr")[Len(s)] /\ pool[p]["rs"] = y - Taken(s, "rs")[Len(s)]
    <3>1. Len(s) >= 1
      BY <1>3
    <3> QED
      BY <1>2, <1>3, <3>1 DEF Stands
  <2>2. pool[p]["sr"] = 0 /\ pool[p]["rs"] = 0
    <3>1. x - x = 0 /\ y - y = 0
      BY <1>3
    <3>2. Taken(s, "sr")[Len(s)] = x /\ Taken(s, "rs")[Len(s)] = y
      BY <1>2 DEF Known
    <3> QED
      BY <2>1, <3>1, <3>2
  <2> QED
    BY <2>2 DEF Directions
<1>5. Known(r, s, e, d, x, y)
  <2>1. Meeting(r, s, e, d, x, y, q, p)
    BY <1>1, Here DEF Meeting
  <2> QED
    BY <1>2, <2>1, Both
<1>6. stream[q] = <<>> /\ \A i \in (pc[q] + 1)..Len(r) : r[i].op # "write"
  BY <1>2, <1>3, <1>5, AllHeard
<1> QED
  BY <1>1, <1>4, <1>6 DEF Meeting

\* With parameters that are not suited Bob throws, and Alice does not get the
\* last of the messages that he would have written.
LEMMA NoneEnds ==
  ASSUME IInv, ~Suited(params), NEW p \in Parties
  PROVE  link[p] # "closed"
<1>1. /\ params \in ParamSet /\ Bob \in Parties /\ Alice \in Parties
      /\ Peer(Alice) = Bob /\ Peer(Bob) = Alice
  BY TcpAssumption DEF IInv, Typed, Parties, Peer
<1>2. PICK s : s = script(Bob)
  OBVIOUS
<1>3. Barred(s)
  BY <1>1, <1>2, ScriptsFit DEF script
<1>4. PICK i, j \in 1..Len(s) : i < j /\ s[i].op = "throw" /\ s[j].op = "write"
  BY <1>3 DEF Barred
<1>5. PICK k : k = pc[Bob]
  OBVIOUS
<1>6. Where(s, k, moved[Bob]) /\ Unbarred(s, k) /\ (link[Bob] = "closed" => k = Len(s))
  BY <1>1, <1>2, <1>5 DEF IInv, Standing, Stands
<1>7. k \in Nat /\ s \in Seq(Ops) /\ Len(s) \in Nat
  <2>1. s \in Seq(Ops)
    BY <1>1, <1>2, ScriptKnown DEF Known, script
  <2> QED
    BY <1>6, <2>1 DEF Where
<1>8. ~(i <= k)
  BY <1>4, <1>6, <1>7 DEF Unbarred
<1>9. link[Bob] # "closed"
  BY <1>4, <1>6, <1>7, <1>8
<1>10. ASSUME link[Alice] = "closed" PROVE FALSE
  <2>1. \A n \in (k + 1)..Len(s) : s[n].op # "write"
    BY <1>1, <1>2, <1>5, <1>10, EndedClean
  <2>2. j \in (k + 1)..Len(s)
    BY <1>4, <1>7, <1>8
  <2> QED
    BY <1>4, <2>1, <2>2
<1> QED
  BY <1>9, <1>10 DEF Parties

-----------------------------------------------------------------------------
\* The next read of a party, and the byte that is due to it.
LEMMA NextReadIs ==
  ASSUME NEW s, NEW r, NEW d, NEW e, NEW x, NEW y, Known(s, r, d, e, x, y),
         NEW k, NEW m, Where(s, k, m),
         NEW a \in Nat, a = Done(s, "read", k, m), a < Upto(s, "read")[Len(s)]
  PROVE  \E i \in (k + 1)..Len(s) :
           /\ s[i].op = "read" /\ Upto(s, "read")[i - 1] <= a /\ a < Upto(s, "read")[i]
           /\ Upto(s, "read")[i - 1] \in Nat
           /\ a - Upto(s, "read")[i - 1] = (IF i = k + 1 THEN m ELSE 0)
           /\ \A j \in (k + 1)..Len(s) : s[j].op = "read" => i <= j
<1>1. PICK L \in Nat : L = Len(s) /\ s \in Seq(Ops) /\ k \in 0..L /\ m \in Nat
  BY DEF Known, Where
<1>2. PICK R, f : R = Upto(s, "read") /\ f = Amounts(s, "read") /\ Counts(R, f, L)
  BY <1>1, UptoIs
<1>3. PICK i \in 1..L : R[i - 1] <= a /\ a < R[i] /\ f[i] > 0
  BY <1>1, <1>2, PlaceOf
<1>4. s[i].op = "read" /\ R[i] \in Nat /\ R[i - 1] \in Nat
  BY <1>1, <1>2, <1>3, CountsStep DEF Amounts
<1>5. R[k] <= a /\ R[k] \in Nat
  <2>1. k \in 0..L
    BY <1>1
  <2>2. R[k] \in Nat
    BY <1>2, <2>1 DEF Counts
  <2> QED
    BY <1>1, <1>2, <2>2, DoneType
<1>6. i > k
  <2> SUFFICES ASSUME i <= k PROVE FALSE
    BY <1>1
  <2>1. i \in 0..k /\ k \in 0..L
    BY <1>1
  <2>2. R[i] <= R[k]
    BY <1>2, <2>1, CountsGrow
  <2> QED
    BY <1>3, <1>4, <1>5, <2>2
<1>7. ASSUME NEW j \in (k + 1)..L, s[j].op = "read", j < i PROVE FALSE
  <2>1. j \in 1..L /\ k < j /\ j \in 0..(i - 1) /\ i - 1 \in 0..L
    BY <1>1, <1>7
  <2>2. s[j].n > 0
    <3>1. j >= 3
      <4>1. j \notin 1..2
        BY <1>7 DEF Known, Woven
      <4> QED
        BY <2>1, <4>1
    <3> QED
      BY <1>1, <2>1, <3>1 DEF Known, Woven
  <2>3. a < R[j]
    BY <1>1, <1>2, <1>7, <2>1, <2>2, DoneAhead
  <2>4. R[j] <= R[i - 1] /\ R[j] \in Nat
    BY <1>2, <2>1, CountsGrow
  <2> QED
    BY <1>3, <1>4, <2>3, <2>4
<1>8. a - R[i - 1] = (IF i = k + 1 THEN m ELSE 0)
  <2>1. CASE i = k + 1
    <3>1. i - 1 = k /\ k < Len(s) /\ s[k + 1].op = "read"
      BY <1>1, <1>4, <2>1
    <3>2. a = R[k] + m
      BY <1>2, <3>1 DEF Done
    <3>3. PICK b \in Nat : b = R[k]
      BY <1>5
    <3>4. (b + m) - b = m
      BY <1>1
    <3> QED
      BY <2>1, <3>1, <3>2, <3>3, <3>4
  <2>2. CASE i # k + 1
    <3>1. k + 1 \in (k + 1)..L /\ k + 1 < i /\ k < Len(s) /\ k \in 0..(i - 1) /\ i - 1 \in 0..L
      BY <1>1, <1>6, <2>2
    <3>2. s[k + 1].op # "read"
      BY <1>7, <3>1
    <3>3. a = R[k]
      BY <1>2, <1>5, <3>2 DEF Done
    <3>4. R[k] <= R[i - 1]
      BY <1>2, <3>1, CountsGrow
    <3>5. PICK b \in Nat : b = R[i - 1]
      BY <1>4
    <3>6. a = b
      BY <1>3, <3>3, <3>4, <3>5
    <3>7. a - b = 0
      BY <3>6
    <3> QED
      BY <2>2, <3>5, <3>7
  <2> QED
    BY <2>1, <2>2
<1>9. i \in (k + 1)..L /\ \A j \in (k + 1)..L : s[j].op = "read" => i <= j
  BY <1>1, <1>6, <1>7
<1> QED
  BY <1>1, <1>2, <1>3, <1>4, <1>8, <1>9

\* The byte at the head of the stream is of the message that is read next.
LEMMA HeadDue ==
  ASSUME NEW s, NEW r, NEW d, NEW e, NEW x, NEW y, Known(s, r, d, e, x, y),
         NEW i \in 1..Len(s), s[i].op = "read", NEW a \in Nat, NEW b \in Nat, b = Upto(s, "read")[i - 1],
         b <= a, a < Upto(s, "read")[i], NEW t \in Seq(Wire), t # <<>>, Carried(r, a, t)
  PROVE  Head(t) = <<s[i].tag, (a - b) + 1>>
<1>1. /\ s \in Seq(Ops) /\ r \in Seq(Ops) /\ Len(s) \in Nat /\ Len(r) = Len(s)
      /\ Woven(r, s, e, d) /\ i \in 1..Len(r)
  BY DEF Known
<1>2. PICK j \in 1..Len(r) : Message(r[j], s[i]) /\ Upto(r, "write")[j - 1] = b
  BY <1>1, ReadMeetsWrite
<1>3. r[j].op = "write" /\ r[j].tag = s[i].tag /\ r[j].n = s[i].n
  BY <1>2 DEF Message
<1>4. PICK n \in Nat : n = s[i].n
  BY <1>1, NumberOf
<1>5. Upto(s, "read")[i] = b + n
  <2>1. PICK F, f : F = Upto(s, "read") /\ f = Amounts(s, "read") /\ Counts(F, f, Len(s))
    BY <1>1, UptoIs
  <2>2. F[i] = F[i - 1] + f[i]
    BY <1>1, <2>1, CountsStep
  <2>3. f[i] = n
    BY <1>4, <2>1 DEF Amounts
  <2> QED
    BY <2>1, <2>2, <2>3
<1>6. Upto(r, "write")[j] = b + n
  <2>1. PICK F, f : F = Upto(r, "write") /\ f = Amounts(r, "write") /\ Counts(F, f, Len(r))
    BY <1>1, UptoIs
  <2>2. F[j] = F[j - 1] + f[j]
    BY <1>1, <2>1, CountsStep
  <2>3. f[j] = n
    BY <1>3, <1>4, <2>1 DEF Amounts
  <2> QED
    BY <1>2, <2>1, <2>2, <2>3
<1>7. 1 \in 1..Len(t) /\ Head(t) = t[1]
  <2>1. Len(t) \in Nat \ {0}
    BY EmptySeq
  <2> QED
    BY <2>1, HeadTailProperties
<1>8. b < a + 1 /\ a + 1 <= b + n /\ (a + 1) - b = (a - b) + 1
  <2>1. a < b + n /\ b <= a
    BY <1>5
  <2>2. a \in Nat /\ b \in Nat /\ n \in Nat
    OBVIOUS
  <2> QED
    BY ONLY <2>1, <2>2
<1>9. t[1] = <<r[j].tag, (a + 1) - Upto(r, "write")[j - 1]>>
  BY <1>2, <1>3, <1>6, <1>7, <1>8 DEF Carried
<1> QED
  BY <1>2, <1>3, <1>7, <1>8, <1>9

LEMMA Aligned ==
  ASSUME IInv, NEW p \in Parties, stream[Peer(p)] # <<>>
  PROVE  LET i == NextRead(p)
         IN  /\ i # 0
             /\ Head(stream[Peer(p)]) =
                  <<script(p)[i].tag, IF i = pc[p] + 1 THEN moved[p] + 1 ELSE 1>>
<1>1. PICK s, r, d, e, x, y, q : Meeting(s, r, d, e, x, y, p, q)
  BY DEF Meeting
<1>2. /\ q \in Parties /\ Known(s, r, d, e, x, y)
      /\ Where(s, pc[p], moved[p]) /\ Where(r, pc[q], moved[q])
      /\ Flows(r, s, pc[q], moved[q], pc[p], moved[p], stream[q], Gone(p))
  BY <1>1, Both
<1>3. PICK k, m, t : k = pc[p] /\ m = moved[p] /\ t = stream[q]
  OBVIOUS
<1>4. s \in Seq(Ops) /\ r \in Seq(Ops) /\ Len(s) \in Nat /\ k \in Nat /\ m \in Nat
  BY <1>2, <1>3 DEF Known, Where
<1>5. PICK a, b \in Nat : a = Done(s, "read", k, m) /\ b = Done(r, "write", pc[q], moved[q])
  BY <1>2, <1>3, <1>4, DoneType
<1>6. t \in Seq(Wire) /\ t # <<>> /\ a + Len(t) <= b /\ Carried(r, a, t)
  BY <1>1, <1>2, <1>3, <1>5 DEF Flows, Meeting
<1>7. a < Upto(s, "read")[Len(s)]
  <2>1. PICK z \in Nat : z = Upto(s, "read")[Len(s)] /\ z >= b
    <3>1. Known(r, s, e, d, x, y)
      <4>1. Meeting(r, s, e, d, x, y, q, p)
        BY <1>1, Here DEF Meeting
      <4> QED
        BY <1>2, <4>1, Both
    <3>2. PICK z \in Nat : z = Upto(r, "write")[Len(r)] /\ z = Upto(s, "read")[Len(r)]
      BY <3>1, SameAmounts
    <3>3. Len(r) = Len(s)
      BY <1>2 DEF Known
    <3>4. b <= z
      BY <1>2, <1>4, <1>5, <3>2, <3>1, DoneAtMost
    <3> QED
      BY <3>2, <3>3, <3>4
  <2>2. PICK l \in Nat : l = Len(t) /\ l > 0
    <3>1. Len(t) \in Nat /\ Len(t) # 0
      BY <1>6, EmptySeq
    <3> QED
      BY <3>1
  <2>3. a < z
    BY <1>6, <2>1, <2>2
  <2> QED
    BY <2>1, <2>3
<1>8. PICK i \in (k + 1)..Len(s) :
           /\ s[i].op = "read" /\ Upto(s, "read")[i - 1] <= a /\ a < Upto(s, "read")[i]
           /\ Upto(s, "read")[i - 1] \in Nat
           /\ a - Upto(s, "read")[i - 1] = (IF i = k + 1 THEN m ELSE 0)
           /\ \A j \in (k + 1)..Len(s) : s[j].op = "read" => i <= j
  <2>1. Known(s, r, d, e, x, y) /\ Where(s, k, m) /\ a = Done(s, "read", k, m)
    BY <1>2, <1>3, <1>5
  <2> QED
    BY <1>7, <2>1, NextReadIs, SMTT(30)
<1>9. PICK c \in Nat : c = Upto(s, "read")[i - 1]
  BY <1>8
<1>10. i \in 1..Len(s) /\ i # 0
  <2>1. k \in Nat /\ Len(s) \in Nat
    BY <1>4
  <2>2. i \in Int /\ i >= k + 1 /\ i <= Len(s)
    BY <2>1
  <2> QED
    BY ONLY <2>1, <2>2
<1>11. Head(t) = <<s[i].tag, (a - c) + 1>>
  <2>1. c <= a /\ a < Upto(s, "read")[i] /\ s[i].op = "read"
    BY <1>8, <1>9
  <2>2. i \in 1..Len(s) /\ c = Upto(s, "read")[i - 1]
    BY <1>9, <1>10
  <2>3. /\ Known(s, r, d, e, x, y) /\ t \in Seq(Wire) /\ t # <<>> /\ Carried(r, a, t)
        /\ a \in Nat /\ c \in Nat
    BY <1>2, <1>5, <1>6, <1>9
  <2> QED
    BY ONLY <2>1, <2>2, <2>3, HeadDue, SMTT(30)
<1>12. NextRead(p) = i
  <2>1. PICK S : S = {j \in (k + 1)..Len(s) : s[j].op = "read"}
    OBVIOUS
  <2>2. S \in SUBSET Nat /\ i \in S /\ S # {} /\ \A j \in S : i <= j
    BY <1>4, <1>8, <2>1
  <2>3. Min(S) = i
    <3>1. \A v \in S : (\A j \in S : v <= j) => v = i
      BY <2>2
    <3> QED
      BY <2>2, <3>1 DEF Min
  <2> QED
    BY <1>1, <1>3, <2>1, <2>2, <2>3 DEF NextRead, Meeting
<1>13. (a - c) + 1 = IF i = k + 1 THEN m + 1 ELSE 1
  BY <1>8, <1>9
<1> QED
  BY <1>1, <1>3, <1>10, <1>11, <1>12, <1>13 DEF Meeting

-----------------------------------------------------------------------------
\* Where the sender of a transfer takes its OTs, the receiver is one place ahead.
LEMMA TakingAt ==
  ASSUME NEW s, NEW r, NEW d, NEW e, NEW x, NEW y, Known(s, r, d, e, x, y), d # e,
         NEW k, NEW m, Where(s, k, m), k < Len(s), s[k + 1].op = "get", s[k + 1].dir = d
  PROVE  /\ r[k + 1].op = "write" /\ r[k + 2].op = "read" /\ k + 2 <= Len(s)
         /\ r[k + 1].n > 0 /\ r[k + 2].n > 0 /\ k >= 3
<1>1. k \in Nat /\ k >= 2 /\ k + 1 \in 1..Len(s) /\ Len(s) \in Nat
  <2>1. s[k + 1].op # "rot"
    OBVIOUS
  <2> QED
    BY <2>1, KnownAt DEF Known
<1>2. PICK g \in 3..Len(s) : g = k + 1 /\ g - 1 = k /\ g + 1 = k + 2
  BY <1>1
<1>3. Place(s, r, g, d, e) /\ r[g].n > 0
  BY <1>2 DEF Known, Woven
<1>4. ~Swap(r, s, g, e)
  BY <1>2 DEF Swap
<1>5. ~Swap(r, s, g - 1, e) /\ ~Swap(s, r, g, d) /\ ~Message(s[g], r[g]) /\ ~Message(r[g], s[g])
      /\ ~Checked(s, r, g) /\ ~Judged(s[g], r[g], Verdicts)
  <2>1. g - 1 + 1 = g
    OBVIOUS
  <2> QED
    BY <1>2, <2>1 DEF Swap, Message, Checked, Judged, Verdicts
<1>6. Swap(s, r, k, d) /\ k >= 3
  BY <1>2, <1>3, <1>4, <1>5 DEF Place
<1>7. r[k + 1].op = "write" /\ Message(s[k + 2], r[k + 2]) /\ k + 2 <= Len(s)
  BY <1>6 DEF Swap
<1>8. r[k + 2].op = "read"
  BY <1>7 DEF Message
<1>9. r[k + 2].n > 0
  <2>1. k + 2 \in 3..Len(s)
    BY <1>1, <1>7
  <2> QED
    BY <2>1 DEF Known, Woven
<1> QED
  BY <1>2, <1>3, <1>6, <1>7, <1>8, <1>9

LEMMA ReceiverAt ==
  ASSUME NEW s, NEW r, NEW d, NEW e, NEW x, NEW y, Known(s, r, d, e, x, y), d # e,
         NEW k, NEW m, Where(s, k, m), k < Len(s), s[k + 1].op = "get", s[k + 1].dir = d,
         NEW j, NEW n, Where(r, j, n), NEW t, NEW u, NEW a, NEW b,
         Flows(s, r, k, m, j, n, t, a), Flows(r, s, j, n, k, m, u, b)
  PROVE  j = k + 1
<1>1. /\ r[k + 1].op = "write" /\ r[k + 2].op = "read" /\ k + 2 <= Len(s)
      /\ r[k + 1].n > 0 /\ r[k + 2].n > 0 /\ k >= 3
  BY TakingAt
<1>2. /\ s \in Seq(Ops) /\ r \in Seq(Ops) /\ Len(s) \in Nat /\ Len(r) = Len(s) /\ k \in Nat /\ j \in Nat
      /\ Woven(s, r, d, e) /\ Woven(r, s, e, d)
  BY DEF Known, Where
<1>3. PICK g \in 1..Len(s) : g = k + 1 /\ g - 1 = k /\ g \in 0..Len(s)
  BY <1>1, <1>2
<1>4. PICK h \in 1..Len(s) : h = k + 2 /\ h - 1 = g /\ h \in 0..Len(s)
  BY <1>1, <1>2, <1>3
<1>5. Upto(s, "read")[g] = Upto(r, "write")[g] /\ Upto(r, "read")[g] = Upto(s, "write")[g]
      /\ Upto(r, "write")[g] \in Nat /\ Upto(s, "write")[g] \in Nat
  <2>1. Upto(r, "write")[g] \in Nat /\ Upto(s, "write")[g] \in Nat
    BY <1>2, <1>3, UptoIs DEF Counts
  <2>2. Pending(s, r, g) = 0 /\ Pending(r, s, g) = 0
    BY <1>1, <1>3 DEF Pending
  <2>3. Upto(s, "read")[g] = Upto(r, "write")[g] + Pending(s, r, g)
    BY <1>2, <1>3, ReadsFollow
  <2>4. Upto(r, "read")[g] = Upto(s, "write")[g] + Pending(r, s, g)
    BY <1>2, <1>3, ReadsFollow
  <2> QED
    BY <2>1, <2>2, <2>3, <2>4
<1>6. ASSUME NEW op \in {"read", "write"} PROVE Upto(s, op)[g] = Upto(s, op)[k] /\ Upto(s, op)[k] \in Nat
  <2>1. PICK F, f : F = Upto(s, op) /\ f = Amounts(s, op) /\ Counts(F, f, Len(s))
    BY <1>2, UptoIs
  <2>2. F[g] = F[g - 1] + f[g] /\ F[g - 1] \in Nat
    BY <1>2, <2>1, CountsStep
  <2>3. f[g] = 0
    BY <1>3, <2>1 DEF Amounts
  <2> QED
    BY <1>3, <2>1, <2>2, <2>3
<1>7. Done(s, "read", k, m) = Upto(s, "read")[k] /\ Done(s, "write", k, m) = Upto(s, "write")[k]
  <2>1. Done(s, "read", k, m) = Upto(s, "read")[k] + 0 /\ Done(s, "write", k, m) = Upto(s, "write")[k] + 0
    BY DEF Done
  <2> QED
    BY <1>6, <2>1
<1>8. PICK v, w \in Nat : v = Done(r, "read", j, n) /\ w = Done(r, "write", j, n)
  BY <1>2, DoneType
<1>9. t \in Seq(Wire) /\ u \in Seq(Wire)
      /\ v + Len(t) <= Upto(s, "write")[k] /\ Upto(s, "read")[k] + Len(u) <= w
  BY <1>7, <1>8 DEF Flows
<1>10. v <= Upto(s, "write")[g] /\ Upto(s, "read")[g] <= w
  <2>1. PICK y1, y2, z1, z2 \in Nat :
           y1 = Len(t) /\ y2 = Len(u) /\ z1 = Upto(s, "write")[k] /\ z2 = Upto(s, "read")[k]
    BY <1>6, <1>9
  <2>2. v <= z1 /\ z2 <= w
    BY <1>9, <2>1
  <2> QED
    BY <1>6, <2>1, <2>2
<1>11. j >= g
  <2> SUFFICES ASSUME j < g PROVE FALSE
    BY <1>2
  <2>1. r[g].op = "write" /\ r[g].n > 0 /\ g \in 1..Len(r)
    BY <1>1, <1>2, <1>3
  <2>2. w < Upto(r, "write")[g]
    BY <1>2, <1>8, <2>1, DoneAhead
  <2> QED
    BY <1>5, <1>8, <1>10, <2>2
<1>12. j < h
  <2> SUFFICES ASSUME h <= j PROVE FALSE
    BY <1>2
  <2>1. Upto(r, "read")[h] <= v
    BY <1>2, <1>4, <1>8, DoneBefore
  <2>2. PICK F, f : F = Upto(r, "read") /\ f = Amounts(r, "read") /\ Counts(F, f, Len(s))
    BY <1>2, UptoIs
  <2>3. F[h] = F[h - 1] + f[h] /\ F[h - 1] \in Nat /\ F[h] \in Nat /\ f[h] \in Nat
    BY <1>2, <2>2, CountsStep
  <2>4. f[h] > 0
    BY <1>1, <1>2, <1>4, <2>2 DEF Amounts
  <2>5. PICK z0, z1 \in Nat : z0 = F[g] /\ z1 = F[h]
    BY <1>4, <2>3
  <2>6. z0 < z1
    BY <1>4, <2>3, <2>4, <2>5
  <2>7. z1 <= v /\ v <= z0
    BY <1>5, <1>10, <2>1, <2>2, <2>5
  <2> QED
    BY <1>8, <2>5, <2>6, <2>7
<1> QED
  BY <1>2, <1>3, <1>4, <1>11, <1>12

LEMMA SenderTakes ==
  ASSUME IInv, NEW p \in Parties, At(p, "get"), Op(p).dir = Sends(p)
  PROVE  pool[Peer(p)][Sends(p)] = pool[p][Sends(p)] - Op(p).n
<1>1. PICK s, r, d, e, x, y, q : Meeting(s, r, d, e, x, y, p, q)
  BY DEF Meeting
<1>2. /\ q \in Parties /\ Known(s, r, d, e, x, y)
      /\ Where(s, pc[p], moved[p]) /\ Where(r, pc[q], moved[q])
      /\ Flows(s, r, pc[p], moved[p], pc[q], moved[q], stream[p], Gone(q))
      /\ Flows(r, s, pc[q], moved[q], pc[p], moved[p], stream[q], Gone(p))
      /\ Stands(s, pc[p], moved[p], pool[p], link[p], x, y)
      /\ Stands(r, pc[q], moved[q], pool[q], link[q], x, y)
  BY <1>1, Both
<1>3. PICK k : k = pc[p]
  OBVIOUS
<1>4. d # e /\ d \in {"sr", "rs"}
  <2>1. p = Alice \/ p = Bob
    BY DEF Parties
  <2> QED
    BY <1>1, <2>1, TcpAssumption DEF Meeting, Sends, Peer
<1>5. k < Len(s) /\ s[k + 1].op = "get" /\ s[k + 1].dir = d /\ Op(p).n = s[k + 1].n
  BY <1>1, <1>3 DEF At, Op, Meeting
<1>6. pc[q] = k + 1
  BY <1>2, <1>3, <1>4, <1>5, ReceiverAt
<1>7. r[k + 1].op = "write" /\ k >= 3
  BY <1>2, <1>3, <1>4, <1>5, TakingAt
<1>8. /\ s \in Seq(Ops) /\ r \in Seq(Ops) /\ Len(s) \in Nat /\ Woven(s, r, d, e) /\ k \in Nat
      /\ x \in Nat /\ y \in Nat
  BY <1>2, <1>3 DEF Known, Where
<1>9. PICK g \in 1..Len(s) : g = k + 1 /\ g \in 0..Len(s) /\ k \in 0..(Len(s) - 1)
  BY <1>5, <1>8
<1>10. Taken(s, d)[g] = Taken(s, d)[k] + s[g].n /\ Taken(s, d)[k] \in Nat /\ s[g].n \in Nat
  <2>1. Gets(s, d)[g] = s[g].n
    BY <1>5, <1>9 DEF Gets
  <2> QED
    BY <1>8, <1>9, <2>1, NumberOf, StepTaken
<1>11. Taken(r, d)[g] = Taken(s, d)[g]
  <2>1. Ahead(s, r, g, d) = 0 /\ Ahead(r, s, g, d) = 0
    BY <1>5, <1>7, <1>9 DEF Ahead
  <2>2. Taken(s, d)[g] + Ahead(s, r, g, d) = Taken(r, d)[g] + Ahead(r, s, g, d)
    BY <1>8, <1>9, TakesFollow
  <2>3. Taken(s, d)[g] \in Nat /\ Taken(r, d)[g] \in Nat
    <3>1. Len(r) = Len(s)
      BY <1>2 DEF Known
    <3> QED
      BY <1>8, <1>9, <3>1, TakenIs DEF Counts
  <2> QED
    BY <2>1, <2>2, <2>3
<1>12. PICK N \in Nat : pool[p][d] = N - Taken(s, d)[k] /\ pool[q][d] = N - Taken(r, d)[g]
  <2>1. k >= 1 /\ k >= 2 /\ g >= 1 /\ g >= 2
    BY <1>7, <1>8, <1>9
  <2>2. /\ pool[p]["sr"] = x - Taken(s, "sr")[k] /\ pool[p]["rs"] = y - Taken(s, "rs")[k]
        /\ pool[q]["sr"] = x - Taken(r, "sr")[g] /\ pool[q]["rs"] = y - Taken(r, "rs")[g]
    BY <1>2, <1>3, <1>6, <1>9, <2>1 DEF Stands
  <2> QED
    BY <1>4, <1>8, <2>2
<1>13. pool[q][d] = pool[p][d] - s[g].n
  <2>1. PICK a, n \in Nat : a = Taken(s, d)[k] /\ n = s[g].n
    BY <1>10
  <2>2. N - (a + n) = (N - a) - n
    OBVIOUS
  <2> QED
    BY <1>10, <1>11, <1>12, <2>1, <2>2
<1> QED
  BY <1>1, <1>5, <1>9, <1>13 DEF Meeting

-----------------------------------------------------------------------------
\* No message is ever read as part of another: the first byte waiting for a party
\* is the one that its next read is due (TCP::write and TCP::read have no frames).
THEOREM StreamsAligned == Spec => []FramesAligned
<1>1. IInv => FramesAligned
  BY Aligned DEF FramesAligned
<1> QED
  BY <1>1, Invariance, PTL

\* The sizes that PCG::Sender::numOTs and PCG::Receiver::numOTs come to are just
\* what online() takes, and all that is written is read.
THEOREM AllUsedUp == Spec => []NothingLeftOver
<1>1. IInv => NothingLeftOver
  BY EndedClean DEF NothingLeftOver
<1> QED
  BY <1>1, Invariance, PTL

\* Where the reduction of the equality test does not end below its threshold and a
\* dual block has several positions, neither "out of random ots", nor the timeout
\* of TCP::join, nor an end of stream is ever met without a crash.  Where the one
\* or the other fails, the "threshold error" of EqTest::run and the exception of
\* PPRF::receive keep both parties from a normal end, whatever else happens.
THEOREM NothingThrown == Spec => []NoException
<1>1. ASSUME IInv PROVE NoException
  <2>1. Quiet
    BY <1>1 DEF IInv
  <2>2. ~Suited(params) => \A p \in Parties : link[p] # "closed"
    BY <1>1, NoneEnds
  <2> QED
    BY <2>1, <2>2 DEF Quiet, NoException
<1> QED
  BY <1>1, Invariance, PTL

\* A party that ends normally has heard all that its peer had to say.
THEOREM AllIsHeard == Spec => []ClosedHeardAll
<1>1. IInv => ClosedHeardAll
  BY EndedClean DEF ClosedHeardAll
<1> QED
  BY <1>1, Invariance, PTL

\* The two halves of every random OT meet: where ROT::Sender::transfer gets its
\* OTs, ROT::Receiver::transfer of the peer has got exactly those.
THEOREM OTsPaired == Spec => []SameOTs
<1>1. ASSUME IInv PROVE SameOTs
  <2>1. Alice \in Parties /\ Bob \in Parties /\ Sends(Alice) = "sr" /\ Sends(Bob) = "rs"
        /\ Peer(Alice) = Bob /\ Peer(Bob) = Alice
    BY TcpAssumption DEF Parties, Sends, Peer
  <2> QED
    BY <1>1, <2>1, SenderTakes DEF SameOTs
<1> QED
  BY <1>1, Invariance, PTL
=============================================================================
