----------------------------- MODULE PcgProofs -----------------------------
(***************************************************************************)
(* Proofs about the correlation generator, for all parameters, matrices    *)
(* and positions of errors: what a party decrypts is hidden by masks that  *)
(* are used once, the outputs are shares of what the errors contribute,    *)
(* and, with one seed for the two parties, each step is one of an ideal    *)
(* oblivious linear evaluation or changes nothing of it.  Then proofs      *)
(* about the two parts it is built from: the functions that are punctured  *)
(* by oblivious transfer, for all domains and points, and the matrices,    *)
(* for all sizes, threads and outputs of AES.                              *)
(***************************************************************************)
EXTENDS Pcg, Pprf, Lpn, Induction, FiniteSets, FiniteSetTheorems

-----------------------------------------------------------------------------
\* The parity of the size of a set.
Odd(X) == Cardinality(X) % 2 = 1

LEMMA OddEmpty == ~Odd({})
BY FS_EmptySet DEF Odd

LEMMA OddAdd ==
  ASSUME NEW X, IsFiniteSet(X), NEW x, x \notin X
  PROVE  Odd(X \cup {x}) <=> ~Odd(X)
<1>1. PICK n : n = Cardinality(X)
  OBVIOUS
<1>2. n \in Nat /\ Cardinality(X \cup {x}) = n + 1
  BY <1>1, FS_CardinalityType, FS_AddElement
<1>3. (n + 1) % 2 = 1 <=> ~(n % 2 = 1)
  BY <1>2
<1> QED
  BY <1>1, <1>2, <1>3 DEF Odd

LEMMA OddXor ==
  ASSUME NEW X, NEW Y, IsFiniteSet(X), IsFiniteSet(Y)
  PROVE  Odd(Xor(X, Y)) <=> (Odd(X) <=> ~Odd(Y))
<1>1. PICK V, W, Z : V = X \cap Y /\ W = X \ Y /\ Z = Y \ X
  OBVIOUS
<1>2. IsFiniteSet(V) /\ IsFiniteSet(W) /\ IsFiniteSet(Z)
  BY <1>1, FS_Subset
<1>3. X = V \cup W /\ Y = V \cup Z /\ Xor(X, Y) = W \cup Z
  BY <1>1 DEF Xor, SymDiff
<1>4. V \cap W = {} /\ V \cap Z = {} /\ W \cap Z = {}
  BY <1>1
<1>5. PICK a, b, c : a = Cardinality(V) /\ b = Cardinality(W) /\ c = Cardinality(Z)
  OBVIOUS
<1>6. a \in Nat /\ b \in Nat /\ c \in Nat
  BY <1>2, <1>5, FS_CardinalityType
<1>7. Cardinality(X) = a + b /\ Cardinality(Y) = a + c /\ Cardinality(Xor(X, Y)) = b + c
  <2>1. Cardinality({}) = 0
    BY FS_EmptySet
  <2>2. Cardinality(V \cup W) = a + b - 0
    BY <1>2, <1>4, <1>5, <2>1, FS_Union
  <2>3. Cardinality(V \cup Z) = a + c - 0
    BY <1>2, <1>4, <1>5, <2>1, FS_Union
  <2>4. Cardinality(W \cup Z) = b + c - 0
    BY <1>2, <1>4, <1>5, <2>1, FS_Union
  <2>5. a + b - 0 = a + b /\ a + c - 0 = a + c /\ b + c - 0 = b + c
    BY <1>6
  <2> QED
    BY Zenon, <1>3, <2>2, <2>3, <2>4, <2>5
<1>8. (b + c) % 2 = 1 <=> ((a + b) % 2 = 1 <=> ~((a + c) % 2 = 1))
  BY <1>6
<1> QED
  BY <1>7, <1>8 DEF Odd

\* The folds of Xor.
AnyOf(X) == CHOOSE x \in X : TRUE

Xoring == INSTANCE FoldFacts WITH op <- Xor, base <- Zero, choose <- AnyOf

LEMMA XorFold ==
  ASSUME NEW f, NEW X
  PROVE  XorOver(f, X) = Xoring!Fold(f, X)
BY DEF XorOver, FoldFunctionOnSet, MapThenFoldSet, Xoring!Fold, AnyOf

\* The instance has a definition of its own of what is finite.
LEMMA FiniteHere ==
  ASSUME NEW X
  PROVE  Xoring!IsFiniteSet(X) <=> IsFiniteSet(X)
BY Zenon DEF Xoring!IsFiniteSet, IsFiniteSet

LEMMA AnyChooses ==
  ASSUME NEW X
  PROVE  Xoring!Chooses(X)
BY DEF Xoring!Chooses, AnyOf

\* An unknown occurs in a sum if it occurs in an odd number of the terms.
Where(f, X, z) == {i \in X : z \in f[i]}

LEMMA XorOverIs ==
  ASSUME NEW f, NEW X, IsFiniteSet(X), NEW z
  PROVE  z \in XorOver(f, X) <=> Odd(Where(f, X, z))
<1> DEFINE P == {Y \in SUBSET X : z \in Xoring!Fold(f, Y) <=> Odd(Where(f, Y, z))}
<1>1. {} \in P
  <2>1. Where(f, {}, z) = {} /\ Xoring!Fold(f, {}) = {}
    BY Xoring!FoldEmpty DEF Where, Zero
  <2> QED
    BY <2>1, OddEmpty
<1>2. ASSUME NEW Y \in SUBSET X, Y # {}, Y \ {AnyOf(Y)} \in P PROVE Y \in P
  <2>1. PICK c, R : c = AnyOf(Y) /\ R = Y \ {c}
    OBVIOUS
  <2>2. c \in Y
    BY <1>2, <2>1 DEF AnyOf
  <2>3. IsFiniteSet(Y) /\ IsFiniteSet(Where(f, R, z))
    <3>1. IsFiniteSet(Y)
      BY FS_Subset
    <3>2. Where(f, R, z) \in SUBSET Y
      BY <2>1 DEF Where
    <3> QED
      BY <3>1, <3>2, FS_Subset
  <2>4. Xoring!Fold(f, Y) = Xor(f[c], Xoring!Fold(f, R))
    <3>1. Xoring!IsFiniteSet(Y) /\ Xoring!Chooses(Y)
      BY <2>3, FiniteHere, AnyChooses
    <3>2. Xoring!Fold(f, Y) = Xor(f[AnyOf(Y)], Xoring!Fold(f, Y \ {AnyOf(Y)}))
      BY <1>2, <3>1, Xoring!FoldStep
    <3> QED
      BY <2>1, <3>2
  <2>5. z \in Xoring!Fold(f, R) <=> Odd(Where(f, R, z))
    BY <1>2, <2>1
  <2>6. z \in Xoring!Fold(f, Y) <=> (z \in f[c] <=> ~(z \in Xoring!Fold(f, R)))
    BY <2>4 DEF Xor, SymDiff
  <2>7. CASE z \in f[c]
    <3>1. Where(f, Y, z) = Where(f, R, z) \cup {c} /\ c \notin Where(f, R, z)
      BY <2>1, <2>2, <2>7 DEF Where
    <3>2. Odd(Where(f, Y, z)) <=> ~Odd(Where(f, R, z))
      BY <2>3, <3>1, OddAdd
    <3> QED
      BY <2>5, <2>6, <2>7, <3>2
  <2>8. CASE z \notin f[c]
    <3>1. Where(f, Y, z) = Where(f, R, z)
      BY <2>1, <2>2, <2>8 DEF Where
    <3> QED
      BY <2>5, <2>6, <2>8, <3>1
  <2> QED
    BY <2>7, <2>8
<1> HIDE DEF P
<1>3. Xoring!IsFiniteSet(X) /\ Xoring!Chooses(X)
  BY FiniteHere, AnyChooses
<1>4. SUBSET X \subseteq P
  BY <1>1, <1>2, <1>3, Xoring!SubsetInduction
<1>5. X \in P
  BY <1>4
<1> QED
  BY <1>5, XorFold DEF P

LEMMA WhereFinite ==
  ASSUME NEW f, NEW X, IsFiniteSet(X), NEW z
  PROVE  IsFiniteSet(Where(f, X, z))
BY FS_Subset DEF Where

\* An unknown of a sum is one of a term.
LEMMA XorOverHas ==
  ASSUME NEW f, NEW X, IsFiniteSet(X), NEW z \in XorOver(f, X)
  PROVE  \E i \in X : z \in f[i]
<1>1. Odd(Where(f, X, z))
  BY XorOverIs
<1>2. Where(f, X, z) # {}
  BY <1>1, OddEmpty
<1> QED
  BY <1>2 DEF Where

\* Sums of the same terms; sums of sums; sums of one term, or of none.
LEMMA XorOverSame ==
  ASSUME NEW f, NEW g, NEW X, IsFiniteSet(X), \A i \in X : f[i] = g[i]
  PROVE  XorOver(f, X) = XorOver(g, X)
<1>1. \A z : Where(f, X, z) = Where(g, X, z)
  BY DEF Where
<1>2. \A z : z \in XorOver(f, X) <=> z \in XorOver(g, X)
  BY <1>1, XorOverIs
<1> QED
  BY <1>2

LEMMA XorOverXor ==
  ASSUME NEW f, NEW g, NEW h, NEW X, IsFiniteSet(X), \A i \in X : h[i] = Xor(f[i], g[i])
  PROVE  XorOver(h, X) = Xor(XorOver(f, X), XorOver(g, X))
<1>1. ASSUME NEW z PROVE z \in XorOver(h, X) <=> z \in Xor(XorOver(f, X), XorOver(g, X))
  <2>1. Where(h, X, z) = Xor(Where(f, X, z), Where(g, X, z))
    BY DEF Where, Xor, SymDiff
  <2>2. Odd(Where(h, X, z)) <=> (Odd(Where(f, X, z)) <=> ~Odd(Where(g, X, z)))
    BY <2>1, WhereFinite, OddXor
  <2>3. z \in XorOver(h, X) <=> (z \in XorOver(f, X) <=> ~(z \in XorOver(g, X)))
    BY <2>2, XorOverIs
  <2> QED
    BY <2>3 DEF Xor, SymDiff
<1> QED
  BY <1>1

LEMMA XorOverOne ==
  ASSUME NEW f, NEW X, IsFiniteSet(X), NEW C, NEW v, \A i \in X : f[i] = IF i \in C THEN v ELSE Zero
  PROVE  XorOver(f, X) = IF Odd(C \cap X) THEN v ELSE Zero
<1>1. ASSUME NEW z PROVE z \in XorOver(f, X) <=> z \in v /\ Odd(C \cap X)
  <2>1. Where(f, X, z) = IF z \in v THEN C \cap X ELSE {}
    BY DEF Where, Zero
  <2> QED
    BY <2>1, XorOverIs, OddEmpty
<1> QED
  BY <1>1 DEF Zero

\* The pairs that a relation relates, counted from either side.
EitherSide(X, Y, h) ==
  Odd({i \in X : Odd({c \in Y : c \in h[i]})}) <=> Odd({c \in Y : Odd({i \in X : c \in h[i]})})

LEMMA OddBothWays ==
  ASSUME NEW X, IsFiniteSet(X), NEW Y, IsFiniteSet(Y), NEW h
  PROVE  EitherSide(X, Y, h)
<1> DEFINE Lines(V) == {i \in V : Odd({c \in Y : c \in h[i]})}
           Files(V) == {c \in Y : Odd({i \in V : c \in h[i]})}
           P == {V \in SUBSET X : Odd(Lines(V)) <=> Odd(Files(V))}
<1>1. {} \in P
  <2>1. Lines({}) = {}
    OBVIOUS
  <2>2. Files({}) = {}
    <3>1. \A c : {i \in {} : c \in h[i]} = {}
      OBVIOUS
    <3> QED
      BY <3>1, OddEmpty
  <2> QED
    BY <2>1, <2>2
<1>2. ASSUME NEW V \in SUBSET X, V # {}, V \ {AnyOf(V)} \in P PROVE V \in P
  <2>1. PICK y, R : y = AnyOf(V) /\ R = V \ {y}
    OBVIOUS
  <2>2. y \in V /\ y \notin R /\ V = R \cup {y}
    BY <1>2, <2>1 DEF AnyOf
  <2>3. PICK q : q = {c \in Y : c \in h[y]}
    OBVIOUS
  <2>4. IsFiniteSet(q) /\ IsFiniteSet(Files(R)) /\ IsFiniteSet(Lines(R)) /\ IsFiniteSet(R)
    <3>1. q \in SUBSET Y /\ Files(R) \in SUBSET Y /\ Lines(R) \in SUBSET X /\ R \in SUBSET X
      BY <2>2, <2>3
    <3> HIDE DEF Files, Lines
    <3> QED
      BY <3>1, FS_Subset
  <2>5. Odd(Lines(V)) <=> (Odd(Lines(R)) <=> ~Odd(q))
    <3>1. CASE Odd(q)
      <4>1. Lines(V) = Lines(R) \cup {y} /\ y \notin Lines(R)
        BY <2>2, <2>3, <3>1
      <4> HIDE DEF Lines
      <4> QED
        BY <2>4, <3>1, <4>1, OddAdd
    <3>2. CASE ~Odd(q)
      <4>1. Lines(V) = Lines(R)
        BY <2>2, <2>3, <3>2
      <4> HIDE DEF Lines
      <4> QED
        BY <3>2, <4>1
    <3> QED
      BY <3>1, <3>2
  <2>6. Files(V) = Xor(Files(R), q)
    <3>1. ASSUME NEW c \in Y
          PROVE  Odd({i \in V : c \in h[i]}) <=> (Odd({i \in R : c \in h[i]}) <=> ~(c \in q))
      <4>1. PICK S : S = {i \in R : c \in h[i]}
        OBVIOUS
      <4>2. IsFiniteSet(S) /\ y \notin S
        <5>1. S \in SUBSET R
          BY <4>1
        <5> QED
          BY <2>2, <2>4, <5>1, FS_Subset
      <4>3. CASE c \in q
        <5>1. {i \in V : c \in h[i]} = S \cup {y}
          BY <2>2, <2>3, <4>1, <4>3
        <5> QED
          BY <4>1, <4>2, <4>3, <5>1, OddAdd
      <4>4. CASE c \notin q
        <5>1. {i \in V : c \in h[i]} = S
          BY <2>2, <2>3, <4>1, <4>4
        <5> QED
          BY <4>1, <4>4, <5>1
      <4> QED
        BY <4>3, <4>4
    <3>2. \A c : c \in Files(V) <=> (c \in Files(R) <=> ~(c \in q))
      BY <2>3, <3>1
    <3> HIDE DEF Files
    <3> QED
      BY <3>2 DEF Xor, SymDiff
  <2>7. Odd(Files(V)) <=> (Odd(Files(R)) <=> ~Odd(q))
    <3> HIDE DEF Files
    <3> QED
      BY <2>4, <2>6, OddXor
  <2>8. Odd(Lines(R)) <=> Odd(Files(R))
    BY <1>2, <2>1
  <2> HIDE DEF Lines, Files
  <2> QED
    BY <2>5, <2>7, <2>8
<1> HIDE DEF P
<1>3. Xoring!IsFiniteSet(X) /\ Xoring!Chooses(X)
  BY FiniteHere, AnyChooses
<1>4. SUBSET X \subseteq P
  BY <1>1, <1>2, <1>3, Xoring!SubsetInduction
<1>5. X \in P
  BY <1>4
<1> QED
  BY <1>5 DEF P, EitherSide

-----------------------------------------------------------------------------
\* The parameters: blocks of one size make up the samples, and the dual blocks
\* cover the columns of the dual matrix.
LEMMA Numbers ==
  ASSUME params \in ParamSet
  PROVE  /\ params.n \in Nat \ {0} /\ params.k \in Nat \ {0} /\ params.tp \in Nat \ {0}
         /\ params.N \in Nat \ {0} /\ params.td \in Nat \ {0} /\ params.size \in Nat \ {0}
         /\ params.n > params.tp /\ params.n % params.tp = 0
BY PcgAssumption

LEMMA CeilDivCovers ==
  ASSUME NEW a \in Nat \ {0}, NEW b \in Nat \ {0}
  PROVE  CeilDiv(a, b) \in Nat \ {0} /\ a <= CeilDiv(a, b) * b
<1>1. PICK q, r : q = (a + b - 1) \div b /\ r = (a + b - 1) % b
  OBVIOUS
<1>2. q \in Nat /\ r \in 0..(b - 1) /\ a + b - 1 = q * b + r
  BY <1>1, Divided, a + b - 1 \in Nat
<1>3. PICK m : m = q * b
  OBVIOUS
<1>4. m \in Nat /\ a <= m
  BY <1>2, <1>3
<1>5. q # 0
  <2>1. q = 0 => m = 0
    BY <1>2, <1>3
  <2> QED
    BY <1>4, <2>1
<1> QED
  BY <1>1, <1>2, <1>3, <1>4, <1>5 DEF CeilDiv

LEMMA BlocksFill ==
  ASSUME params \in ParamSet
  PROVE  blockSize \in Nat \ {0} /\ params.n = params.tp * blockSize
<1>1. PICK n, t, b : n = params.n /\ t = params.tp /\ b = blockSize
  OBVIOUS
<1>2. n \in Nat \ {0} /\ t \in Nat \ {0} /\ n > t /\ n % t = 0 /\ b = n \div t
  BY <1>1, Numbers DEF blockSize
<1>3. b \in Nat /\ n = b * t + 0
  BY Zenon, <1>2, Divided, <1>2
<1>4. n = t * b /\ b # 0
  BY <1>2, <1>3
<1> QED
  BY <1>1, <1>3, <1>4

\* A sample is a position in a block.
LEMMA Position ==
  ASSUME params \in ParamSet, NEW g \in Below(params.n)
  PROVE  /\ g \div blockSize \in Blocks /\ g % blockSize \in Below(blockSize)
         /\ g = (g \div blockSize) * blockSize + (g % blockSize)
<1>1. PICK t, b, q, r : t = params.tp /\ b = blockSize /\ q = g \div b /\ r = g % b
  OBVIOUS
<1>2. t \in Nat \ {0} /\ b \in Nat \ {0} /\ params.n = t * b
  BY <1>1, Numbers, BlocksFill
<1>3. g \in Nat /\ g < params.n
  BY <1>2, Numbers DEF Below
<1>4. q \in Nat /\ r \in 0..(b - 1) /\ g = q * b + r
  BY <1>1, <1>2, <1>3, Divided
<1>5. q < t
  <2>1. SUFFICES ASSUME ~(q < t) PROVE FALSE
    OBVIOUS
  <2>2. PICK y, z : y = t * b /\ z = q * b
    OBVIOUS
  <2>3. CASE q = t
    BY <1>2, <1>3, <1>4, <2>2, <2>3
  <2>4. CASE t < q
    <3>1. y \in Nat /\ z \in Nat /\ y + b <= z
      BY <1>2, <1>4, <2>2, <2>4, Stretch
    <3> QED
      BY <1>2, <1>3, <1>4, <2>2, <3>1
  <2> QED
    BY <1>2, <1>4, <2>1, <2>3, <2>4
<1> QED
  BY <1>1, <1>2, <1>4, <1>5 DEF Blocks, Below

LEMMA InBlock ==
  ASSUME params \in ParamSet, NEW i \in Blocks, NEW x \in Below(blockSize)
  PROVE  /\ i * blockSize + x \in Below(params.n)
         /\ (i * blockSize + x) \div blockSize = i /\ (i * blockSize + x) % blockSize = x
<1>1. PICK t, b, y, z, w : t = params.tp /\ b = blockSize /\ y = i * b /\ z = t * b
                             /\ w = i * b + x
  OBVIOUS
<1>2. t \in Nat \ {0} /\ b \in Nat \ {0} /\ params.n = z
  BY <1>1, Numbers, BlocksFill
<1>3. i \in Nat /\ i < t /\ x \in 0..(b - 1)
  BY <1>1, <1>2 DEF Blocks, Below
<1>4. y \in Nat /\ z \in Nat /\ y + b <= z
  BY <1>1, <1>2, <1>3, Stretch
<1>5. w \in Nat /\ w \div b = i /\ w % b = x
  <2>1. w = i * b + x
    BY Zenon, <1>1
  <2>2. i \in Nat /\ b \in Nat \ {0} /\ x \in 0..(b - 1)
    BY <1>2, <1>3
  <2> QED
    BY Zenon, <2>1, <2>2, DividesAs
<1>6. w < z
  BY <1>1, <1>2, <1>3, <1>4
<1>7. w \in Below(params.n)
  BY <1>2, <1>4, <1>5, <1>6 DEF Below
<1> QED
  BY Zenon, <1>1, <1>5, <1>7

-----------------------------------------------------------------------------
\* What holds of the samples of a party that has prepared; of the results of the
\* subprotocols; and of an output.
SenderPrepared ==
  /\ e["sender"] \in [Blocks -> Below(blockSize)]
  /\ s["sender"] # <<>>
  /\ \A i \in Below(params.k) : s["sender"][i] = RandomS(i)
  /\ \A i \in Blocks : masks["sender"][i] = RandomMask("sender", i)
  /\ \A i \in Blocks : DOMAIN eXas_eoe["sender"][i] = Below(blockSize)
  /\ \A j \in Below(params.td) :
       /\ DOMAIN eXs["sender"][j] = Below(dualBlockSize)
       /\ \A x \in Below(dualBlockSize) : DOMAIN eXs["sender"][j][x] = Below(params.k)

DualErrors == {j * dualBlockSize + epsilon[j] : j \in Below(params.td)}

ReceiverPrepared ==
  /\ e["receiver"] \in [Blocks -> Below(blockSize)]
  /\ epsilon \in [Below(params.td) -> Below(dualBlockSize)]
  /\ \A c \in DualErrors : c < params.N
  /\ s["receiver"] # <<>>
  /\ \A i \in Below(params.k) :
       s["receiver"][i] = Bit(Cardinality(DualErrors \cap H("receiver")[i]) % 2 = 1)
  /\ \A i \in Blocks : masks["receiver"][i] = RandomMask("receiver", i)
  /\ \A i \in Blocks : DOMAIN eXas["receiver"][i] = Below(blockSize)

BothPrepared == SenderPrepared /\ ReceiverPrepared

Undecrypted == \A p \in Parties : decrypted[p] = <<>>

Compared ==
  \A i \in Blocks :
    eoe["receiver"][i] = Xor(eoe["sender"][i], Bit(e["sender"][i] = e["receiver"][i]))

Multiplied ==
  \A p \in Parties :
    /\ decrypted[p] # <<>>
    /\ \A i \in Blocks : decrypted[p][i] = MaskedProduct(Other(p), i)

Shared ==
  /\ \A i \in Blocks, x \in Below(blockSize) :
       /\ eXas_eoe["receiver"][i][x] =
            Xor(eXas_eoe["sender"][i][x],
                IF x = e["receiver"][i] THEN Payload(i) ELSE Zero)
       /\ eXas["sender"][i][x] =
            Xor(eXas["receiver"][i][x],
                IF x = e["sender"][i] THEN decrypted["receiver"][i] ELSE Zero)
  /\ \A j \in Below(params.td), x \in Below(dualBlockSize), i \in Below(params.k) :
       eXs["receiver"][j][x][i] =
         Xor(eXs["sender"][j][x][i], IF x = epsilon[j] THEN s["sender"][i] ELSE Zero)

FinalBit(p, g) ==
  Xor(Xor(eXas_eoe[p][g \div blockSize][g % blockSize],
          eXas[p][g \div blockSize][g % blockSize]),
      IF g % blockSize = e[p][g \div blockSize]
      THEN Correction(p, g \div blockSize) ELSE Zero)

Output(p) ==
  /\ At(p, "finalized") =>
       \A g \in Below(available) : output[p][g] = FinalBit(p, g)
  /\ At(p, "expanded") =>
       /\ params.size <= params.n
       /\ DOMAIN output[p] = Below(params.size)
       /\ \A g \in Below(params.size) : output[p][g] = Xor(FinalBit(p, g), ExpandedBit(p, g))

OnParties(f) == f = [p \in Parties |-> f[p]]

TypesOK ==
  /\ params \in ParamSet
  /\ seed \in [Parties -> Keys]
  /\ SharedSeed => seed["sender"] = seed["receiver"]
  /\ OnParties(stage) /\ OnParties(e) /\ OnParties(s) /\ OnParties(masks)
  /\ OnParties(eoe) /\ OnParties(decrypted) /\ OnParties(eXas_eoe) /\ OnParties(eXas)
  /\ OnParties(eXs) /\ OnParties(output)

\* The parties prepare apart, and go through the exchanges together; after that
\* each is on its own.
Apart ==
  /\ Undecrypted
  /\ \/ stage["sender"] \in {"new", "init"} /\ s["sender"] = <<>>
     \/ stage["sender"] = "prepared" /\ SenderPrepared
  /\ \/ stage["receiver"] \in {"new", "init", "failed"} /\ s["receiver"] = <<>>
     \/ stage["receiver"] = "prepared" /\ ReceiverPrepared

Comparing ==
  /\ \A p \in Parties : At(p, "compared")
  /\ BothPrepared /\ Undecrypted /\ Compared

Multiplying ==
  /\ \A p \in Parties : At(p, "multiplied")
  /\ BothPrepared /\ Compared /\ Multiplied

OnTheirOwn ==
  /\ \A p \in Parties : stage[p] \in {"online", "finalized", "expanded", "failed"}
  /\ BothPrepared /\ Compared /\ Multiplied /\ Shared
  /\ \A p \in Parties : Output(p)

PcgInv == TypesOK /\ (Apart \/ Comparing \/ Multiplying \/ OnTheirOwn)

LEMMA PartiesAre ==
  ASSUME NEW p \in Parties
  PROVE  (p = "sender" /\ Other(p) = "receiver") \/ (p = "receiver" /\ Other(p) = "sender")
BY DEF Parties, Other

\* What was sampled stays as it is when nothing of it changes.
LEMMA SenderStays ==
  ASSUME SenderPrepared, UNCHANGED <<params, e["sender"], s["sender"], masks["sender"],
                                     eXas_eoe["sender"], eXs["sender"]>>
  PROVE  SenderPrepared'
BY DEF SenderPrepared, Blocks, Below, blockSize, dualBlockSize, CeilDiv

LEMMA ReceiverStays ==
  ASSUME ReceiverPrepared,
         UNCHANGED <<params, seed, e["receiver"], epsilon, s["receiver"], masks["receiver"],
                     eXas["receiver"]>>
  PROVE  ReceiverPrepared'
<1>1. UNCHANGED DualErrors
  BY DEF DualErrors, Below, dualBlockSize
<1> QED
  BY <1>1 DEF ReceiverPrepared, Blocks, Below, blockSize, dualBlockSize, CeilDiv, H

LEMMA BothStay ==
  ASSUME BothPrepared, UNCHANGED <<params, seed, samples, eXas_eoe["sender"], eXs["sender"],
                                   eXas["receiver"]>>
  PROVE  BothPrepared'
BY SenderStays, ReceiverStays DEF BothPrepared, samples

LEMMA ComparedStays ==
  ASSUME Compared, UNCHANGED <<params, samples, eoe>>
  PROVE  Compared'
BY DEF Compared, Blocks, Below, samples

LEMMA MultipliedStays ==
  ASSUME Multiplied, UNCHANGED <<params, seed, samples, decrypted>>
  PROVE  Multiplied'
BY DEF Multiplied, Blocks, Below, MaskedProduct, InnerProduct, ErrorIndex, A, blockSize,
       samples

LEMMA SharedStays ==
  ASSUME Shared, UNCHANGED <<params, samples, results>>
  PROVE  Shared'
BY DEF Shared, Blocks, Below, blockSize, dualBlockSize, CeilDiv, Payload, samples, results

\* An output of its own stays, and so does what it says of the samples.
LEMMA OutputStays ==
  ASSUME NEW p \in Parties, Output(p),
         UNCHANGED <<params, seed, samples, results, stage[p], output[p]>>
  PROVE  Output(p)'
<1>1. ASSUME NEW g PROVE FinalBit(p, g)' = FinalBit(p, g)
  BY DEF FinalBit, Correction, blockSize, samples, results
<1>2. ASSUME NEW g PROVE ExpandedBit(p, g)' = ExpandedBit(p, g)
  <2>1. A(p)' = A(p) /\ B(p, g)' = B(p, g)
    BY Zenon DEF A, B, H, Below
  <2>2. dualBlockSize' = dualBlockSize
    BY DEF dualBlockSize
  <2> QED
    BY Zenon, <2>1, <2>2 DEF ExpandedBit, Below, results
<1>3. Below(available)' = Below(available) /\ Below(params.size)' = Below(params.size)
  BY DEF Below, available
<1> QED
  BY <1>1, <1>2, <1>3 DEF Output, At

-----------------------------------------------------------------------------
\* Each step preserves the invariant.
LEMMA TypesStay ==
  ASSUME TypesOK, [Next]_vars
  PROVE  TypesOK'
<1> USE DEF TypesOK, OnParties, samples, results, To, Together
<1>1. ASSUME NEW p \in Parties, init(p) PROVE TypesOK'
  BY <1>1 DEF init
<1>2. ASSUME NEW p \in Parties, clear(p) PROVE TypesOK'
  BY <1>2 DEF clear
<1>3. ASSUME NEW p \in Parties, finalize(p) PROVE TypesOK'
  BY <1>3 DEF finalize
<1>4. ASSUME NEW p \in Parties, expand(p) PROVE TypesOK'
  BY <1>4 DEF expand
<1>5. CASE PrepareSender
  BY <1>5 DEF PrepareSender
<1>6. CASE PrepareReceiver
  BY <1>6 DEF PrepareReceiver
<1>7. CASE EqualityTest
  BY <1>7 DEF EqualityTest, Parties
<1>8. CASE InnerProducts
  BY <1>8 DEF InnerProducts
<1>9. CASE SharePprfs
  BY <1>9 DEF SharePprfs
<1>10. CASE UNCHANGED vars
  BY <1>10 DEF vars
<1> QED
  BY <1>1, <1>2, <1>3, <1>4, <1>5, <1>6, <1>7, <1>8, <1>9, <1>10 DEF Next, Stop

\* Preparing does nothing to the other party, nor does init().
LEMMA ApartByInit ==
  ASSUME TypesOK, Apart, NEW p \in Parties, init(p)
  PROVE  Apart'
<1>1. UNCHANGED <<params, seed, samples, decrypted, eXas_eoe, eXas, eXs>>
  BY DEF init, results
<1>2. At(p, "new") /\ stage' = [stage EXCEPT ![p] = "init"]
  BY DEF init, To, Apart, At, Parties
<1>3. Undecrypted' /\ (SenderPrepared => SenderPrepared') /\ (ReceiverPrepared => ReceiverPrepared')
  BY <1>1, SenderStays, ReceiverStays DEF samples, Apart, Undecrypted
<1>4. \A q \in Parties : stage'[q] = IF q = p THEN "init" ELSE stage[q]
  BY <1>2 DEF TypesOK, OnParties
<1>5. s' = s /\ "sender" \in Parties /\ "receiver" \in Parties
  BY <1>1 DEF samples, Parties
<1> QED
  BY <1>2, <1>3, <1>4, <1>5 DEF Apart, At

LEMMA ApartBySender ==
  ASSUME TypesOK, Apart, PrepareSender
  PROVE  Apart'
<1>1. PICK errors \in [Blocks -> Below(blockSize)] : e' = [e EXCEPT !["sender"] = errors]
  BY DEF PrepareSender
<1>2. "sender" \in Parties /\ "receiver" \in Parties
  BY DEF Parties
<1>3. /\ e'["sender"] = errors
      /\ s'["sender"] = [i \in Below(params.k) |-> RandomS(i)]
      /\ masks'["sender"] = [i \in Blocks |-> RandomMask("sender", i)]
      /\ eXs'["sender"] = [j \in Below(params.td) |-> DualImage(j)]
      /\ eXas_eoe'["sender"] = [i \in Blocks |-> Image(0, i)]
      /\ stage'["sender"] = "prepared" /\ stage'["receiver"] = stage["receiver"]
  BY <1>1, <1>2 DEF PrepareSender, To, TypesOK, OnParties
<1>4. /\ UNCHANGED <<params, seed, epsilon, decrypted, eXas>>
      /\ UNCHANGED <<e["receiver"], s["receiver"], masks["receiver"]>>
  BY <1>1, <1>2 DEF PrepareSender, TypesOK, OnParties
<1>5. UNCHANGED <<Blocks, Below(blockSize), Below(params.k), Below(params.td),
                  Below(dualBlockSize)>>
  BY <1>4 DEF Blocks, blockSize, Below, dualBlockSize
<1>6. SenderPrepared'
  <2>1. s'["sender"] # <<>>
    <3>1. 0 \in Below(params.k)
      BY Numbers DEF Below, TypesOK
    <3> QED
      BY <1>3, <3>1
  <2>2. \A j \in Below(params.td) : 
          /\ DOMAIN eXs'["sender"][j] = Below(dualBlockSize)
          /\ \A x \in Below(dualBlockSize) : DOMAIN eXs'["sender"][j][x] = Below(params.k)
    BY <1>3 DEF DualImage
  <2>3. \A i \in Blocks : DOMAIN eXas_eoe'["sender"][i] = Below(blockSize)
    BY <1>3 DEF Image
  <2>4. \A i \in Below(params.k) : s'["sender"][i] = RandomS(i)
    BY <1>3
  <2>5. \A i \in Blocks : masks'["sender"][i] = RandomMask("sender", i)
    BY <1>3
  <2> QED
    BY <1>3, <1>5, <2>1, <2>2, <2>3, <2>4, <2>5 DEF SenderPrepared, RandomS, RandomMask
<1>7. ReceiverPrepared => ReceiverPrepared'
  BY <1>4, ReceiverStays
<1> QED
  BY <1>3, <1>4, <1>6, <1>7 DEF Apart, Undecrypted

LEMMA ApartByReceiver ==
  ASSUME TypesOK, Apart, PrepareReceiver
  PROVE  Apart'
<1>1. "sender" \in Parties /\ "receiver" \in Parties
  BY DEF Parties
<1>2. UNCHANGED <<params, seed, decrypted, eXas_eoe, eXs>> /\ At("receiver", "init")
  BY DEF PrepareReceiver
<1>3. PICK errors \in [Blocks -> Below(blockSize)],
           dual \in [Below(params.td) -> Below(dualBlockSize)] :
       LET columns == {j * dualBlockSize + dual[j] : j \in Below(params.td)}
       IN  IF \E c \in columns : c >= params.N
           THEN To("receiver", "failed") /\ UNCHANGED <<samples, eXas>>
           ELSE /\ e' = [e EXCEPT !["receiver"] = errors]
                /\ epsilon' = dual
                /\ s' = [s EXCEPT !["receiver"] = [i \in Below(params.k) |->
                     Bit(Cardinality(columns \cap H("receiver")[i]) % 2 = 1)]]
                /\ masks' = [masks EXCEPT !["receiver"] =
                     [i \in Blocks |-> RandomMask("receiver", i)]]
                /\ eXas' = [eXas EXCEPT !["receiver"] = [i \in Blocks |-> Image(1, i)]]
                /\ To("receiver", "prepared")
  BY DEF PrepareReceiver
<1>4. PICK columns : columns = {j * dualBlockSize + dual[j] : j \in Below(params.td)}
  OBVIOUS
<1>5. Undecrypted'
  BY <1>2 DEF Undecrypted, Apart
<1>6. CASE \E c \in columns : c >= params.N
  <2>1. To("receiver", "failed") /\ UNCHANGED <<samples, eXas>>
    BY <1>3, <1>4, <1>6
  <2>2. stage'["receiver"] = "failed" /\ stage'["sender"] = stage["sender"]
    BY <1>1, <2>1 DEF To, TypesOK, OnParties
  <2>3. SenderPrepared => SenderPrepared'
    BY <1>2, <2>1, SenderStays DEF samples
  <2> QED
    BY <1>2, <1>5, <2>1, <2>2, <2>3 DEF Apart, samples, At
<1>7. CASE ~\E c \in columns : c >= params.N
  <2>1. /\ e' = [e EXCEPT !["receiver"] = errors]
        /\ epsilon' = dual
        /\ s' = [s EXCEPT !["receiver"] = [i \in Below(params.k) |->
             Bit(Cardinality(columns \cap H("receiver")[i]) % 2 = 1)]]
        /\ masks' = [masks EXCEPT !["receiver"] =
             [i \in Blocks |-> RandomMask("receiver", i)]]
        /\ eXas' = [eXas EXCEPT !["receiver"] = [i \in Blocks |-> Image(1, i)]]
        /\ To("receiver", "prepared")
    BY <1>3, <1>4, <1>7
  <2>2. /\ e'["receiver"] = errors
        /\ s'["receiver"] = [i \in Below(params.k) |->
             Bit(Cardinality(columns \cap H("receiver")[i]) % 2 = 1)]
        /\ masks'["receiver"] = [i \in Blocks |-> RandomMask("receiver", i)]
        /\ eXas'["receiver"] = [i \in Blocks |-> Image(1, i)]
        /\ stage'["receiver"] = "prepared" /\ stage'["sender"] = stage["sender"]
        /\ UNCHANGED <<e["sender"], s["sender"], masks["sender"]>>
    BY <1>1, <2>1 DEF To, TypesOK, OnParties
  <2>3. UNCHANGED <<Blocks, Below(blockSize), Below(params.k), Below(params.td),
                    Below(dualBlockSize), dualBlockSize, H("receiver")>>
    BY <1>2 DEF Blocks, blockSize, Below, dualBlockSize, H
  <2>4. DualErrors' = columns
    BY <1>4, <2>1, <2>3 DEF DualErrors
  <2>5. \A c \in columns : c < params.N
    <3>1. ASSUME NEW c \in columns PROVE c \in Nat
      <4>1. PICK j \in Below(params.td) : c = j * dualBlockSize + dual[j]
        BY <1>4, <3>1
      <4>2. dualBlockSize \in Nat /\ params.td \in Nat /\ dual[j] \in Below(dualBlockSize)
        BY Numbers, CeilDivCovers DEF dualBlockSize, TypesOK
      <4> QED
        BY <4>1, <4>2 DEF Below
    <3>2. params.N \in Nat
      BY Numbers DEF TypesOK
    <3> QED
      BY <1>7, <3>1, <3>2
  <2>6. s'["receiver"] # <<>>
    <3>1. 0 \in Below(params.k)
      BY Numbers DEF Below, TypesOK
    <3> QED
      BY <2>2, <3>1
  <2>7. \A i \in Blocks : masks'["receiver"][i] = RandomMask("receiver", i)
                          /\ DOMAIN eXas'["receiver"][i] = Below(blockSize)
    BY <2>2 DEF Image
  <2>8. \A i \in Below(params.k) :
          s'["receiver"][i] = Bit(Cardinality(columns \cap H("receiver")[i]) % 2 = 1)
    BY <2>2
  <2>9. ReceiverPrepared'
    <3>1. (\A i \in Below(params.k) :
             s["receiver"][i] = Bit(Cardinality(DualErrors \cap H("receiver")[i]) % 2 = 1))'
      BY Zenon, <2>3, <2>4, <2>8 DEF Bit, One, Zero
    <3>2. (\A i \in Blocks : masks["receiver"][i] = RandomMask("receiver", i)
                             /\ DOMAIN eXas["receiver"][i] = Below(blockSize))'
      BY Zenon, <2>3, <2>7 DEF RandomMask
    <3>3. (\A c \in DualErrors : c < params.N)'
      BY Zenon, <1>2, <2>4, <2>5
    <3>4. (e["receiver"] \in [Blocks -> Below(blockSize)]
           /\ epsilon \in [Below(params.td) -> Below(dualBlockSize)])'
      BY Zenon, <2>1, <2>2, <2>3
    <3> QED
      BY <2>6, <3>1, <3>2, <3>3, <3>4 DEF ReceiverPrepared
  <2>10. SenderPrepared => SenderPrepared'
    BY <1>2, <2>2, SenderStays
  <2> QED
    BY <1>5, <2>2, <2>9, <2>10 DEF Apart
<1> QED
  BY <1>6, <1>7

LEMMA ByEqualityTest ==
  ASSUME TypesOK, Apart, EqualityTest
  PROVE  Comparing'
<1>1. \A p \in Parties : At(p, "prepared") /\ stage'[p] = "compared"
  BY DEF EqualityTest, Together
<1>2. UNCHANGED <<params, seed, samples, decrypted, eXas_eoe, eXas, eXs>>
  BY DEF EqualityTest
<1>3. BothPrepared'
  <2>1. BothPrepared
    BY <1>1 DEF BothPrepared, Apart, At, Parties
  <2> QED
    BY <1>2, <2>1, BothStay
<1>4. Compared'
  <2>1. eoe' = [sender |-> [i \in Blocks |-> RandomShare(i)],
                receiver |-> [i \in Blocks |->
                  Xor(RandomShare(i), Bit(e["sender"][i] = e["receiver"][i]))]]
    BY DEF EqualityTest
  <2>2. \A i \in Blocks : eoe'["receiver"][i] =
          Xor(eoe'["sender"][i], Bit(e["sender"][i] = e["receiver"][i]))
    BY <2>1
  <2>3. UNCHANGED <<Blocks, e>>
    BY <1>2 DEF Blocks, Below, samples
  <2> QED
    BY Zenon, <2>2, <2>3 DEF Compared, Bit, One, Zero
<1> QED
  BY <1>1, <1>2, <1>3, <1>4 DEF Comparing, At, Undecrypted, Apart

LEMMA ByInnerProducts ==
  ASSUME TypesOK, Comparing, InnerProducts
  PROVE  Multiplying'
<1>1. \A p \in Parties : stage'[p] = "multiplied"
  BY DEF InnerProducts, Together
<1>2. UNCHANGED <<params, seed, samples, eoe, eXas_eoe, eXas, eXs>>
  BY DEF InnerProducts
<1>3. BothPrepared' /\ Compared'
  BY <1>2, BothStay, ComparedStays DEF Comparing
<1>4. Multiplied'
  <2>1. decrypted' = [p \in Parties |-> [i \in Blocks |-> MaskedProduct(Other(p), i)]]
    BY DEF InnerProducts
  <2>2. \A p \in Parties : decrypted'[p] # <<>>
    <3>1. 0 \in Blocks
      BY Numbers DEF Blocks, Below, TypesOK
    <3> QED
      BY <2>1, <3>1
  <2>3. \A p \in Parties : \A i \in Blocks : decrypted'[p][i] = MaskedProduct(Other(p), i)
    BY <2>1
  <2>4. UNCHANGED Blocks /\ \A p, i : UNCHANGED MaskedProduct(p, i)
    BY <1>2 DEF Blocks, Below, samples, MaskedProduct, InnerProduct, ErrorIndex, A, blockSize
  <2> QED
    BY <2>2, <2>3, <2>4 DEF Multiplied
<1> QED
  BY <1>1, <1>3, <1>4 DEF Multiplying, At

LEMMA PuncturedAt ==
  ASSUME NEW img, NEW x \in DOMAIN img, NEW y, NEW payload
  PROVE  Puncture(img, y, payload)[x] = Xor(img[x], IF x = y THEN payload ELSE Zero)
<1>1. Xor(img[x], Zero) = img[x]
  BY DEF Xor, SymDiff, Zero
<1>2. Puncture(img, y, payload)[x] = IF x = y THEN Xor(img[x], payload) ELSE img[x]
  BY DEF Puncture
<1> QED
  BY <1>1, <1>2

LEMMA BySharePprfs ==
  ASSUME TypesOK, Multiplying, SharePprfs
  PROVE  OnTheirOwn'
<1>1. \A p \in Parties : stage'[p] = "online"
  BY DEF SharePprfs, Together
<1>2. /\ UNCHANGED <<params, seed, samples, eoe, decrypted>>
      /\ UNCHANGED <<eXas_eoe["sender"], eXas["receiver"], eXs["sender"]>>
  BY DEF SharePprfs, TypesOK, OnParties, Parties
<1>3. BothPrepared' /\ Compared' /\ Multiplied'
  BY <1>2, BothStay, ComparedStays, MultipliedStays DEF Multiplying
<1>4. "sender" \in Parties /\ "receiver" \in Parties
  BY DEF Parties
<1>5. BothPrepared
  BY DEF Multiplying
<1>6. UNCHANGED <<Blocks, Below(blockSize), Below(params.k), Below(params.td),
                  Below(dualBlockSize)>>
  BY <1>2 DEF Blocks, blockSize, Below, dualBlockSize
<1>7. \A X : Xor(X, Zero) = X
  BY DEF Xor, SymDiff, Zero
<1>8. \A i \in Blocks, x \in Below(blockSize) :
        eXas_eoe'["receiver"][i][x] =
          Xor(eXas_eoe["sender"][i][x], IF x = e["receiver"][i] THEN Payload(i) ELSE Zero)
  <2>1. \A i \in Blocks : eXas_eoe'["receiver"][i] =
          Puncture(eXas_eoe["sender"][i], e["receiver"][i], Payload(i))
    BY <1>4 DEF SharePprfs, TypesOK, OnParties
  <2>2. \A i \in Blocks : DOMAIN eXas_eoe["sender"][i] = Below(blockSize)
    BY <1>5 DEF BothPrepared, SenderPrepared
  <2> TAKE i \in Blocks, x \in Below(blockSize)
  <2>3. x \in DOMAIN eXas_eoe["sender"][i]
    BY Zenon, <2>2
  <2>4. Puncture(eXas_eoe["sender"][i], e["receiver"][i], Payload(i))[x] =
          Xor(eXas_eoe["sender"][i][x], IF x = e["receiver"][i] THEN Payload(i) ELSE Zero)
    BY SMTT(30), <2>3, PuncturedAt
  <2> QED
    BY Zenon, <2>1, <2>4
<1>9. \A i \in Blocks, x \in Below(blockSize) :
        eXas'["sender"][i][x] =
          Xor(eXas["receiver"][i][x],
              IF x = e["sender"][i] THEN decrypted["receiver"][i] ELSE Zero)
  <2>1. \A i \in Blocks : eXas'["sender"][i] =
          Puncture(eXas["receiver"][i], e["sender"][i], decrypted["receiver"][i])
    BY <1>4 DEF SharePprfs, TypesOK, OnParties
  <2>2. \A i \in Blocks : DOMAIN eXas["receiver"][i] = Below(blockSize)
    BY <1>5 DEF BothPrepared, ReceiverPrepared
  <2> TAKE i \in Blocks, x \in Below(blockSize)
  <2>3. x \in DOMAIN eXas["receiver"][i]
    BY Zenon, <2>2
  <2>4. Puncture(eXas["receiver"][i], e["sender"][i], decrypted["receiver"][i])[x] =
          Xor(eXas["receiver"][i][x],
              IF x = e["sender"][i] THEN decrypted["receiver"][i] ELSE Zero)
    BY SMTT(30), <2>3, PuncturedAt
  <2> QED
    BY Zenon, <2>1, <2>4
<1>10. \A j \in Below(params.td), x \in Below(dualBlockSize), i \in Below(params.k) :
         eXs'["receiver"][j][x][i] =
           Xor(eXs["sender"][j][x][i], IF x = epsilon[j] THEN s["sender"][i] ELSE Zero)
  <2>1. \A j \in Below(params.td) : eXs'["receiver"][j] =
          [eXs["sender"][j] EXCEPT ![epsilon[j]] = XorRow(@, s["sender"])]
    BY <1>4 DEF SharePprfs, TypesOK, OnParties
  <2>2. ASSUME NEW j \in Below(params.td), NEW x \in Below(dualBlockSize),
               NEW i \in Below(params.k)
        PROVE  eXs'["receiver"][j][x][i] =
                 Xor(eXs["sender"][j][x][i], IF x = epsilon[j] THEN s["sender"][i] ELSE Zero)
    <3>1. DOMAIN eXs["sender"][j] = Below(dualBlockSize)
          /\ DOMAIN eXs["sender"][j][x] = Below(params.k)
      BY <1>5 DEF BothPrepared, SenderPrepared
    <3>2. eXs'["receiver"][j][x] = IF x = epsilon[j] THEN XorRow(eXs["sender"][j][x], s["sender"])
                                   ELSE eXs["sender"][j][x]
      BY <2>1, <3>1
    <3>3. XorRow(eXs["sender"][j][x], s["sender"])[i] =
            Xor(eXs["sender"][j][x][i], s["sender"][i])
      BY <3>1 DEF XorRow
    <3> QED
      BY <1>7, <3>2, <3>3
  <2> QED
    BY <2>2
<1>11. Shared'
  <2>1. UNCHANGED <<e, epsilon, s, decrypted>> /\ \A i : UNCHANGED Payload(i)
    BY <1>2 DEF samples, Payload
  <2> QED
    BY <1>2, <1>6, <1>8, <1>9, <1>10, <2>1 DEF Shared
<1> QED
  BY <1>1, <1>3, <1>11 DEF OnTheirOwn, At, Output

LEMMA AvailableIs ==
  ASSUME params \in ParamSet
  PROVE  /\ available \in Nat \ {0} /\ available <= params.size /\ available <= params.n
         /\ params.size <= params.n => available = params.size
BY Numbers DEF available

LEMMA ByFinalize ==
  ASSUME TypesOK, OnTheirOwn, NEW p \in Parties, finalize(p)
  PROVE  OnTheirOwn'
<1>1. At(p, "online") /\ UNCHANGED <<params, frees, seed, matrices, samples, results>>
  BY DEF finalize
<1>2. BothPrepared' /\ Compared' /\ Multiplied' /\ Shared'
  BY <1>1, BothStay, ComparedStays, MultipliedStays, SharedStays DEF OnTheirOwn, results
<1>3. ASSUME NEW q \in Parties, q # p PROVE Output(q)' /\ stage'[q] = stage[q]
  <2>1. UNCHANGED <<stage[q], output[q]>>
    BY <1>3 DEF finalize, To, TypesOK, OnParties
  <2> QED
    BY <1>1, <1>3, <2>1, OutputStays DEF OnTheirOwn
<1>4. CASE To(p, "failed")
  <2>1. stage'[p] = "failed"
    BY <1>4 DEF To, TypesOK, OnParties
  <2> QED
    BY <1>2, <1>3, <2>1 DEF OnTheirOwn, Output, At
<1>5. CASE ~To(p, "failed")
  <2>1. PICK b, q : b = blockSize /\ q = FinalBlocks(p)
    OBVIOUS
  <2>2. stage'[p] = "finalized"
    BY <1>5 DEF finalize, To, TypesOK, OnParties
  <2>3. ASSUME NEW g \in Below(available)
        PROVE  output'[p][g] = FinalBit(p, g)
    <3>1. g \in Nat /\ g < params.size /\ g < params.n
      BY AvailableIs, Numbers DEF Below, TypesOK
    <3>2. g < FinalBlocks(p) * blockSize
      <4>1. params.n = params.tp * blockSize /\ blockSize \in Nat \ {0}
        BY BlocksFill DEF TypesOK
      <4>2. params.size <= blocks * blockSize /\ blocks \in Nat
        BY <4>1, CeilDivCovers, Numbers DEF blocks, TypesOK
      <4>3. PICK m : m = blocks * blockSize
        OBVIOUS
      <4>4. m \in Nat /\ params.size \in Nat
        BY <4>1, <4>2, <4>3, Numbers DEF TypesOK
      <4>5. g < m
        BY <3>1, <4>2, <4>3, <4>4
      <4> QED
        BY <3>1, <4>1, <4>3, <4>5 DEF FinalBlocks
    <3>3. g \in Below(params.size) /\ g % blockSize \in Below(blockSize)
      BY <3>1, Numbers, Position DEF Below, TypesOK
    <3> DEFINE img(i) == [x \in Below(blockSize) |->
                 Xor(Xor(eXas_eoe[p][i][x], eXas[p][i][x]),
                     IF x = e[p][i] THEN Correction(p, i) ELSE Zero)]
    <3>4. output' = [output EXCEPT ![p] = [h \in Below(params.size) |->
                 IF h < FinalBlocks(p) * blockSize /\ h < params.n
                 THEN img(h \div blockSize)[h % blockSize] ELSE Zero]]
      BY Zenon, <1>5 DEF finalize
    <3> HIDE DEF img
    <3>5. output'[p][g] = img(g \div blockSize)[g % blockSize]
      BY <3>1, <3>2, <3>3, <3>4 DEF TypesOK, OnParties
    <3> QED
      BY <3>3, <3>5 DEF img, FinalBit
  <2>4. \A g : UNCHANGED FinalBit(p, g)
    BY <1>1 DEF FinalBit, Correction, blockSize, samples, results
  <2>5. UNCHANGED Below(available)
    BY <1>1 DEF Below, available
  <2>6. Output(p)'
    BY <2>2, <2>3, <2>4, <2>5 DEF Output, At
  <2> QED
    BY <1>2, <1>3, <2>2, <2>6 DEF OnTheirOwn
<1> QED
  BY <1>4, <1>5

LEMMA ByExpand ==
  ASSUME TypesOK, OnTheirOwn, NEW p \in Parties, expand(p)
  PROVE  /\ OnTheirOwn'
         /\ stage'[p] \in {"expanded", "failed"}
         /\ stage[p] = "finalized"
         /\ UNCHANGED <<params, seed, samples, results>>
         /\ \A q \in Parties : q # p => UNCHANGED <<stage[q], output[q]>>
         /\ stage'[p] = "expanded" =>
              /\ params.size <= params.n /\ DOMAIN output'[p] = Below(params.size)
              /\ \A g \in Below(params.size) :
                   output'[p][g] = Xor(FinalBit(p, g), ExpandedBit(p, g))
<1>1. At(p, "finalized") /\ UNCHANGED <<params, frees, seed, matrices, samples, results>>
  BY DEF expand
<1>2. BothPrepared' /\ Compared' /\ Multiplied' /\ Shared'
  BY <1>1, BothStay, ComparedStays, MultipliedStays, SharedStays DEF OnTheirOwn, results
<1>3. ASSUME NEW q \in Parties, q # p
      PROVE  Output(q)' /\ UNCHANGED <<stage[q], output[q]>>
  <2>1. UNCHANGED <<stage[q], output[q]>>
    BY <1>3 DEF expand, To, TypesOK, OnParties
  <2> QED
    BY <1>1, <1>3, <2>1, OutputStays DEF OnTheirOwn
<1>4. CASE params.size > params.n
  <2>1. stage'[p] = "failed"
    BY <1>4 DEF expand, To, TypesOK, OnParties
  <2>2. OnTheirOwn'
    BY <1>2, <1>3, <2>1 DEF OnTheirOwn, Output, At
  <2> QED
    BY <1>1, <1>3, <2>1, <2>2 DEF At
<1>5. CASE ~(params.size > params.n)
  <2>1. stage'[p] = "expanded"
    BY <1>5 DEF expand, To, TypesOK, OnParties
  <2>2. available = params.size /\ params.size <= params.n
    BY <1>5, AvailableIs, Numbers DEF TypesOK
  <2>3. output'[p] = [g \in Below(params.size) |-> Xor(output[p][g], ExpandedBit(p, g))]
    BY <1>5 DEF expand, TypesOK, OnParties
  <2>4. \A g \in Below(params.size) : output[p][g] = FinalBit(p, g)
    BY <1>1, <2>2 DEF OnTheirOwn, Output
  <2>5. \A g : UNCHANGED FinalBit(p, g) /\ UNCHANGED ExpandedBit(p, g)
    <3>1. ASSUME NEW g PROVE UNCHANGED FinalBit(p, g)
      BY <1>1 DEF FinalBit, Correction, blockSize, samples, results
    <3>2. ASSUME NEW g PROVE UNCHANGED ExpandedBit(p, g)
      <4>1. UNCHANGED <<A(p), B(p, g), dualBlockSize>>
        BY Zenon, <1>1 DEF A, B, H, Below, dualBlockSize
      <4> QED
        BY Zenon, <1>1, <4>1 DEF ExpandedBit, Below, results
    <3> QED
      BY <3>1, <3>2
  <2>6. Output(p)'
    BY <1>1, <2>1, <2>2, <2>3, <2>4, <2>5 DEF Output, At, Below
  <2>7. OnTheirOwn'
    BY <1>2, <1>3, <2>1, <2>6 DEF OnTheirOwn
  <2>8. /\ DOMAIN output'[p] = Below(params.size)
        /\ \A g \in Below(params.size) : output'[p][g] = Xor(FinalBit(p, g), ExpandedBit(p, g))
    BY <2>3, <2>4
  <2> QED
    BY <1>1, <1>3, <2>1, <2>2, <2>7, <2>8 DEF At
<1> QED
  BY <1>4, <1>5

\* init() once more, and clear(), are about the matrices only.
LEMMA OwnStays ==
  ASSUME TypesOK, OnTheirOwn, UNCHANGED <<params, seed, samples, results, stage, output>>
  PROVE  OnTheirOwn'
<1>1. BothPrepared' /\ Compared' /\ Multiplied' /\ Shared'
  BY BothStay, ComparedStays, MultipliedStays, SharedStays DEF OnTheirOwn, results
<1>2. \A p \in Parties : Output(p)'
  BY OutputStays DEF OnTheirOwn
<1> QED
  BY <1>1, <1>2 DEF OnTheirOwn

LEMMA NothingChanges ==
  ASSUME PcgInv, UNCHANGED vars
  PROVE  PcgInv'
<1>1. UNCHANGED <<params, seed, samples, results, stage, output>>
  BY DEF vars, samples, results
<1>2. TypesOK'
  BY TypesStay DEF PcgInv
<1>3. CASE Apart
  <2>1. (SenderPrepared => SenderPrepared') /\ (ReceiverPrepared => ReceiverPrepared')
    BY <1>1, SenderStays, ReceiverStays DEF samples, results
  <2> QED
    BY <1>1, <1>2, <1>3, <2>1 DEF PcgInv, Apart, Undecrypted, samples, results
<1>4. CASE Comparing
  <2>1. BothPrepared' /\ Compared'
    BY <1>1, <1>4, BothStay, ComparedStays DEF Comparing, results
  <2> QED
    BY <1>1, <1>2, <1>4, <2>1 DEF PcgInv, Comparing, Undecrypted, results, At
<1>5. CASE Multiplying
  <2>1. BothPrepared' /\ Compared' /\ Multiplied'
    BY <1>1, <1>5, BothStay, ComparedStays, MultipliedStays DEF Multiplying, results
  <2> QED
    BY <1>1, <1>2, <1>5, <2>1 DEF PcgInv, Multiplying, At
<1>6. CASE OnTheirOwn
  BY <1>1, <1>2, <1>6, OwnStays DEF PcgInv
<1> QED
  BY <1>3, <1>4, <1>5, <1>6 DEF PcgInv

LEMMA PcgStep == PcgInv /\ [Next]_vars => PcgInv'
<1> SUFFICES ASSUME PcgInv, [Next]_vars PROVE PcgInv'
  OBVIOUS
<1> USE DEF PcgInv
<1>0. TypesOK /\ TypesOK' /\ "sender" \in Parties /\ "receiver" \in Parties
  BY TypesStay DEF Parties
<1>1. ASSUME NEW p \in Parties, init(p) PROVE PcgInv'
  <2>1. CASE At(p, "new")
    <3>1. Apart
      BY <2>1 DEF Comparing, Multiplying, OnTheirOwn, At
    <3> QED
      BY <1>0, <1>1, <3>1, ApartByInit
  <2>2. CASE ~At(p, "new")
    <3>1. UNCHANGED <<params, seed, samples, results, stage, output>> /\ At(p, "finalized")
      BY <1>1, <2>2 DEF init
    <3>2. OnTheirOwn
      BY <3>1 DEF Apart, Comparing, Multiplying, At, Parties
    <3> QED
      BY <1>0, <3>1, <3>2, OwnStays
  <2> QED
    BY <2>1, <2>2
<1>2. ASSUME NEW p \in Parties, clear(p) PROVE PcgInv'
  <2>1. UNCHANGED <<params, seed, samples, results, stage, output>> /\ At(p, "online")
    BY <1>2 DEF clear
  <2>2. OnTheirOwn
    BY <2>1 DEF Apart, Comparing, Multiplying, At, Parties
  <2> QED
    BY <1>0, <2>1, <2>2, OwnStays
<1>3. ASSUME NEW p \in Parties, finalize(p) PROVE PcgInv'
  <2>1. OnTheirOwn
    BY <1>3 DEF finalize, Apart, Comparing, Multiplying, At, Parties
  <2> QED
    BY <1>0, <1>3, <2>1, ByFinalize
<1>4. ASSUME NEW p \in Parties, expand(p) PROVE PcgInv'
  <2>1. OnTheirOwn
    BY <1>4 DEF expand, Apart, Comparing, Multiplying, At, Parties
  <2> QED
    BY <1>0, <1>4, <2>1, ByExpand
<1>5. CASE PrepareSender
  <2>1. Apart
    BY <1>0, <1>5 DEF PrepareSender, Comparing, Multiplying, OnTheirOwn, At
  <2> QED
    BY <1>0, <1>5, <2>1, ApartBySender
<1>6. CASE PrepareReceiver
  <2>1. Apart
    BY <1>0, <1>6 DEF PrepareReceiver, Comparing, Multiplying, OnTheirOwn, At
  <2> QED
    BY <1>0, <1>6, <2>1, ApartByReceiver
<1>7. CASE EqualityTest
  <2>1. Apart
    BY <1>0, <1>7 DEF EqualityTest, Together, Comparing, Multiplying, OnTheirOwn, At
  <2> QED
    BY <1>0, <1>7, <2>1, ByEqualityTest
<1>8. CASE InnerProducts
  <2>1. Comparing
    BY <1>0, <1>8 DEF InnerProducts, Together, Apart, Multiplying, OnTheirOwn, At
  <2> QED
    BY <1>0, <1>8, <2>1, ByInnerProducts
<1>9. CASE SharePprfs
  <2>1. Multiplying
    BY <1>0, <1>9 DEF SharePprfs, Together, Apart, Comparing, OnTheirOwn, At
  <2> QED
    BY <1>0, <1>9, <2>1, BySharePprfs
<1>10. CASE UNCHANGED vars
  BY <1>10, NothingChanges
<1> QED
  BY <1>1, <1>2, <1>3, <1>4, <1>5, <1>6, <1>7, <1>8, <1>9, <1>10 DEF Next, Stop

\* The samples and the results of the subprotocols are at every moment what the
\* stages of the two parties say: none is replaced once the exchanges have begun.
THEOREM StagesCorrect == Spec => []PcgInv
<1>1. Init => PcgInv
  <2> SUFFICES ASSUME Init PROVE PcgInv
    OBVIOUS
  <2>1. TypesOK
    BY DEF Init, TypesOK, OnParties
  <2>2. Apart
    BY DEF Init, Apart, Undecrypted, Parties
  <2> QED
    BY <2>1, <2>2 DEF PcgInv
<1> QED
  BY <1>1, PcgStep, PTL DEF Spec

-----------------------------------------------------------------------------
\* The masks.
LEMMA RowOf ==
  ASSUME TypesOK, NEW p \in Parties, NEW g \in Below(params.n)
  PROVE  A(p)[g] \in SUBSET Below(params.k) /\ IsFiniteSet(A(p)[g])
<1>1. seed[p] \in Keys /\ params \in ParamSet
  BY DEF TypesOK
<1>2. A(p)[g] \in SUBSET (0..(params.k - 1))
  BY <1>1, PcgAssumption DEF A, Below
<1>3. IsFiniteSet(0..(params.k - 1))
  <2>1. params.k - 1 \in Int /\ 0 \in Int
    BY <1>1, Numbers
  <2> QED
    BY <2>1, FS_Interval
<1> QED
  BY <1>2, <1>3, FS_Subset DEF Below

\* An inner product has the unknowns of the vector it is of, which no mask is.
LEMMA NoMaskIn ==
  ASSUME TypesOK, BothPrepared, NEW p \in Parties, NEW q \in Parties,
         NEW g \in Below(params.n), NEW r, NEW i
  PROVE  ~(RandomMask(r, i) \subseteq InnerProduct(p, g, s[q]))
<1>1. PICK side : RandomMask(r, i) = {<<2, side, i>>}
  BY DEF RandomMask
<1>2. ASSUME <<2, side, i>> \in XorOver(s[q], A(p)[g]) PROVE FALSE
  <2>1. PICK k \in A(p)[g] : <<2, side, i>> \in s[q][k]
    BY <1>2, RowOf, XorOverHas
  <2>2. k \in Below(params.k)
    BY <2>1, RowOf
  <2>3. CASE q = "sender"
    BY <2>1, <2>2, <2>3 DEF BothPrepared, SenderPrepared, RandomS
  <2>4. CASE q = "receiver"
    <3>1. s[q][k] \subseteq {<<0>>}
      BY <2>2, <2>4 DEF BothPrepared, ReceiverPrepared, Bit, One, Zero
    <3>2. <<2, side, i>>[1] = 2 /\ <<0>>[1] = 0
      OBVIOUS
    <3> QED
      BY <2>1, <3>1, <3>2
  <2> QED
    BY <2>3, <2>4 DEF Parties
<1> QED
  BY <1>1, <1>2 DEF InnerProduct

LEMMA ErrorIndexIn ==
  ASSUME TypesOK, BothPrepared, NEW p \in Parties, NEW i \in Blocks
  PROVE  /\ ErrorIndex(p, i) \in Below(params.n)
         /\ ErrorIndex(p, i) \div blockSize = i /\ ErrorIndex(p, i) % blockSize = e[p][i]
<1>1. e[p][i] \in Below(blockSize)
  BY DEF BothPrepared, SenderPrepared, ReceiverPrepared, Parties
<1> QED
  BY Zenon, <1>1, InBlock DEF TypesOK, ErrorIndex

LEMMA MaskingOf ==
  ASSUME PcgInv
  PROVE  OneTimeMasks
<1> SUFFICES ASSUME NEW p \in Parties, decrypted[p] # <<>>, NEW i \in Blocks
             PROVE  \E mask \in decrypted[p][i] :
                      /\ {mask} \in {RandomMask(Other(p), j) : j \in Blocks}
                      /\ \A j \in Blocks \ {i} : mask \notin decrypted[p][j]
  BY DEF OneTimeMasks
<1>1. TypesOK /\ BothPrepared /\ Multiplied
  BY DEF PcgInv, Apart, Comparing, Multiplying, OnTheirOwn, Undecrypted
<1>2. PICK q : q = Other(p)
  OBVIOUS
<1>3. q \in Parties /\ Other(q) = p
  BY <1>2 DEF Parties, Other
<1>4. PICK mask : \E side : mask = <<2, side, i>> /\ RandomMask(q, i) = {mask}
                            /\ \A j \in Blocks \ {i} : mask \notin RandomMask(q, j)
  <2>1. PICK side : \A j : RandomMask(q, j) = {<<2, side, j>>}
    BY DEF RandomMask
  <2>2. \A j \in Blocks \ {i} : <<2, side, i>> \notin RandomMask(q, j)
    BY <2>1
  <2> QED
    BY Zenon, <2>1, <2>2
<1>5. \A j \in Blocks : decrypted[p][j] =
        Xor(InnerProduct(q, ErrorIndex(q, j), s[p]), RandomMask(q, j))
  <2>1. \A j \in Blocks : masks[q][j] = RandomMask(q, j)
    BY <1>1, <1>3 DEF BothPrepared, SenderPrepared, ReceiverPrepared, Parties
  <2> QED
    BY <1>1, <1>2, <1>3, <2>1 DEF Multiplied, MaskedProduct
<1>6. \A j \in Blocks : mask \notin InnerProduct(q, ErrorIndex(q, j), s[p])
  <2>1. \A j \in Blocks : ~(RandomMask(q, i) \subseteq InnerProduct(q, ErrorIndex(q, j), s[p]))
    BY <1>1, <1>3, ErrorIndexIn, NoMaskIn
  <2> QED
    BY <1>4, <2>1
<1>7. mask \in decrypted[p][i]
  BY <1>4, <1>5, <1>6 DEF Xor, SymDiff
<1>8. \A j \in Blocks \ {i} : mask \notin decrypted[p][j]
  BY <1>4, <1>5, <1>6 DEF Xor, SymDiff
<1> QED
  BY <1>2, <1>4, <1>7, <1>8

\* Every value that a party decrypts is hidden by a mask that its peer uses for
\* nothing else that the party decrypts (OneTimeMasks), for all parameters, public
\* matrices and positions of the errors.
THEOREM MasksUsedOnce == Spec => []OneTimeMasks
BY StagesCorrect, MaskingOf, PTL

-----------------------------------------------------------------------------
\* The terms of the errors.
LEMMA ErrorAt ==
  ASSUME TypesOK, BothPrepared, NEW p \in Parties, NEW g \in Below(params.n)
  PROVE  /\ g = ErrorIndex(p, g \div blockSize) <=> g % blockSize = e[p][g \div blockSize]
         /\ (\E i \in Blocks : g = ErrorIndex(p, i)) <=> g % blockSize = e[p][g \div blockSize]
<1>1. g \div blockSize \in Blocks /\ g = (g \div blockSize) * blockSize + (g % blockSize)
  BY Position DEF TypesOK
<1>2. \A i \in Blocks : g = ErrorIndex(p, i) => g \div blockSize = i /\ g % blockSize = e[p][i]
  BY ErrorIndexIn
<1>3. g % blockSize = e[p][g \div blockSize] => g = ErrorIndex(p, g \div blockSize)
  BY Zenon, <1>1 DEF ErrorIndex
<1> QED
  BY Zenon, <1>1, <1>2, <1>3

\* At an error of p: the inner product of p's row with the vector of its peer.
Cross(p, g) ==
  IF g % blockSize = e[p][g \div blockSize] THEN InnerProduct(p, g, s[Other(p)]) ELSE Zero

Hit(p, g) == g % blockSize = e[p][g \div blockSize]

\* The masks, the shares and the images cancel.
Cancels(a, b, c, d, u, v, f, t, hs, hr) ==
  Xor(Xor(Xor(a, Xor(b, IF hs THEN Xor(u, c) ELSE Zero)), IF hs THEN c ELSE Zero),
      Xor(Xor(Xor(a, IF hr THEN Xor(Xor(v, d), f) ELSE Zero), b),
          IF hr THEN Xor(d, Xor(f, t)) ELSE Zero))
  = Xor(Xor(IF hs THEN u ELSE Zero, IF hr THEN v ELSE Zero), IF hr THEN t ELSE Zero)

LEMMA Cancelled ==
  ASSUME NEW a, NEW b, NEW c, NEW d, NEW u, NEW v, NEW f, NEW t, NEW hs, NEW hr
  PROVE  Cancels(a, b, c, d, u, v, f, t, hs, hr)
<1> USE DEF Cancels
<1>1. CASE hs /\ hr
  <2>1. Xor(Xor(Xor(a, Xor(b, Xor(u, c))), c),
            Xor(Xor(Xor(a, Xor(Xor(v, d), f)), b), Xor(d, Xor(f, t)))) = Xor(Xor(u, v), t)
    BY DEF Xor, SymDiff
  <2> QED
    BY Zenon, <1>1, <2>1
<1>2. CASE hs /\ ~hr
  <2>1. Xor(Xor(Xor(a, Xor(b, Xor(u, c))), c), Xor(Xor(Xor(a, Zero), b), Zero))
        = Xor(Xor(u, Zero), Zero)
    BY DEF Xor, SymDiff, Zero
  <2> QED
    BY Zenon, <1>2, <2>1
<1>3. CASE ~hs /\ hr
  <2>1. Xor(Xor(Xor(a, Xor(b, Zero)), Zero),
            Xor(Xor(Xor(a, Xor(Xor(v, d), f)), b), Xor(d, Xor(f, t)))) = Xor(Xor(Zero, v), t)
    BY DEF Xor, SymDiff, Zero
  <2> QED
    BY Zenon, <1>3, <2>1
<1>4. CASE ~hs /\ ~hr
  <2>1. Xor(Xor(Xor(a, Xor(b, Zero)), Zero), Xor(Xor(Xor(a, Zero), b), Zero))
        = Xor(Xor(Zero, Zero), Zero)
    BY DEF Xor, SymDiff, Zero
  <2> QED
    BY Zenon, <1>4, <2>1
<1> QED
  BY <1>1, <1>2, <1>3, <1>4

LEMMA FinalBits ==
  ASSUME TypesOK, OnTheirOwn, NEW g \in Below(params.n)
  PROVE  Xor(FinalBit("sender", g), FinalBit("receiver", g)) =
           Xor(Xor(Cross("sender", g), Cross("receiver", g)),
               Bit(Hit("sender", g) /\ Hit("receiver", g)))
<1>1. PICK i, x : i = g \div blockSize /\ x = g % blockSize
  OBVIOUS
<1>2. i \in Blocks /\ x \in Below(blockSize)
  BY <1>1, Position DEF TypesOK
<1>3. PICK hs, hr : hs = (x = e["sender"][i]) /\ hr = (x = e["receiver"][i])
  OBVIOUS
<1>4. PICK u, v, t : /\ u = InnerProduct("sender", ErrorIndex("sender", i), s["receiver"])
                     /\ v = InnerProduct("receiver", ErrorIndex("receiver", i), s["sender"])
                     /\ t = Bit(e["sender"][i] = e["receiver"][i])
  OBVIOUS
<1>5. /\ "sender" \in Parties /\ "receiver" \in Parties
      /\ Other("sender") = "receiver" /\ Other("receiver") = "sender"
  BY DEF Parties, Other
<1>6. BothPrepared /\ Compared /\ Multiplied /\ Shared
  BY DEF OnTheirOwn
<1>7. PICK a, b, c, d, f : a = eXas_eoe["sender"][i][x] /\ b = eXas["receiver"][i][x]
                           /\ c = masks["sender"][i] /\ d = masks["receiver"][i]
                           /\ f = eoe["sender"][i]
  OBVIOUS
<1>8. decrypted["receiver"][i] = Xor(u, c) /\ decrypted["sender"][i] = Xor(v, d)
  BY <1>2, <1>4, <1>5, <1>6, <1>7 DEF Multiplied, MaskedProduct
<1>9. eoe["receiver"][i] = Xor(f, t)
  BY <1>2, <1>4, <1>6, <1>7 DEF Compared
<1>10. FinalBit("sender", g) =
         Xor(Xor(a, Xor(b, IF hs THEN Xor(u, c) ELSE Zero)), IF hs THEN c ELSE Zero)
  <2>1. eXas["sender"][i][x] = Xor(b, IF hs THEN Xor(u, c) ELSE Zero)
    <3>1. eXas["sender"][i][x] =
            Xor(eXas["receiver"][i][x],
                IF x = e["sender"][i] THEN decrypted["receiver"][i] ELSE Zero)
      BY Zenon, <1>2, <1>6 DEF Shared
    <3> QED
      BY Zenon, <1>3, <1>7, <1>8, <3>1
  <2>2. Correction("sender", i) = c
    BY <1>7 DEF Correction
  <2> QED
    BY Zenon, <1>1, <1>3, <1>7, <2>1, <2>2 DEF FinalBit
<1>11. FinalBit("receiver", g) =
         Xor(Xor(Xor(a, IF hr THEN Xor(Xor(v, d), f) ELSE Zero), b),
             IF hr THEN Xor(d, Xor(f, t)) ELSE Zero)
  <2>1. eXas_eoe["receiver"][i][x] = Xor(a, IF hr THEN Xor(Xor(v, d), f) ELSE Zero)
    <3>1. Payload(i) = Xor(Xor(v, d), f)
      BY Zenon, <1>7, <1>8 DEF Payload
    <3>2. eXas_eoe["receiver"][i][x] =
            Xor(eXas_eoe["sender"][i][x],
                IF x = e["receiver"][i] THEN Payload(i) ELSE Zero)
      BY Zenon, <1>2, <1>6 DEF Shared
    <3> QED
      BY Zenon, <1>3, <1>7, <3>1, <3>2
  <2>2. Correction("receiver", i) = Xor(d, Xor(f, t))
    BY <1>7, <1>9 DEF Correction
  <2> QED
    BY Zenon, <1>1, <1>3, <1>7, <2>1, <2>2 DEF FinalBit
<1>12. Cross("sender", g) = IF hs THEN u ELSE Zero
  <2>1. hs => g = ErrorIndex("sender", i)
    BY <1>1, <1>3, <1>5, <1>6, ErrorAt
  <2> QED
    BY <1>1, <1>3, <1>4, <1>5, <2>1 DEF Cross
<1>13. Cross("receiver", g) = IF hr THEN v ELSE Zero
  <2>1. hr => g = ErrorIndex("receiver", i)
    BY <1>1, <1>3, <1>5, <1>6, ErrorAt
  <2> QED
    BY <1>1, <1>3, <1>4, <1>5, <2>1 DEF Cross
<1>14. (IF hr THEN t ELSE Zero) = Bit(Hit("sender", g) /\ Hit("receiver", g))
  BY <1>1, <1>3, <1>4 DEF Hit, Bit
<1>15. Cancels(a, b, c, d, u, v, f, t, hs, hr)
  BY Zenon, Cancelled
<1> QED
  BY ONLY Zenon, <1>10, <1>11, <1>12, <1>13, <1>14, <1>15 DEF Cancels

LEMMA TermsOf ==
  ASSUME PcgInv
  PROVE  ErrorTerms
<1> SUFFICES ASSUME \A p \in Parties : At(p, "finalized"), NEW g \in Below(available)
             PROVE  LET i == g \div blockSize
                        hit == [p \in Parties |-> g = ErrorIndex(p, i)]
                        cross(p) == IF hit[p] THEN InnerProduct(p, g, s[Other(p)]) ELSE Zero
                    IN  Xor(output["sender"][g], output["receiver"][g]) =
                          Xor(Xor(cross("sender"), cross("receiver")),
                              Bit(\A p \in Parties : hit[p]))
  BY DEF ErrorTerms
<1> DEFINE hit == [p \in Parties |-> g = ErrorIndex(p, g \div blockSize)]
<1>1. "sender" \in Parties /\ "receiver" \in Parties
  BY DEF Parties
<1>2. TypesOK /\ OnTheirOwn
  BY <1>1 DEF PcgInv, Apart, Comparing, Multiplying, At
<1>3. g \in Below(params.n)
  BY <1>2, AvailableIs, Numbers DEF Below, TypesOK
<1>4. \A p \in Parties : output[p][g] = FinalBit(p, g)
  BY <1>2 DEF OnTheirOwn, Output
<1>5. \A p \in Parties : hit[p] = Hit(p, g)
  BY <1>2, <1>3, ErrorAt DEF Hit, OnTheirOwn
<1>6. (\A p \in Parties : hit[p]) <=> Hit("sender", g) /\ Hit("receiver", g)
  BY <1>1, <1>5 DEF Parties
<1> HIDE DEF hit
<1>7. \A p \in Parties :
        Cross(p, g) = IF hit[p] THEN InnerProduct(p, g, s[Other(p)]) ELSE Zero
  BY Zenon, <1>5 DEF Cross, Hit
<1>8. Xor(output["sender"][g], output["receiver"][g]) =
        Xor(Xor(Cross("sender", g), Cross("receiver", g)),
            Bit(Hit("sender", g) /\ Hit("receiver", g)))
  BY <1>1, <1>2, <1>3, <1>4, FinalBits
<1>9. Bit(\A p \in Parties : hit[p]) = Bit(Hit("sender", g) /\ Hit("receiver", g))
  BY Zenon, <1>6 DEF Bit
<1> QED
  BY Zenon, <1>1, <1>7, <1>8, <1>9 DEF hit

\* Once both have finalized, and before either expands, their outputs are shares of
\* what the errors contribute to the products (ErrorTerms): the masks, the images
\* and the shares of the equality test cancel, for all parameters and errors.
THEOREM TermsShared == Spec => []ErrorTerms
BY StagesCorrect, TermsOf, PTL

-----------------------------------------------------------------------------
\* The products.  Row g of A, the columns of B = A * H, and the columns at which
\* the images of the dual functions differ.
LEMMA DualErrorAt ==
  ASSUME TypesOK, BothPrepared, NEW c \in Below(params.N)
  PROVE  /\ c \div dualBlockSize \in Below(params.td)
         /\ c % dualBlockSize \in Below(dualBlockSize)
         /\ c \in DualErrors <=> c % dualBlockSize = epsilon[c \div dualBlockSize]
<1>1. PICK N, t, d, q, r : N = params.N /\ t = params.td /\ d = dualBlockSize
                           /\ q = c \div d /\ r = c % d
  OBVIOUS
<1>2. N \in Nat \ {0} /\ t \in Nat \ {0} /\ d \in Nat \ {0} /\ N <= d * t
  BY <1>1, Numbers, CeilDivCovers DEF TypesOK, dualBlockSize
<1>3. c \in Nat /\ c < N
  BY <1>1, <1>2 DEF Below
<1>4. q \in Nat /\ r \in 0..(d - 1) /\ c = q * d + r
  BY <1>1, <1>2, <1>3, Divided
<1>5. q < t
  <2>1. SUFFICES ASSUME ~(q < t) PROVE FALSE
    OBVIOUS
  <2>2. PICK y, z : y = t * d /\ z = q * d
    OBVIOUS
  <2>3. y \in Nat /\ z \in Nat /\ N <= y /\ c = z + r
    BY <1>2, <1>4, <2>2
  <2>4. CASE q = t
    BY <1>2, <1>3, <1>4, <2>2, <2>3, <2>4
  <2>5. CASE t < q
    <3>1. y + d <= z
      BY <1>2, <1>4, <2>2, <2>5, Stretch
    <3> QED
      BY <1>2, <1>3, <1>4, <2>3, <3>1
  <2> QED
    BY <1>2, <1>4, <2>1, <2>4, <2>5
<1>6. q \in Below(params.td) /\ r \in Below(dualBlockSize)
  BY <1>1, <1>2, <1>4, <1>5 DEF Below
<1>7. ASSUME NEW j \in Below(params.td), c = j * dualBlockSize + epsilon[j]
      PROVE  q = j /\ r = epsilon[j]
  <2>1. PICK x : x = epsilon[j]
    OBVIOUS
  <2>2. x \in 0..(d - 1)
    BY <1>1, <1>2, <2>1 DEF BothPrepared, ReceiverPrepared, Below
  <2>3. j \in Nat /\ d \in Nat \ {0}
    BY <1>1, <1>2 DEF Below
  <2>4. c = j * d + x
    BY Zenon, <1>1, <1>7, <2>1
  <2>5. c \div d = j /\ c % d = x
    BY Zenon, <2>2, <2>3, <2>4, DividesAs
  <2> QED
    BY Zenon, <1>1, <2>1, <2>5
<1>8. r = epsilon[q] => c = q * dualBlockSize + epsilon[q]
  BY Zenon, <1>1, <1>4
<1>9. c \in DualErrors <=> \E j \in Below(params.td) : c = j * dualBlockSize + epsilon[j]
  BY DEF DualErrors
<1> QED
  BY Zenon, <1>1, <1>6, <1>7, <1>8, <1>9

LEMMA FiniteColumns ==
  ASSUME TypesOK
  PROVE  /\ IsFiniteSet(Below(params.N)) /\ IsFiniteSet(DualErrors \cap Below(params.N))
         /\ \A p, g : B(p, g) \subseteq Below(params.N) /\ IsFiniteSet(B(p, g))
<1>1. IsFiniteSet(Below(params.N))
  <2>1. params.N - 1 \in Int /\ 0 \in Int
    BY Numbers DEF TypesOK
  <2> QED
    BY <2>1, FS_Interval DEF Below
<1>2. \A p, g : B(p, g) \subseteq Below(params.N)
  BY DEF B
<1>3. DualErrors \cap Below(params.N) \subseteq Below(params.N)
  OBVIOUS
<1> QED
  BY <1>1, <1>2, <1>3, FS_Subset

\* Where an odd number of the dual errors are columns of B.
OddlyMet(g) == Odd(DualErrors \cap B("sender", g))

\* The inner product of the receiver's vector, which is H times the dual error.
LEMMA ReceiversProduct ==
  ASSUME TypesOK, BothPrepared, seed["sender"] = seed["receiver"], NEW g \in Below(params.n)
  PROVE  /\ InnerProduct("receiver", g, s["receiver"]) = Bit(OddlyMet(g))
         /\ InnerProduct("sender", g, s["receiver"]) = Bit(OddlyMet(g))
<1>1. PICK R : R = A("sender")[g]
  OBVIOUS
<1>2. R \in SUBSET Below(params.k) /\ IsFiniteSet(R)
  BY <1>1, RowOf DEF Parties
<1>3. A("receiver")[g] = R /\ H("receiver") = H("sender")
  BY <1>1 DEF A, H
<1>4. PICK D, h : D = DualErrors \cap Below(params.N) /\ h = H("sender")
  OBVIOUS
<1>5. IsFiniteSet(D) /\ DualErrors \subseteq Below(params.N) /\ D = DualErrors
  <2>1. DualErrors \subseteq Below(params.N)
    <3>1. ASSUME NEW c \in DualErrors PROVE c \in Nat /\ c < params.N
      <4>1. c < params.N
        BY DEF BothPrepared, ReceiverPrepared
      <4>2. PICK j \in Below(params.td) : c = j * dualBlockSize + epsilon[j]
        BY DEF DualErrors
      <4>3. dualBlockSize \in Nat /\ params.td \in Nat
        BY Numbers, CeilDivCovers DEF dualBlockSize, TypesOK
      <4>4. epsilon[j] \in Nat /\ j \in Nat
        BY <4>3 DEF Below, BothPrepared, ReceiverPrepared
      <4> QED
        BY <4>1, <4>2, <4>3, <4>4
    <3> QED
      BY <3>1, Numbers DEF Below, TypesOK
  <2> QED
    BY <1>4, <2>1, FiniteColumns
<1>6. PICK C : C = {i \in R : Odd({c \in D : c \in h[i]})}
  OBVIOUS
<1>7. \A i \in R : s["receiver"][i] = IF i \in C THEN One ELSE Zero
  <2>1. ASSUME NEW i \in R PROVE s["receiver"][i] = IF i \in C THEN One ELSE Zero
    <3>1. DualErrors \cap H("receiver")[i] = {c \in D : c \in h[i]}
      BY <1>3, <1>4, <1>5
    <3>2. s["receiver"][i] = Bit(Odd({c \in D : c \in h[i]}))
      BY <1>2, <3>1 DEF BothPrepared, ReceiverPrepared, Odd
    <3> QED
      BY <1>6, <3>2 DEF Bit
  <2> QED
    BY <2>1
<1>8. XorOver(s["receiver"], R) = IF Odd(C \cap R) THEN One ELSE Zero
  BY <1>2, <1>7, XorOverOne
<1>9. Odd(C) <=> Odd({c \in D : Odd({i \in R : c \in h[i]})})
  <2>1. EitherSide(R, D, h)
    BY Zenon, <1>2, <1>5, OddBothWays
  <2> QED
    BY Zenon, <1>6, <2>1 DEF EitherSide
<1>10. {c \in D : Odd({i \in R : c \in h[i]})} = DualErrors \cap B("sender", g)
  BY <1>1, <1>4, <1>5 DEF B, Odd
<1>11. C \cap R = C
  BY <1>6
<1>12. XorOver(s["receiver"], R) = Bit(OddlyMet(g))
  BY <1>8, <1>9, <1>10, <1>11 DEF Bit, OddlyMet
<1> QED
  BY <1>1, <1>3, <1>12 DEF InnerProduct

\* What the two add when they expand: the sender's inner product where the rows of
\* B meet the dual errors an odd number of times.
LEMMA ExpandedBits ==
  ASSUME TypesOK, OnTheirOwn, seed["sender"] = seed["receiver"], NEW g \in Below(params.n)
  PROVE  Xor(ExpandedBit("sender", g), ExpandedBit("receiver", g)) =
           IF OddlyMet(g) THEN InnerProduct("sender", g, s["sender"]) ELSE Zero
<1>1. BothPrepared /\ Shared
  BY DEF OnTheirOwn
<1>2. PICK R, X, P : R = A("sender")[g] /\ X = B("sender", g)
                     /\ P = InnerProduct("sender", g, s["sender"])
  OBVIOUS
<1>3. A("receiver")[g] = R /\ B("receiver", g) = X
  BY Zenon, <1>2 DEF A, B, H
<1>4. R \in SUBSET Below(params.k) /\ IsFiniteSet(R)
  BY <1>2, RowOf DEF Parties
<1>5. X \subseteq Below(params.N) /\ IsFiniteSet(X)
  BY <1>2, FiniteColumns
<1> DEFINE Term(p) == [c \in Below(params.N) |->
                         XorOver(eXs[p][c \div dualBlockSize][c % dualBlockSize], R)]
           Difference == [c \in X |-> IF c \in DualErrors THEN P ELSE Zero]
<1>6. ExpandedBit("sender", g) = XorOver(Term("sender"), X)
      /\ ExpandedBit("receiver", g) = XorOver(Term("receiver"), X)
  BY Zenon, <1>2, <1>3 DEF ExpandedBit
<1>7. ASSUME NEW c \in X
      PROVE  Difference[c] = Xor(Term("sender")[c], Term("receiver")[c])
  <2>1. PICK j, x, v, w : /\ j = c \div dualBlockSize /\ x = c % dualBlockSize
                          /\ v = eXs["sender"][j][x] /\ w = eXs["receiver"][j][x]
    OBVIOUS
  <2>2. c \in Below(params.N)
    BY <1>5
  <2>3. j \in Below(params.td) /\ x \in Below(dualBlockSize)
        /\ (c \in DualErrors <=> x = epsilon[j])
    BY <1>1, <2>1, <2>2, DualErrorAt
  <2>4. Term("sender")[c] = XorOver(v, R) /\ Term("receiver")[c] = XorOver(w, R)
    BY <2>1, <2>2
  <2> HIDE DEF Term
  <2>5. \A i \in R : w[i] = Xor(v[i], IF x = epsilon[j] THEN s["sender"][i] ELSE Zero)
    BY <1>1, <1>4, <2>1, <2>3 DEF Shared
  <2>6. CASE c \in DualErrors
    <3>1. \A i \in R : w[i] = Xor(v[i], s["sender"][i])
      BY <2>3, <2>5, <2>6
    <3>2. XorOver(w, R) = Xor(XorOver(v, R), XorOver(s["sender"], R))
      BY <1>4, <3>1, XorOverXor
    <3>3. P = XorOver(s["sender"], R)
      BY <1>2 DEF InnerProduct
    <3>4. Difference[c] = P
      BY <2>6
    <3>5. \A Y, Z : Z = Xor(Y, Xor(Y, Z))
      BY DEF Xor, SymDiff
    <3> QED
      BY <2>4, <3>2, <3>3, <3>4, <3>5
  <2>7. CASE c \notin DualErrors
    <3>1. \A i \in R : w[i] = v[i]
      BY <2>3, <2>5, <2>7 DEF Xor, SymDiff, Zero
    <3>2. XorOver(w, R) = XorOver(v, R)
      BY <1>4, <3>1, XorOverSame
    <3>3. Difference[c] = Zero
      BY <2>7
    <3>4. \A Y : Xor(Y, Y) = Zero
      BY DEF Xor, SymDiff, Zero
    <3> QED
      BY <2>4, <3>2, <3>3, <3>4
  <2> QED
    BY <2>6, <2>7
<1>8. \A c \in X : Difference[c] = IF c \in DualErrors THEN P ELSE Zero
  OBVIOUS
<1> HIDE DEF Term, Difference
<1>9. XorOver(Difference, X) = Xor(XorOver(Term("sender"), X), XorOver(Term("receiver"), X))
  BY <1>5, <1>7, XorOverXor
<1>10. XorOver(Difference, X) = IF Odd(DualErrors \cap X) THEN P ELSE Zero
  BY <1>5, <1>8, XorOverOne
<1> QED
  BY <1>2, <1>6, <1>9, <1>10 DEF OddlyMet

\* With one seed, what the errors contribute and what the expansion adds are the
\* shares of the product of the inputs.
InputBit(p, g) == Xor(InnerProduct(p, g, s[p]), Bit(Hit(p, g)))

\* The algebra of it, for an inner product w of the sender's vector.
Multiplies(w, met, hs, hr) ==
  Xor(Xor(Xor(IF hs THEN Bit(met) ELSE Zero, IF hr THEN w ELSE Zero), Bit(hs /\ hr)),
      IF met THEN w ELSE Zero)
  = And(Xor(w, Bit(hs)), Xor(Bit(met), Bit(hr)))

LEMMA Multiplication ==
  ASSUME NEW w, NEW met \in BOOLEAN, NEW hs \in BOOLEAN, NEW hr \in BOOLEAN
  PROVE  Multiplies(w, met, hs, hr) /\ Xor(Bit(met), Bit(hr)) \in {Zero, One}
<1>1. \A X : Xor(X, Zero) = X /\ Xor(Zero, X) = X /\ Xor(X, X) = Zero
  BY DEF Xor, SymDiff, Zero
<1>2. Zero # One
  BY DEF Zero, One
<1>3. Xor(Xor(Xor(One, w), One), w) = Zero
  BY DEF Xor, SymDiff, Zero, One
<1>4. Xor(w, One) = Xor(One, w)
  BY DEF Xor, SymDiff
<1>5. CASE met /\ hs /\ hr
  BY <1>1, <1>2, <1>3, <1>5 DEF Multiplies, And, Bit
<1>6. CASE met /\ hs /\ ~hr
  BY <1>1, <1>2, <1>4, <1>6 DEF Multiplies, And, Bit
<1>7. CASE met /\ ~hs /\ hr
  BY <1>1, <1>2, <1>7 DEF Multiplies, And, Bit
<1>8. CASE met /\ ~hs /\ ~hr
  BY <1>1, <1>2, <1>8 DEF Multiplies, And, Bit
<1>9. CASE ~met /\ hs /\ hr
  BY <1>1, <1>2, <1>9 DEF Multiplies, And, Bit
<1>10. CASE ~met /\ hs /\ ~hr
  BY <1>1, <1>2, <1>10 DEF Multiplies, And, Bit
<1>11. CASE ~met /\ ~hs /\ hr
  BY <1>1, <1>2, <1>11 DEF Multiplies, And, Bit
<1>12. CASE ~met /\ ~hs /\ ~hr
  BY <1>1, <1>2, <1>12 DEF Multiplies, And, Bit
<1> QED
  BY <1>5, <1>6, <1>7, <1>8, <1>9, <1>10, <1>11, <1>12

LEMMA SharesOfProducts ==
  ASSUME TypesOK, OnTheirOwn, seed["sender"] = seed["receiver"], NEW g \in Below(params.n)
  PROVE  /\ Xor(Xor(FinalBit("sender", g), ExpandedBit("sender", g)),
                Xor(FinalBit("receiver", g), ExpandedBit("receiver", g)))
              = And(InputBit("sender", g), InputBit("receiver", g))
         /\ InputBit("receiver", g) \in {Zero, One}
<1>1. PICK w, met, hs, hr : /\ w = InnerProduct("sender", g, s["sender"])
                            /\ met = (OddlyMet(g) = TRUE)
                            /\ hs = Hit("sender", g) /\ hr = Hit("receiver", g)
  OBVIOUS
<1>2. /\ "sender" \in Parties /\ "receiver" \in Parties
      /\ Other("sender") = "receiver" /\ Other("receiver") = "sender"
  BY DEF Parties, Other
<1>3. BothPrepared
  BY DEF OnTheirOwn
<1>4. InnerProduct("receiver", g, s["sender"]) = w
  BY <1>1 DEF InnerProduct, A
<1>5. /\ InnerProduct("sender", g, s["receiver"]) = Bit(met)
      /\ InnerProduct("receiver", g, s["receiver"]) = Bit(met)
  <2>1. OddlyMet(g) \in BOOLEAN
    BY DEF OddlyMet, Odd
  <2> QED
    BY <1>1, <1>3, <2>1, ReceiversProduct
<1>6. Xor(FinalBit("sender", g), FinalBit("receiver", g)) =
        Xor(Xor(IF hs THEN Bit(met) ELSE Zero, IF hr THEN w ELSE Zero), Bit(hs /\ hr))
  <2>1. Cross("sender", g) = (IF hs THEN Bit(met) ELSE Zero)
        /\ Cross("receiver", g) = (IF hr THEN w ELSE Zero)
    BY Zenon, <1>1, <1>2, <1>4, <1>5 DEF Cross, Hit
  <2> QED
    BY Zenon, <1>1, <2>1, FinalBits
<1>7. Xor(ExpandedBit("sender", g), ExpandedBit("receiver", g)) = IF met THEN w ELSE Zero
  BY <1>1, ExpandedBits
<1>8. InputBit("sender", g) = Xor(w, Bit(hs))
      /\ InputBit("receiver", g) = Xor(Bit(met), Bit(hr))
  BY Zenon, <1>1, <1>5 DEF InputBit
<1>9. Multiplies(w, met, hs, hr) /\ Xor(Bit(met), Bit(hr)) \in {Zero, One}
  BY <1>1, Multiplication DEF Hit
<1>10. PICK a, b, c, d : /\ a = FinalBit("sender", g) /\ b = ExpandedBit("sender", g)
                         /\ c = FinalBit("receiver", g) /\ d = ExpandedBit("receiver", g)
  OBVIOUS
<1>11. Xor(Xor(FinalBit("sender", g), ExpandedBit("sender", g)),
           Xor(FinalBit("receiver", g), ExpandedBit("receiver", g))) =
       Xor(Xor(FinalBit("sender", g), FinalBit("receiver", g)),
           Xor(ExpandedBit("sender", g), ExpandedBit("receiver", g)))
  <2>1. Xor(Xor(a, b), Xor(c, d)) = Xor(Xor(a, c), Xor(b, d))
    BY DEF Xor, SymDiff
  <2> QED
    BY Zenon, <1>10, <2>1
<1> QED
  BY Zenon, <1>6, <1>7, <1>8, <1>9, <1>11 DEF Multiplies

LEMMA InputsAre ==
  ASSUME TypesOK, NEW p \in Parties
  PROVE  /\ DOMAIN inputs(p) = Below(available) /\ inputs(p) # <<>>
         /\ BothPrepared => \A g \in Below(available) : inputs(p)[g] = InputBit(p, g)
<1>1. 0 \in Below(available)
  BY AvailableIs DEF Below, TypesOK
<1>2. DOMAIN inputs(p) = Below(available)
  BY DEF inputs
<1>3. inputs(p) # <<>>
  BY <1>1, <1>2
<1>4. ASSUME BothPrepared, NEW g \in Below(available) PROVE inputs(p)[g] = InputBit(p, g)
  <2>1. g \in Below(params.n)
    BY AvailableIs, Numbers DEF Below, TypesOK
  <2>2. (\E i \in Blocks : g = ErrorIndex(p, i)) <=> Hit(p, g)
    BY <1>4, <2>1, ErrorAt DEF Hit
  <2> QED
    BY <2>2 DEF inputs, InputBit, Bit
<1> QED
  BY <1>2, <1>3, <1>4

-----------------------------------------------------------------------------
\* The refinement of module Ole.
Input == [p \in Parties |-> IF s[p] = <<>> THEN <<>> ELSE inputs(p)]
Share == [p \in Parties |-> IF At(p, "expanded") THEN output[p] ELSE <<>>]

LEMMA InputStays ==
  ASSUME NEW p \in Parties, UNCHANGED <<params, seed, s[p], e[p]>>
  PROVE  Input'[p] = Input[p]
<1>1. A(p)' = A(p) /\ Below(available)' = Below(available) /\ Blocks' = Blocks
  BY Zenon DEF A, Below, available, Blocks
<1>2. \A i : ErrorIndex(p, i)' = ErrorIndex(p, i)
  BY DEF ErrorIndex, blockSize
<1>3. inputs(p)' = inputs(p)
  BY Zenon, <1>1, <1>2 DEF inputs, InnerProduct, Bit, One, Zero
<1> QED
  BY <1>3 DEF Input

\* A step that leaves the samples alone, and neither begins nor ends an expansion,
\* changes nothing of the ideal.
LEMMA IdealStutters ==
  ASSUME UNCHANGED <<params, seed, samples>>,
         \A p \in Parties : At(p, "expanded") \/ stage'[p] = "expanded" =>
                              UNCHANGED <<stage[p], output[p]>>
  PROVE  UNCHANGED <<Input, Share>>
<1>1. \A p \in Parties : Input'[p] = Input[p]
  BY InputStays DEF samples
<1>2. \A p \in Parties : Share'[p] = Share[p]
  BY DEF Share, At
<1>3. UNCHANGED Input
  <2>1. Input = [p \in Parties |-> Input[p]] /\ Input' = [p \in Parties |-> Input'[p]]
    BY DEF Input
  <2> QED
    BY Zenon, <1>1, <2>1
<1>4. UNCHANGED Share
  <2>1. Share = [p \in Parties |-> Share[p]] /\ Share' = [p \in Parties |-> Share'[p]]
    BY DEF Share
  <2> QED
    BY Zenon, <1>2, <2>1
<1> QED
  BY <1>3, <1>4

\* A step by which one party gets its samples.
LEMMA IdealChooses ==
  ASSUME TypesOK, TypesOK', NEW p \in Parties, s[p] = <<>>, s'[p] # <<>>,
         UNCHANGED <<params, seed>>,
         \A q \in Parties : q # p => UNCHANGED <<s[q], e[q]>>,
         \A q \in Parties : ~At(q, "expanded") /\ stage'[q] # "expanded"
  PROVE  Ideal!Choose(p)
<1>1. \A q \in Parties : q # p => Input'[q] = Input[q]
  BY InputStays
<1>2. Input[p] = <<>> /\ Input'[p] # <<>>
  <2>1. inputs(p)' # <<>>
    <3>1. UNCHANGED Below(available)
      BY DEF Below, available
    <3>2. 0 \in Below(available)'
      <4>1. 0 \in Below(available)
        BY AvailableIs DEF Below, TypesOK
      <4> QED
        BY Zenon, <3>1, <4>1
    <3>3. DOMAIN inputs(p)' = Below(available)'
      BY DEF inputs
    <3> QED
      BY <3>2, <3>3
  <2> QED
    BY <2>1 DEF Input
<1>3. Input = [q \in Parties |-> Input[q]] /\ Input' = [q \in Parties |-> Input'[q]]
  BY DEF Input
<1>4. Input' = [Input EXCEPT ![p] = Input'[p]]
  <2> HIDE DEF Input
  <2> QED
    BY <1>1, <1>3
<1>5. UNCHANGED Share
  BY DEF Share, At
<1> QED
  BY Zenon, <1>2, <1>4, <1>5 DEF Ideal!Choose, Ideal!Nothing, Input, Share

\* A step by which one party gets its outputs.
LEMMA IdealGives ==
  ASSUME SharedSeed, TypesOK, OnTheirOwn, NEW p \in Parties, NEW q \in Parties, p # q,
         expand(p), stage'[p] = "expanded"
  PROVE  Ideal!Give(p, q)
<1>1. /\ UNCHANGED <<params, seed, samples, results>> /\ UNCHANGED <<stage[q], output[q]>>
      /\ At(p, "finalized") /\ params.size <= params.n
      /\ DOMAIN output'[p] = Below(params.size)
      /\ \A g \in Below(params.size) : output'[p][g] = Xor(FinalBit(p, g), ExpandedBit(p, g))
  BY ByExpand DEF At
<1>2. /\ BothPrepared /\ seed["sender"] = seed["receiver"] /\ Parties = {p, q}
      /\ s[p] # <<>> /\ s[q] # <<>>
  BY DEF OnTheirOwn, TypesOK, Parties, BothPrepared, SenderPrepared, ReceiverPrepared
<1>3. Input[p] = inputs(p) /\ Input[q] = inputs(q)
  BY <1>2 DEF Input
<1>4. Input[p] # <<>> /\ Input[q] # <<>> /\ DOMAIN Input[p] = Below(params.size)
  <2>1. Below(available) = Below(params.size)
    BY Zenon, <1>1, AvailableIs DEF TypesOK
  <2> QED
    BY <1>3, <2>1, InputsAre
<1>5. Share[p] = <<>> /\ Share'[p] = output'[p] /\ Share'[q] = Share[q]
  BY <1>1 DEF Share, At
<1>6. UNCHANGED Input
  <2>1. Input'[p] = Input[p] /\ Input'[q] = Input[q]
    BY <1>1, InputStays DEF samples
  <2>2. Input = [r \in Parties |-> Input[r]] /\ Input' = [r \in Parties |-> Input'[r]]
    BY DEF Input
  <2> HIDE DEF Input
  <2> QED
    BY <1>2, <2>1, <2>2
<1>7. Share' = [Share EXCEPT ![p] = Share'[p]]
  <2>1. Share = [r \in Parties |-> Share[r]] /\ Share' = [r \in Parties |-> Share'[r]]
    BY DEF Share
  <2> HIDE DEF Share
  <2> QED
    BY <1>2, <1>5, <2>1
<1>8. ASSUME Share[q] # <<>>, NEW g \in Below(params.size)
      PROVE  Xor(Share'[p][g], Share[q][g]) = Product(Input[p][g], Input[q][g])
  <2>1. Share[q] = output[q] /\ At(q, "expanded")
    BY <1>8 DEF Share
  <2>2. output[q][g] = Xor(FinalBit(q, g), ExpandedBit(q, g))
    BY <1>8, <2>1 DEF OnTheirOwn, Output
  <2>3. output'[p][g] = Xor(FinalBit(p, g), ExpandedBit(p, g))
    BY <1>1, <1>8
  <2>4. g \in Below(params.n) /\ g \in Below(available)
    BY <1>1, AvailableIs, Numbers DEF Below, TypesOK
  <2>5. inputs(p)[g] = InputBit(p, g) /\ inputs(q)[g] = InputBit(q, g)
    BY <1>2, <2>4, InputsAre
  <2>6. PICK x, y : x = InputBit("sender", g) /\ y = InputBit("receiver", g)
    OBVIOUS
  <2>7. /\ Xor(Xor(FinalBit("sender", g), ExpandedBit("sender", g)),
               Xor(FinalBit("receiver", g), ExpandedBit("receiver", g))) = And(x, y)
        /\ y \in {Zero, One}
    BY Zenon, <1>2, <2>4, <2>6, SharesOfProducts
  <2>8. Product(x, y) = And(x, y) /\ Product(y, x) = And(x, y)
    BY <2>7 DEF Product, And, Zero, One
  <2>9. CASE p = "sender" /\ q = "receiver"
    BY Zenon, <1>3, <1>5, <2>1, <2>2, <2>3, <2>5, <2>6, <2>7, <2>8, <2>9
  <2>10. CASE p = "receiver" /\ q = "sender"
    <3>1. \A X, Y : Xor(X, Y) = Xor(Y, X)
      BY DEF Xor, SymDiff
    <3>2. Xor(output'[p][g], output[q][g]) = And(x, y)
      BY Zenon, <2>2, <2>3, <2>7, <2>10, <3>1
    <3>3. Product(inputs(p)[g], inputs(q)[g]) = And(x, y)
      BY Zenon, <2>5, <2>6, <2>8, <2>10
    <3> QED
      BY Zenon, <1>3, <1>5, <2>1, <3>2, <3>3
  <2> QED
    BY <2>9, <2>10 DEF Parties
<1>9. DOMAIN Share'[p] = DOMAIN Input[p]
  BY <1>1, <1>4, <1>5
<1> HIDE DEF Input, Share
<1>10. /\ Input[p] # <<>> /\ Input[q] # <<>> /\ Share[p] = <<>>
       /\ Share' = [Share EXCEPT ![p] = Share'[p]]
       /\ DOMAIN Share'[p] = DOMAIN Input[p]
       /\ (Share[q] # <<>> =>
            \A g \in DOMAIN Input[p] :
              Ideal!Xor(Share'[p][g], Share[q][g]) = Product(Input[p][g], Input[q][g]))
       /\ UNCHANGED Input
  <2>1. \A X, Y : Ideal!Xor(X, Y) = Xor(X, Y)
    BY Zenon DEF Ideal!Xor, Ideal!SymDiff, Xor, SymDiff
  <2> QED
    BY <1>4, <1>5, <1>6, <1>7, <1>8, <1>9, <2>1
<1> QED
  BY Zenon, <1>10 DEF Ideal!Give, Ideal!Nothing, Input, Share

LEMMA IdealStep ==
  ASSUME SharedSeed, PcgInv, [Next]_vars
  PROVE  (\E p \in Parties : Ideal!Choose(p))
         \/ (\E p, q \in Parties : p # q /\ Ideal!Give(p, q))
         \/ UNCHANGED <<Input, Share>>
<1>0. TypesOK /\ TypesOK' /\ "sender" \in Parties /\ "receiver" \in Parties
  BY TypesStay DEF Parties, PcgInv
<1> USE DEF PcgInv
<1>1. ASSUME NEW p \in Parties, init(p) \/ clear(p) \/ finalize(p) PROVE UNCHANGED <<Input, Share>>
  <2>1. UNCHANGED <<params, seed, samples>>
    BY <1>1 DEF init, clear, finalize
  <2>2. ~At(p, "expanded") /\ stage'[p] # "expanded"
    BY <1>0, <1>1 DEF init, clear, finalize, At, To, TypesOK, OnParties
  <2>3. \A q \in Parties : q # p => UNCHANGED <<stage[q], output[q]>>
    BY <1>0, <1>1 DEF init, clear, finalize, To, TypesOK, OnParties
  <2> QED
    BY <2>1, <2>2, <2>3, IdealStutters
<1>2. ASSUME NEW p \in Parties, expand(p)
      PROVE  (\E q \in Parties : p # q /\ Ideal!Give(p, q)) \/ UNCHANGED <<Input, Share>>
  <2>1. OnTheirOwn
    BY <1>2 DEF expand, Apart, Comparing, Multiplying, At, Parties
  <2>2. CASE stage'[p] = "expanded"
    <3>1. PICK q \in Parties : p # q
      BY DEF Parties
    <3>2. Ideal!Give(p, q)
      BY <1>0, <1>2, <2>1, <2>2, <3>1, IdealGives
    <3> QED
      BY Zenon, <3>1, <3>2
  <2>3. CASE stage'[p] # "expanded"
    <3>1. /\ UNCHANGED <<params, seed, samples>> /\ ~At(p, "expanded")
          /\ \A q \in Parties : q # p => UNCHANGED <<stage[q], output[q]>>
      BY <1>0, <1>2, <2>1, ByExpand DEF At
    <3> QED
      BY <2>3, <3>1, IdealStutters
  <2> QED
    BY <2>2, <2>3
<1>3. CASE PrepareSender
  <2>1. Apart
    BY <1>0, <1>3 DEF PrepareSender, Comparing, Multiplying, OnTheirOwn, At
  <2>2. At("sender", "init") /\ s["sender"] = <<>>
    BY <1>3, <2>1 DEF PrepareSender, Apart, At
  <2>3. s'["sender"] # <<>> /\ stage'["sender"] = "prepared"
    <3>1. s'["sender"] = [i \in Below(params.k) |-> RandomS(i)]
      BY <1>0, <1>3 DEF PrepareSender, TypesOK, OnParties
    <3>2. 0 \in Below(params.k)
      BY <1>0, Numbers DEF Below, TypesOK
    <3>3. stage'["sender"] = "prepared"
      BY <1>0, <1>3 DEF PrepareSender, To, TypesOK, OnParties
    <3> QED
      BY <3>1, <3>2, <3>3
  <2>4. UNCHANGED <<params, seed>> /\ UNCHANGED <<s["receiver"], e["receiver"]>>
        /\ UNCHANGED stage["receiver"]
    BY <1>0, <1>3 DEF PrepareSender, To, TypesOK, OnParties
  <2>5. \A q \in Parties : ~At(q, "expanded") /\ stage'[q] # "expanded"
    BY <2>1, <2>3, <2>4 DEF Apart, At, Parties
  <2>6. \A q \in Parties : q # "sender" => UNCHANGED <<s[q], e[q]>>
    BY <2>4 DEF Parties
  <2>7. Ideal!Choose("sender")
    BY <1>0, <2>2, <2>3, <2>4, <2>5, <2>6, IdealChooses
  <2> QED
    BY Zenon, <1>0, <2>7
<1>4. CASE PrepareReceiver
  <2>1. Apart
    BY <1>0, <1>4 DEF PrepareReceiver, Comparing, Multiplying, OnTheirOwn, At
  <2>2. At("receiver", "init") /\ s["receiver"] = <<>> /\ UNCHANGED <<params, seed>>
    BY <1>4, <2>1 DEF PrepareReceiver, Apart, At
  <2>3. \/ UNCHANGED samples /\ stage'["receiver"] = "failed"
        \/ /\ s'["receiver"] # <<>> /\ stage'["receiver"] = "prepared"
           /\ UNCHANGED <<s["sender"], e["sender"]>>
    <3>1. Apart'
      BY <1>0, <1>4, <2>1, ApartByReceiver
    <3>2. \/ To("receiver", "failed") /\ UNCHANGED samples
          \/ /\ To("receiver", "prepared") /\ UNCHANGED <<s["sender"], e["sender"]>>
      BY <1>0, <1>4 DEF PrepareReceiver, TypesOK, OnParties
    <3>3. To("receiver", "prepared") => stage'["receiver"] = "prepared"
      BY <1>0 DEF To, TypesOK, OnParties
    <3>4. To("receiver", "failed") => stage'["receiver"] = "failed"
      BY <1>0 DEF To, TypesOK, OnParties
    <3>5. stage'["receiver"] = "prepared" => s'["receiver"] # <<>>
      BY <3>1 DEF Apart, ReceiverPrepared
    <3> QED
      BY <3>2, <3>3, <3>4, <3>5
  <2>4. UNCHANGED stage["sender"]
    BY <1>0, <1>4 DEF PrepareReceiver, To, TypesOK, OnParties
  <2>5. \A q \in Parties : ~At(q, "expanded") /\ stage'[q] # "expanded"
    BY <2>1, <2>3, <2>4 DEF Apart, At, Parties
  <2>6. CASE UNCHANGED samples
    BY <2>2, <2>5, <2>6, IdealStutters
  <2>7. CASE s'["receiver"] # <<>> /\ UNCHANGED <<s["sender"], e["sender"]>>
    <3>1. \A q \in Parties : q # "receiver" => UNCHANGED <<s[q], e[q]>>
      BY <2>7 DEF Parties
    <3>2. Ideal!Choose("receiver")
      BY <1>0, <2>2, <2>5, <2>7, <3>1, IdealChooses
    <3> QED
      BY Zenon, <1>0, <3>2
  <2> QED
    BY <2>3, <2>6, <2>7
<1>5. CASE EqualityTest \/ InnerProducts \/ SharePprfs
  <2>1. UNCHANGED <<params, seed, samples>>
    BY <1>5 DEF EqualityTest, InnerProducts, SharePprfs
  <2>2. \A q \in Parties : ~At(q, "expanded") /\ stage'[q] # "expanded"
    BY <1>5 DEF EqualityTest, InnerProducts, SharePprfs, Together, At
  <2> QED
    BY <2>1, <2>2, IdealStutters
<1>6. CASE UNCHANGED vars
  <2>1. UNCHANGED <<params, seed, samples, stage, output>>
    BY <1>6 DEF vars, samples
  <2> QED
    BY <2>1, IdealStutters
<1> HIDE DEF PcgInv
<1>7. \/ \E p \in Parties : init(p) \/ clear(p) \/ finalize(p)
      \/ \E p \in Parties : expand(p)
      \/ PrepareSender \/ PrepareReceiver
      \/ EqualityTest \/ InnerProducts \/ SharePprfs \/ UNCHANGED vars
  BY Zenon DEF Next, Stop
<1> QED
  BY Zenon, <1>1, <1>2, <1>3, <1>4, <1>5, <1>6, <1>7

\* With one seed for both, the two have an ideal oblivious linear evaluation
\* (ImplementsOle): whatever the order of their local steps, the parameters, the
\* matrices and the errors, a party's inputs stay, and what both have expanded are
\* shares of the products of all the inputs.
THEOREM OleImplemented ==
  ASSUME SharedSeed
  PROVE  Spec => ImplementsOle
<1>1. Init => Ideal!Init
  <2> SUFFICES ASSUME Init PROVE Ideal!Init
    OBVIOUS
  <2>1. \A p \in Parties : s[p] = <<>> /\ ~At(p, "expanded")
    BY DEF Init, At
  <2> QED
    BY <2>1 DEF Ideal!Init, Ideal!Nothing
<1>2. PcgInv /\ [Next]_vars => [Ideal!Next]_<<Input, Share>>
  BY Zenon, IdealStep DEF Ideal!Next
<1> QED
  BY <1>1, <1>2, StagesCorrect, PTL DEF Spec, ImplementsOle, Ideal!Spec, Input, Share

\* With one seed for both, run() reports success only when the outputs are
\* correlated (SuccessMeansCorrelated); PcgTwoProcesses.cfg shows that the seed is
\* what it depends on.
THEOREM CorrelatedWithOneSeed ==
  ASSUME SharedSeed
  PROVE  Spec => []SuccessMeansCorrelated
<1>1. PcgInv => SuccessMeansCorrelated
  <2> SUFFICES ASSUME PcgInv, BothExpanded, NEW g \in Below(params.size)
               PROVE  Xor(output["sender"][g], output["receiver"][g]) =
                        And(inputs("sender")[g], inputs("receiver")[g])
    BY DEF SuccessMeansCorrelated, OutputsCorrelated
  <2>1. "sender" \in Parties /\ "receiver" \in Parties
    BY DEF Parties
  <2>2. TypesOK /\ OnTheirOwn /\ BothPrepared /\ seed["sender"] = seed["receiver"]
    BY <2>1 DEF PcgInv, Apart, Comparing, Multiplying, OnTheirOwn, BothExpanded, At, TypesOK
  <2>3. \A p \in Parties : params.size <= params.n
                           /\ output[p][g] = Xor(FinalBit(p, g), ExpandedBit(p, g))
    BY <2>2 DEF OnTheirOwn, Output, BothExpanded
  <2>4. g \in Below(params.n) /\ g \in Below(available)
    BY <2>1, <2>2, <2>3, AvailableIs, Numbers DEF Below, TypesOK
  <2>5. \A p \in Parties : inputs(p)[g] = InputBit(p, g)
    BY <2>2, <2>4, InputsAre
  <2> QED
    BY Zenon, <2>1, <2>2, <2>3, <2>4, <2>5, SharesOfProducts
<1> QED
  BY <1>1, StagesCorrect, PTL

-----------------------------------------------------------------------------
\* The punctured functions.  A tree is deep enough for its domain.
LEMMA DepthIs ==
  ASSUME pprfs \in PprfChoices
  PROVE  /\ pprfs.domainsize \in Nat \ {0} /\ depth \in Nat /\ 2^depth \in Nat \ {0}
         /\ pprfs.domainsize <= 2^depth
         /\ pprfs.kind \in {"PPRF", "BitPPRF"}
         /\ pprfs.kind = "BitPPRF" => depth > 0
         /\ \A i \in Trees : pprfs.points[i] \in 0..(pprfs.domainsize - 1)
         /\ Len(pprfs.points) \in Nat /\ Trees = 1..Len(pprfs.points)
<1>1. /\ pprfs.domainsize \in Nat \ {0} /\ pprfs.kind \in {"PPRF", "BitPPRF"}
      /\ pprfs.kind = "BitPPRF" => pprfs.domainsize > 1
      /\ pprfs.points \in Seq(Nat)
      /\ \A i \in Trees : pprfs.points[i] \in 0..(pprfs.domainsize - 1)
  BY PprfAssumption DEF Trees
<1>2. PICK n \in Nat \ {0} : n = pprfs.domainsize
  BY <1>1
<1>3. depth = BitsFor(n)
  BY <1>2 DEF depth, CeilLog2, BitsFor
<1>4. PICK d : d = depth
  OBVIOUS
<1>5. d \in Nat /\ 2^d >= n
  BY <1>3, <1>4, BitsForIs
<1>6. PICK p \in Nat \ {0} : p = 2^d
  BY <1>5, Powers
<1>7. n > 1 => d > 0
  <2>1. d = 0 => p = 1
    BY <1>6, Powers
  <2> QED
    BY <1>5, <1>6, <2>1
<1>8. Len(pprfs.points) \in Nat /\ Trees = 1..Len(pprfs.points)
  BY <1>1, LenProperties DEF Trees
<1> QED
  BY <1>1, <1>2, <1>4, <1>5, <1>6, <1>7, <1>8

\* Level l of the tree from the level before.
LevelOf(i, T, l) ==
  IF l = 0 THEN [p \in {0} |-> Key(i)]
  ELSE [p \in 0..(2^l - 1) |-> Prng(T[l - 1][p \div 2], p % 2)]

Growing(i, n, T) == T = [l \in 0..n |-> LevelOf(i, T, l)]

LEMMA TreeExists ==
  ASSUME NEW i, NEW n \in Nat
  PROVE  \E T : Growing(i, n, T)
<1> DEFINE S == {m \in 0..n : \E T : Growing(i, m, T)}
<1>1. 0 \in S
  <2>1. PICK T : T = [l \in 0..0 |-> [p \in {0} |-> Key(i)]]
    OBVIOUS
  <2>2. T = [l \in 0..0 |-> LevelOf(i, T, l)]
    BY <2>1 DEF LevelOf
  <2> QED
    BY <2>2 DEF Growing
<1>2. ASSUME NEW m \in 0..(n - 1), m \in S PROVE m + 1 \in S
  <2>1. PICK T : Growing(i, m, T)
    BY <1>2
  <2>2. PICK U : U = [l \in 0..(m + 1) |-> IF l \in 0..m THEN T[l] ELSE LevelOf(i, T, l)]
    OBVIOUS
  <2>3. ASSUME NEW l \in 0..(m + 1) PROVE U[l] = LevelOf(i, U, l)
    <3>1. U[l] = LevelOf(i, T, l)
      BY <2>1, <2>2 DEF Growing
    <3>2. l # 0 => U[l - 1] = T[l - 1]
      <4>1. l # 0 => l - 1 \in 0..m /\ l - 1 \in 0..(m + 1)
        OBVIOUS
      <4> QED
        BY <2>2, <4>1
    <3> QED
      BY <3>1, <3>2 DEF LevelOf
  <2>4. U = [l \in 0..(m + 1) |-> LevelOf(i, U, l)]
    BY <2>2, <2>3
  <2> QED
    BY <2>4 DEF Growing
<1> HIDE DEF S
<1>3. 0..n \subseteq S
  BY Zenon, <1>1, <1>2, IntervalInduction
<1>4. n \in S
  BY <1>3
<1> QED
  BY <1>4 DEF S

LEMMA TreeIs ==
  ASSUME NEW i, depth \in Nat
  PROVE  \A l \in 0..depth : Tree(i)[l] = LevelOf(i, Tree(i), l)
<1>1. PICK T : Growing(i, depth, T)
  BY TreeExists
<1>2. Tree(i) = CHOOSE U : Growing(i, depth, U)
  BY Zenon DEF Tree, Growing, LevelOf
<1>3. Growing(i, depth, Tree(i))
  BY <1>1, <1>2
<1> QED
  BY <1>3 DEF Growing

\* Strings that are different: keys and payloads have one part, outputs of the
\* PRNG have two.
LEMMA DifferentLengths ==
  ASSUME NEW a, NEW v, NEW b
  PROVE  <<a>> # <<v, b>>
<1>1. Len(<<a>>) = 1 /\ Len(<<v, b>>) = 2
  OBVIOUS
<1> QED
  BY <1>1

LEMMA NotHole ==
  /\ \A i \in Nat \ {0} : Key(i) # Hole
  /\ \A v, b : Prng(v, b) # Hole /\ \A i : Prng(v, b) \cap PayloadOf(i) = {}
<1>1. \A i \in Nat \ {0} : <<i>> # <<0>>
  OBVIOUS
<1>2. ASSUME NEW v, NEW b PROVE Prng(v, b) # Hole /\ \A i : Prng(v, b) \cap PayloadOf(i) = {}
  <2>1. \A a : <<a>> # <<v, b>>
    BY DifferentLengths
  <2>2. <<v, b>> \in Prng(v, b) /\ \A z \in Prng(v, b) : z = <<v, b>>
    BY DEF Prng
  <2>3. \A z \in Hole : z = <<0>>
    BY DEF Hole
  <2>4. \A i : \A z \in PayloadOf(i) : \E a : z = <<a>>
    BY DEF PayloadOf
  <2> QED
    BY Zenon, <2>1, <2>2, <2>3, <2>4
<1>3. ASSUME NEW i \in Nat \ {0} PROVE Key(i) # Hole
  <2>1. <<i>> \in Key(i) /\ \A z \in Hole : z = <<0>>
    BY DEF Key, Hole
  <2> QED
    BY <1>1, <2>1
<1> QED
  BY <1>2, <1>3

LEMMA PrngInjective ==
  ASSUME NEW v, NEW b, NEW w, NEW c, Prng(v, b) \cap Prng(w, c) # {}
  PROVE  v = w /\ b = c
<1>1. <<v, b>> = <<w, c>>
  BY DEF Prng
<1> QED
  BY <1>1

\* A node is found again from its side and its parent.
LEMMA ParentAndSide ==
  ASSUME NEW p \in Nat, NEW q \in Nat, p \div 2 = q \div 2, p % 2 = q % 2
  PROVE  p = q
OBVIOUS

LEMMA ParentIn ==
  ASSUME NEW l \in Nat \ {0}, NEW p \in 0..(2^l - 1)
  PROVE  /\ p \in Nat /\ p \div 2 \in 0..(2^(l - 1) - 1) /\ p % 2 \in {0, 1}
         /\ p = 2 * (p \div 2) + (p % 2)
<1>1. PICK a, b \in Nat \ {0} : a = 2^l /\ b = 2^(l - 1) /\ a = 2 * b
  <2>1. l - 1 \in Nat /\ (l - 1) + 1 = l
    OBVIOUS
  <2> QED
    BY <2>1, Powers
<1> QED
  BY <1>1

\* The nodes of a level are there, and different from each other.
NodesOf(T, l) ==
  /\ DOMAIN T[l] = 0..(2^l - 1)
  /\ \A p \in 0..(2^l - 1) : T[l][p] # Hole
  /\ \A p, q \in 0..(2^l - 1) : T[l][p] = T[l][q] => p = q

ChildrenOf(T, l) ==
  T[l] = [p \in 0..(2^l - 1) |-> Prng(T[l - 1][p \div 2], p % 2)]

LEMMA TreeLevels ==
  ASSUME depth \in Nat, NEW i \in Nat \ {0}
  PROVE  /\ \A l \in 0..depth : NodesOf(Tree(i), l)
         /\ \A l \in 1..depth : ChildrenOf(Tree(i), l)
<1>1. PICK T : T = Tree(i) /\ \A l \in 0..depth : T[l] = LevelOf(i, T, l)
  BY TreeIs
<1>2. ASSUME NEW l \in 1..depth PROVE ChildrenOf(T, l)
  <2>1. l \in 0..depth /\ l # 0
    OBVIOUS
  <2> QED
    BY <1>1, <2>1 DEF LevelOf, ChildrenOf
<1> DEFINE S == {l \in 0..depth : NodesOf(T, l)}
<1>3. 0 \in S
  <2>1. T[0] = [p \in {0} |-> Key(i)]
    <3>1. 0 \in 0..depth
      OBVIOUS
    <3> QED
      BY <1>1, <3>1 DEF LevelOf
  <2>2. 0..(2^0 - 1) = {0}
    BY Powers
  <2>3. Key(i) # Hole
    BY NotHole
  <2> QED
    BY <2>1, <2>2, <2>3 DEF NodesOf
<1>4. ASSUME NEW k \in 0..(depth - 1), k \in S PROVE k + 1 \in S
  <2>1. PICK l \in 1..depth : l = k + 1 /\ l - 1 = k /\ l \in Nat \ {0} /\ l \in 0..depth
    OBVIOUS
  <2>2. ChildrenOf(T, l) /\ NodesOf(T, k)
    BY <1>2, <1>4
  <2>3. \A p \in 0..(2^l - 1) : T[l][p] = Prng(T[k][p \div 2], p % 2)
    BY <2>1, <2>2 DEF ChildrenOf
  <2>4. DOMAIN T[l] = 0..(2^l - 1)
    BY <2>2 DEF ChildrenOf
  <2>5. \A p \in 0..(2^l - 1) : T[l][p] # Hole
    BY <2>3, NotHole
  <2>6. ASSUME NEW p \in 0..(2^l - 1), NEW q \in 0..(2^l - 1), T[l][p] = T[l][q] PROVE p = q
    <3>1. /\ p \in Nat /\ p \div 2 \in 0..(2^k - 1)
          /\ q \in Nat /\ q \div 2 \in 0..(2^k - 1)
      BY <2>1, ParentIn
    <3>2. T[k][p \div 2] = T[k][q \div 2] /\ p % 2 = q % 2
      <4>1. Prng(T[k][p \div 2], p % 2) = Prng(T[k][q \div 2], q % 2)
        BY <2>3, <2>6
      <4>2. Prng(T[k][p \div 2], p % 2) # {}
        BY DEF Prng
      <4> QED
        BY Zenon, <4>1, <4>2, PrngInjective
    <3>3. p \div 2 = q \div 2
      BY <2>2, <3>1, <3>2 DEF NodesOf
    <3> QED
      BY <3>1, <3>2, <3>3, ParentAndSide
  <2>7. NodesOf(T, l)
    BY <2>4, <2>5, <2>6 DEF NodesOf
  <2> QED
    BY <2>1, <2>7
<1>5. 0..depth \subseteq S
  <2> HIDE DEF S
  <2> QED
    BY Zenon, <1>3, <1>4, IntervalInduction
<1> QED
  BY <1>1, <1>2, <1>5

\* The node of level l on the path to x.
Node(x, l) == x \div 2^(depth - l)

LEMMA Halving ==
  ASSUME NEW x \in Nat, NEW b \in Nat \ {0}
  PROVE  x \div (2 * b) = (x \div b) \div 2
<1>1. PICK m, r \in Nat : m = x \div b /\ r = x % b /\ r \in 0..(b - 1) /\ x = m * b + r
  BY Divided
<1>2. PICK k, E \in Nat : k = m \div 2 /\ E = m % 2 /\ E \in {0, 1} /\ m = 2 * k + E
  BY <1>1
<1>3. PICK c \in Nat \ {0} : c = 2 * b
  OBVIOUS
<1>4. x = k * c + (E * b + r) /\ E * b + r \in 0..(c - 1)
  <2>1. m * b = k * (2 * b) + E * b
    BY <1>2
  <2>2. E * b \in {0, b}
    BY <1>2
  <2> QED
    BY <1>1, <1>3, <2>1, <2>2
<1>5. x \div c = k
  BY <1>3, <1>4, DividesAs
<1> QED
  BY <1>1, <1>2, <1>3, <1>5

LEMMA PathUp ==
  ASSUME depth \in Nat, NEW x \in 0..(2^depth - 1)
  PROVE  /\ Node(x, 0) = 0 /\ Node(x, depth) = x
         /\ \A l \in 1..depth : Node(x, l) \div 2 = Node(x, l - 1)
         /\ \A l \in 0..depth : Node(x, l) \in 0..(2^l - 1)
         /\ \A l \in 1..depth : Path(x)[l] = Node(x, l) % 2
<1>1. PICK d \in Nat : d = depth
  OBVIOUS
<1>2. x \in Nat /\ x < 2^d /\ 2^d \in Nat \ {0}
  <2>1. PICK p \in Nat \ {0} : p = 2^d
    BY Powers
  <2> QED
    BY <1>1, <2>1
<1>3. Node(x, 0) = 0
  <2>1. PICK p \in Nat \ {0} : p = 2^d
    BY <1>2
  <2>2. x = 0 * p + x /\ x \in 0..(p - 1)
    BY <1>2, <2>1
  <2>3. x \div p = 0
    BY <1>2, <2>1, <2>2, DividesAs
  <2> QED
    BY <1>1, <2>1, <2>3 DEF Node
<1>4. Node(x, depth) = x
  <2>1. 2^(d - d) = 1
    BY Powers
  <2>2. x \div 1 = x
    BY <1>2
  <2> QED
    BY <1>1, <2>1, <2>2 DEF Node
<1>5. ASSUME NEW l \in 1..depth PROVE Node(x, l) \div 2 = Node(x, l - 1) /\ Node(x, l) \in Nat
  <2>1. PICK E \in Nat : E = d - l /\ E + 1 = d - (l - 1)
    BY <1>1
  <2>2. PICK b \in Nat \ {0} : b = 2^E /\ 2^(E + 1) = 2 * b
    BY Powers
  <2>3. x \div (2 * b) = (x \div b) \div 2
    BY <1>2, Halving
  <2>4. x \div b \in Nat
    BY <1>2
  <2>5. Node(x, l) = x \div b /\ Node(x, l - 1) = x \div (2 * b)
    BY <1>1, <2>1, <2>2 DEF Node
  <2> QED
    BY <2>3, <2>4, <2>5
<1>6. \A l \in 1..depth : Path(x)[l] = Node(x, l) % 2
  BY DEF Path, Node
<1> DEFINE S == {l \in 0..d : Node(x, l) \in 0..(2^l - 1)}
<1>7. 0 \in S
  BY <1>3, Powers
<1>8. ASSUME NEW k \in 0..(d - 1), k \in S PROVE k + 1 \in S
  <2>1. PICK l \in 1..depth : l = k + 1 /\ l - 1 = k /\ k \in Nat /\ l \in 0..d
    BY <1>1
  <2>2. PICK a \in Nat \ {0} : a = 2^k /\ 2^l = 2 * a
    BY <2>1, Powers
  <2>3. PICK m \in Nat : m = Node(x, l)
    BY <1>5, <2>1
  <2>4. m \div 2 \in 0..(a - 1)
    BY <1>5, <1>8, <2>1, <2>2, <2>3
  <2>5. m \in 0..(2 * a - 1)
    BY <2>4
  <2> QED
    BY <2>1, <2>2, <2>3, <2>5
<1>9. 0..d \subseteq S
  <2> HIDE DEF S
  <2> QED
    BY Zenon, <1>7, <1>8, IntervalInduction
<1> QED
  BY <1>1, <1>3, <1>4, <1>5, <1>6, <1>9

-----------------------------------------------------------------------------
\* One term more.
LEMMA XorOverAdd ==
  ASSUME NEW f, NEW X, IsFiniteSet(X), NEW r, r \notin X
  PROVE  XorOver(f, X \cup {r}) = Xor(f[r], XorOver(f, X))
<1>1. IsFiniteSet(X \cup {r})
  BY FS_AddElement
<1>2. ASSUME NEW z PROVE z \in XorOver(f, X \cup {r}) <=> z \in Xor(f[r], XorOver(f, X))
  <2>1. z \in XorOver(f, X \cup {r}) <=> Odd(Where(f, X \cup {r}, z))
    BY <1>1, XorOverIs
  <2>2. z \in XorOver(f, X) <=> Odd(Where(f, X, z))
    BY XorOverIs
  <2>3. z \in Xor(f[r], XorOver(f, X)) <=> (z \in f[r] <=> ~(z \in XorOver(f, X)))
    BY DEF Xor, SymDiff
  <2>4. CASE z \in f[r]
    <3>1. Where(f, X \cup {r}, z) = Where(f, X, z) \cup {r} /\ r \notin Where(f, X, z)
      BY <2>4 DEF Where
    <3>2. Odd(Where(f, X \cup {r}, z)) <=> ~Odd(Where(f, X, z))
      BY <3>1, WhereFinite, OddAdd
    <3> QED
      BY <2>1, <2>2, <2>3, <2>4, <3>2
  <2>5. CASE z \notin f[r]
    <3>1. Where(f, X \cup {r}, z) = Where(f, X, z)
      BY <2>5 DEF Where
    <3> QED
      BY <2>1, <2>2, <2>3, <2>5, <3>1
  <2> QED
    BY <2>4, <2>5
<1> QED
  BY <1>2

LEMMA XorCancels ==
  ASSUME NEW a, NEW b
  PROVE  Xor(Xor(a, b), b) = a /\ Xor(a, b) = Xor(b, a)
BY DEF Xor, SymDiff

\* What g lacks of one side of f is the node r: with the sum of all it is found.
LEMMA SideLess ==
  ASSUME NEW f, NEW g, DOMAIN f = DOMAIN g, IsFiniteSet(DOMAIN f), NEW b,
         NEW r \in DOMAIN f, r % 2 = b, f[r] # Hole, g[r] = Hole,
         \A p \in DOMAIN f : p % 2 = b /\ p # r => g[p] = f[p]
  PROVE  SideXor(f, b) = Xor(f[r], SideXor(g, b))
<1> DEFINE F == {p \in DOMAIN f : p % 2 = b /\ f[p] # Hole}
           G == {p \in DOMAIN g : p % 2 = b /\ g[p] # Hole}
<1>1. F = G \cup {r} /\ r \notin G
  OBVIOUS
<1>2. IsFiniteSet(G)
  <2>1. G \in SUBSET DOMAIN f
    OBVIOUS
  <2> HIDE DEF G
  <2> QED
    BY <2>1, FS_Subset
<1>3. \A p \in G : f[p] = g[p]
  OBVIOUS
<1>4. SideXor(f, b) = XorOver(f, F) /\ SideXor(g, b) = XorOver(g, G)
  BY DEF SideXor
<1> HIDE DEF F, G
<1>5. XorOver(f, F) = Xor(f[r], XorOver(f, G))
  BY <1>1, <1>2, XorOverAdd
<1>6. XorOver(f, G) = XorOver(g, G)
  BY <1>2, <1>3, XorOverSame
<1> QED
  BY <1>4, <1>5, <1>6

\* A level of the tree without the node that is on the path.
Without(nodes, q) == [p \in DOMAIN nodes |-> IF p = q THEN Hole ELSE nodes[p]]

\* The children of the nodes that are there.
Half(nodes, l) ==
  [p \in 0..(2^l - 1) |-> IF nodes[p \div 2] = Hole THEN Hole ELSE Prng(nodes[p \div 2], p % 2)]

\* They are missing just where the path goes.
Halved(T, l, q, N) ==
  /\ DOMAIN N = 0..(2^l - 1)
  /\ \A p \in 0..(2^l - 1) : N[p] = IF p \div 2 = q THEN Hole ELSE T[l][p]

LEMMA HalfOf ==
  ASSUME NEW T, NEW l \in Nat \ {0}, NodesOf(T, l - 1), ChildrenOf(T, l), NEW q
  PROVE  Halved(T, l, q, Half(Without(T[l - 1], q), l))
<1>1. PICK W : W = Without(T[l - 1], q)
  OBVIOUS
<1>2. \A m \in 0..(2^(l - 1) - 1) : W[m] = IF m = q THEN Hole ELSE T[l - 1][m]
  BY <1>1 DEF Without, NodesOf
<1>3. ASSUME NEW p \in 0..(2^l - 1)
      PROVE  Half(W, l)[p] = IF p \div 2 = q THEN Hole ELSE T[l][p]
  <2>1. PICK m : m = p \div 2 /\ m \in 0..(2^(l - 1) - 1)
    BY ParentIn
  <2>2. T[l][p] = Prng(T[l - 1][m], p % 2) /\ T[l - 1][m] # Hole
    BY <2>1 DEF ChildrenOf, NodesOf
  <2>3. Half(W, l)[p] = IF W[m] = Hole THEN Hole ELSE Prng(W[m], p % 2)
    BY <2>1 DEF Half
  <2> QED
    BY <1>2, <2>1, <2>2, <2>3
<1> QED
  BY <1>1, <1>3 DEF Half, Halved

\* One level of expand(): the key of the other side brings back the sibling.
LEMMA GrowIs ==
  ASSUME NEW T, NEW l \in Nat \ {0}, NodesOf(T, l - 1), NodesOf(T, l), ChildrenOf(T, l),
         NEW q \in 0..(2^l - 1), NEW bit, bit = q % 2,
         NEW key, key = SideXor(T[l], 1 - bit)
  PROVE  Grow(Without(T[l - 1], q \div 2), key, bit) = Without(T[l], q)
<1>1. PICK m : m = q \div 2 /\ m \in 0..(2^(l - 1) - 1) /\ bit \in {0, 1} /\ q = 2 * m + bit /\ m \in Nat
  <2>1. /\ q \in Nat /\ q \div 2 \in 0..(2^(l - 1) - 1) /\ q % 2 \in {0, 1}
        /\ q = 2 * (q \div 2) + (q % 2)
    BY ParentIn
  <2>2. q \div 2 \in Nat
    BY <2>1
  <2> QED
    BY <2>1, <2>2
<1>2. PICK W : W = Without(T[l - 1], m)
  OBVIOUS
<1>3. PICK a, b \in Nat \ {0} : a = 2^l /\ b = 2^(l - 1) /\ a = 2 * b
  <2>1. l - 1 \in Nat /\ (l - 1) + 1 = l
    OBVIOUS
  <2> QED
    BY <2>1, Powers
<1>4. DOMAIN W = 0..(b - 1) /\ Cardinality(DOMAIN W) = b
  <2>1. DOMAIN W = 0..(b - 1)
    BY <1>2, <1>3 DEF Without, NodesOf
  <2>2. Cardinality(0..(b - 1)) = b
    BY FS_Interval
  <2> QED
    BY <2>1, <2>2
<1>5. (CHOOSE p \in DOMAIN W : W[p] = Hole) = m
  <2>1. \A p \in 0..(b - 1) : W[p] = IF p = m THEN Hole ELSE T[l - 1][p]
    BY <1>2, <1>3 DEF Without, NodesOf
  <2>2. \A p \in 0..(b - 1) : T[l - 1][p] # Hole
    BY <1>3 DEF NodesOf
  <2>3. m \in DOMAIN W /\ W[m] = Hole /\ \A p \in DOMAIN W : W[p] = Hole => p = m
    BY <1>1, <1>3, <1>4, <2>1, <2>2
  <2> QED
    BY <2>3
<1>6. PICK N : N = Half(W, l)
  OBVIOUS
<1>7. PICK r \in 0..(a - 1) : r = 2 * m + (1 - bit) /\ r \div 2 = m /\ r % 2 = 1 - bit /\ r # q
  BY <1>1, <1>3
<1>8. Grow(W, key, bit) = [N EXCEPT ![r] = Xor(key, SideXor(N, 1 - bit))]
  <2>1. N = [p \in 0..(2 * Cardinality(DOMAIN W) - 1) |->
                 IF W[p \div 2] = Hole THEN Hole ELSE Prng(W[p \div 2], p % 2)]
    BY <1>3, <1>4, <1>6 DEF Half
  <2> QED
    BY <1>5, <1>7, <2>1 DEF Grow
<1>9. DOMAIN N = 0..(a - 1) /\ \A p \in 0..(a - 1) : N[p] = IF p \div 2 = m THEN Hole ELSE T[l][p]
  <2>1. Halved(T, l, m, N)
    BY <1>2, <1>6, HalfOf
  <2> QED
    BY <1>3, <2>1 DEF Halved
<1>10. DOMAIN T[l] = 0..(a - 1) /\ \A p \in 0..(a - 1) : T[l][p] # Hole
  BY <1>3 DEF NodesOf
<1>11. \A p \in 0..(a - 1) : p \div 2 = m => p = q \/ p = r
  BY <1>1, <1>7
<1>12. SideXor(T[l], 1 - bit) = Xor(T[l][r], SideXor(N, 1 - bit))
  <2>1. \A p \in 0..(a - 1) : p % 2 = 1 - bit /\ p # r => N[p] = T[l][p]
    <3>1. q % 2 # 1 - bit
      BY <1>1
    <3> QED
      BY <1>9, <1>11, <3>1
  <2>2. IsFiniteSet(0..(a - 1))
    BY FS_Interval
  <2>3. N[r] = Hole /\ T[l][r] # Hole
    BY <1>7, <1>9, <1>10
  <2>4. PICK f, c : f = T[l] /\ c = 1 - bit
    OBVIOUS
  <2>5. /\ DOMAIN f = DOMAIN N /\ IsFiniteSet(DOMAIN f) /\ r \in DOMAIN f /\ r % 2 = c
        /\ f[r] # Hole /\ N[r] = Hole
    BY <1>7, <1>9, <1>10, <2>2, <2>3, <2>4
  <2>6. \A p \in DOMAIN f : p % 2 = c /\ p # r => N[p] = f[p]
    BY <1>10, <2>1, <2>4
  <2>7. SideXor(f, c) = Xor(f[r], SideXor(N, c))
    BY ONLY <2>5, <2>6, SideLess
  <2> QED
    BY <2>4, <2>7
<1>13. Xor(key, SideXor(N, 1 - bit)) = T[l][r]
  BY <1>12, XorCancels
<1>14. Grow(W, key, bit) = [N EXCEPT ![r] = T[l][r]]
  BY <1>8, <1>13
<1>15. ASSUME NEW p \in 0..(a - 1)
       PROVE  [N EXCEPT ![r] = T[l][r]][p] = IF p = q THEN Hole ELSE T[l][p]
  <2>1. q \div 2 = m /\ q \in 0..(a - 1)
    BY <1>1, <1>3
  <2>2. CASE p = r
    BY <1>7, <1>9, <2>2
  <2>3. CASE p # r
    BY <1>9, <1>11, <2>1, <2>3
  <2> QED
    BY <2>2, <2>3
<1>16. [N EXCEPT ![r] = T[l][r]] = [p \in 0..(a - 1) |-> IF p = q THEN Hole ELSE T[l][p]]
  BY <1>9, <1>15
<1> QED
  BY <1>1, <1>2, <1>10, <1>14, <1>16 DEF Without

\* The levels of expand() from the level before.
BranchOf(i, T, l) ==
  IF l = 0 THEN [p \in {0} |-> Hole]
  ELSE Grow(T[l - 1], keys[i][l], Path(pprfs.points[i])[l])

Branching(i, n, T) == T = [l \in 0..n |-> BranchOf(i, T, l)]

LEMMA BranchesExist ==
  ASSUME NEW i, NEW n \in Nat
  PROVE  \E T : Branching(i, n, T)
<1> DEFINE S == {m \in 0..n : \E T : Branching(i, m, T)}
<1>1. 0 \in S
  <2>1. PICK T : T = [l \in 0..0 |-> [p \in {0} |-> Hole]]
    OBVIOUS
  <2>2. T = [l \in 0..0 |-> BranchOf(i, T, l)]
    BY <2>1 DEF BranchOf
  <2> QED
    BY <2>2 DEF Branching
<1>2. ASSUME NEW m \in 0..(n - 1), m \in S PROVE m + 1 \in S
  <2>1. PICK T : Branching(i, m, T)
    BY <1>2
  <2>2. PICK U : U = [l \in 0..(m + 1) |-> IF l \in 0..m THEN T[l] ELSE BranchOf(i, T, l)]
    OBVIOUS
  <2>3. ASSUME NEW l \in 0..(m + 1) PROVE U[l] = BranchOf(i, U, l)
    <3>1. U[l] = BranchOf(i, T, l)
      BY <2>1, <2>2 DEF Branching
    <3>2. l # 0 => U[l - 1] = T[l - 1]
      <4>1. l # 0 => l - 1 \in 0..m /\ l - 1 \in 0..(m + 1)
        OBVIOUS
      <4> QED
        BY <2>2, <4>1
    <3> QED
      BY <3>1, <3>2 DEF BranchOf
  <2>4. U = [l \in 0..(m + 1) |-> BranchOf(i, U, l)]
    BY <2>2, <2>3
  <2> QED
    BY <2>4 DEF Branching
<1> HIDE DEF S
<1>3. 0..n \subseteq S
  BY Zenon, <1>1, <1>2, IntervalInduction
<1>4. n \in S
  BY <1>3
<1> QED
  BY <1>4 DEF S

LEMMA BranchesIs ==
  ASSUME NEW i, NEW n \in Nat
  PROVE  \E T : Branches(i, n) = T[n] /\ \A l \in 0..n : T[l] = BranchOf(i, T, l)
<1>1. PICK T : Branching(i, n, T)
  BY BranchesExist
<1>2. PICK U : U = CHOOSE V : Branching(i, n, V)
  OBVIOUS
<1>3. Branches(i, n) = U[n]
  BY Zenon, <1>2 DEF Branches, Branching, BranchOf
<1>4. Branching(i, n, U)
  BY <1>1, <1>2
<1> QED
  BY <1>3, <1>4 DEF Branching

\* The keys of the inner levels.
Siblings(i, n) ==
  \A l \in 1..n : keys[i][l] = SideXor(Tree(i)[l], 1 - Path(pprfs.points[i])[l])

\* With them, expand() has the tree but for the nodes on the path.
LEMMA BranchesAre ==
  ASSUME depth \in Nat, NEW i \in Nat \ {0}, NEW x \in 0..(2^depth - 1), x = pprfs.points[i],
         NEW n \in 0..depth, Siblings(i, n)
  PROVE  Branches(i, n) = Without(Tree(i)[n], Node(x, n))
<1>1. PICK R : Branches(i, n) = R[n] /\ \A l \in 0..n : R[l] = BranchOf(i, R, l)
  BY BranchesIs
<1>2. PICK T : T = Tree(i)
  OBVIOUS
<1>3. /\ \A l \in 0..depth : NodesOf(T, l)
      /\ \A l \in 1..depth : ChildrenOf(T, l)
  BY <1>2, TreeLevels
<1>4. /\ Node(x, 0) = 0
      /\ \A l \in 1..depth : Node(x, l) \div 2 = Node(x, l - 1) /\ Path(x)[l] = Node(x, l) % 2
      /\ \A l \in 0..depth : Node(x, l) \in 0..(2^l - 1)
  BY PathUp
<1> DEFINE S == {l \in 0..n : R[l] = Without(T[l], Node(x, l))}
<1>5. 0 \in S
  <2>1. R[0] = [p \in {0} |-> Hole]
    <3>1. 0 \in 0..n
      OBVIOUS
    <3> QED
      BY <1>1, <3>1 DEF BranchOf
  <2>2. DOMAIN T[0] = {0}
    <3>1. NodesOf(T, 0)
      BY <1>3
    <3>2. 0..(2^0 - 1) = {0}
      BY Powers
    <3> QED
      BY <3>1, <3>2 DEF NodesOf
  <2>3. Without(T[0], 0) = [p \in {0} |-> Hole]
    BY <2>2 DEF Without
  <2> QED
    BY <1>4, <2>1, <2>3
<1>6. ASSUME NEW k \in 0..(n - 1), k \in S PROVE k + 1 \in S
  <2>1. PICK l \in 1..depth : l = k + 1 /\ l - 1 = k /\ l \in Nat \ {0} /\ l \in 0..n /\ l # 0 /\ l \in 1..n
    OBVIOUS
  <2>2. R[l] = Grow(R[k], keys[i][l], Path(x)[l])
    BY <1>1, <2>1 DEF BranchOf
  <2>3. PICK q : q = Node(x, l) /\ q \in 0..(2^l - 1) /\ q \div 2 = Node(x, k) /\ Path(x)[l] = q % 2
    <3>1. l \in 0..depth
      BY <2>1
    <3> QED
      BY <1>4, <2>1, <3>1
  <2>4. keys[i][l] = SideXor(T[l], 1 - Path(x)[l])
    BY <1>2, <2>1 DEF Siblings
  <2>5. R[k] = Without(T[l - 1], q \div 2)
    BY <1>6, <2>1, <2>3
  <2>6. NodesOf(T, l - 1) /\ NodesOf(T, l) /\ ChildrenOf(T, l)
    <3>1. l - 1 \in 0..depth /\ l \in 0..depth
      BY <2>1
    <3> QED
      BY <1>3, <3>1
  <2>7. Grow(Without(T[l - 1], q \div 2), keys[i][l], Path(x)[l]) = Without(T[l], q)
    BY <2>1, <2>3, <2>4, <2>6, GrowIs
  <2>8. R[l] = Without(T[l], Node(x, l))
    BY <2>2, <2>3, <2>5, <2>7
  <2> QED
    BY <2>1, <2>8
<1>7. 0..n \subseteq S
  <2>1. n \in Nat
    OBVIOUS
  <2> HIDE DEF S
  <2> QED
    BY Zenon, <1>5, <1>6, <2>1, IntervalInduction
<1> QED
  BY <1>1, <1>2, <1>7

-----------------------------------------------------------------------------
\* The keys that the receiver of the i-th function needs.
LastKeyOfPprf(i) ==
  LET x == pprfs.points[i]
  IN  keys[i][depth + 1] = Xor(SideXor(Leafs(Tree(i)[depth]), x % 2), PayloadOf(i))

LastKeyOfBitPprf(i) ==
  LET x == pprfs.points[i]
  IN  /\ keys[i][depth][(x % 2) + 1] = Xor(SideXor(Tree(i)[depth], x % 2), PayloadOf(i))
      /\ keys[i][depth][(1 - (x % 2)) + 1] = SideXor(Tree(i)[depth], 1 - (x % 2))

HasKeys(i) ==
  IF pprfs.kind = "PPRF" THEN Siblings(i, depth) /\ LastKeyOfPprf(i)
  ELSE Siblings(i, depth - 1) /\ LastKeyOfBitPprf(i)

\* The image of the sender, but for the point.
PuncturedAs(i, f) ==
  \A y \in 0..(pprfs.domainsize - 1) :
    f[y] = IF y = pprfs.points[i] THEN Xor(SenderImage(i)[y], PayloadOf(i)) ELSE SenderImage(i)[y]

\* Two that add up to what a third one masks.
LEMMA Unmasked ==
  ASSUME NEW a, NEW Y, NEW v
  PROVE  Xor(Xor(Xor(a, Y), v), Y) = Xor(a, v)
BY DEF Xor, SymDiff

LEMMA PprfExpands ==
  ASSUME pprfs \in PprfChoices, NEW i \in Trees, pprfs.kind = "PPRF", HasKeys(i)
  PROVE  PuncturedAs(i, ExpandedPprf(i))
<1>1. PICK n \in Nat \ {0}, d \in Nat, x \in Nat :
        /\ n = pprfs.domainsize /\ d = depth /\ x = pprfs.points[i] /\ x < n
        /\ 2^d \in Nat /\ n <= 2^d /\ x \in 0..(2^d - 1) /\ i \in Nat \ {0}
  <2>1. /\ pprfs.domainsize \in Nat \ {0} /\ depth \in Nat /\ 2^depth \in Nat \ {0}
        /\ pprfs.domainsize <= 2^depth /\ pprfs.points[i] \in 0..(pprfs.domainsize - 1)
        /\ i \in Nat \ {0}
    BY DepthIs
  <2>2. PICK a, b \in Nat : a = pprfs.domainsize /\ b = 2^depth
    BY <2>1
  <2> QED
    BY <2>1, <2>2
<1>2. PICK T : T = Tree(i)[d] /\ DOMAIN T = 0..(2^d - 1) /\ \A p \in 0..(2^d - 1) : T[p] # Hole
  <2>1. NodesOf(Tree(i), d)
    BY <1>1, TreeLevels
  <2> QED
    BY <2>1 DEF NodesOf
<1>3. PICK R : R = Branches(i, depth) /\ R = Without(T, x)
  <2>1. Siblings(i, depth)
    BY DEF HasKeys
  <2>2. Branches(i, depth) = Without(Tree(i)[depth], Node(x, depth))
    BY <1>1, <2>1, BranchesAre
  <2>3. Node(x, depth) = x
    BY <1>1, PathUp
  <2> QED
    BY <1>1, <1>2, <2>2, <2>3
<1>4. PICK f, g : f = Leafs(T) /\ g = Leafs(R)
  OBVIOUS
<1>5. /\ DOMAIN f = 0..(2^d - 1)
      /\ \A p \in 0..(2^d - 1) : f[p] = IF p >= n THEN Hole ELSE Prng(T[p], 2)
  BY <1>1, <1>2, <1>4 DEF Leafs
<1>6. /\ DOMAIN g = 0..(2^d - 1)
      /\ \A p \in 0..(2^d - 1) : g[p] = IF p = x \/ p >= n THEN Hole ELSE Prng(T[p], 2)
  <2>1. DOMAIN R = 0..(2^d - 1) /\ \A p \in 0..(2^d - 1) : R[p] = IF p = x THEN Hole ELSE T[p]
    BY <1>2, <1>3 DEF Without
  <2> QED
    BY <1>1, <1>2, <1>4, <2>1 DEF Leafs
<1>7. f[x] # Hole /\ g[x] = Hole /\ ~(x >= n)
  <2>1. ~(x >= n)
    BY <1>1
  <2> QED
    BY <1>1, <1>5, <1>6, <2>1, NotHole
<1>8. PICK c : c = x % 2
  OBVIOUS
<1>9. SideXor(f, c) = Xor(f[x], SideXor(g, c))
  <2>1. \A p \in DOMAIN f : p # x => g[p] = f[p]
    BY <1>5, <1>6
  <2>2. IsFiniteSet(DOMAIN f) /\ x \in DOMAIN f /\ DOMAIN f = DOMAIN g
    <3>1. IsFiniteSet(0..(2^d - 1))
      BY <1>1, FS_Interval
    <3> QED
      BY <1>1, <1>5, <1>6, <3>1
  <2> QED
    BY <1>7, <1>8, <2>1, <2>2, SideLess
<1>10. Xor(keys[i][depth + 1], SideXor(g, c)) = Xor(f[x], PayloadOf(i))
  <2>1. keys[i][depth + 1] = Xor(SideXor(f, c), PayloadOf(i))
    BY <1>1, <1>2, <1>4, <1>8 DEF HasKeys, LastKeyOfPprf
  <2> QED
    BY <1>9, <2>1, Unmasked
<1>11. ExpandedPprf(i) = InDomain([g EXCEPT ![x] = Xor(f[x], PayloadOf(i))], n)
  BY <1>1, <1>3, <1>4, <1>8, <1>10 DEF ExpandedPprf
<1>12. SenderImage(i) = InDomain(f, n)
  BY <1>1, <1>2, <1>4 DEF SenderImage
<1>13. ASSUME NEW y \in 0..(n - 1)
       PROVE  ExpandedPprf(i)[y] = IF y = x THEN Xor(f[y], PayloadOf(i)) ELSE f[y]
  <2>1. y \in 0..(2^d - 1)
    BY <1>1
  <2>2. ExpandedPprf(i)[y] = [g EXCEPT ![x] = Xor(f[x], PayloadOf(i))][y]
    BY <1>11 DEF InDomain
  <2>3. y # x => g[y] = f[y]
    BY <1>5, <1>6, <2>1
  <2> QED
    BY <1>6, <2>1, <2>2, <2>3
<1>14. \A y \in 0..(n - 1) : SenderImage(i)[y] = f[y]
  BY <1>12 DEF InDomain
<1> QED
  BY <1>1, <1>13, <1>14 DEF PuncturedAs
\* The other child of a node's parent.
OtherChild(x) == IF x % 2 = 0 THEN x + 1 ELSE x - 1

LEMMA OtherChildIs ==
  ASSUME NEW h \in Nat, NEW x \in 0..(2 * h - 1)
  PROVE  /\ OtherChild(x) \in 0..(2 * h - 1) /\ OtherChild(x) \div 2 = x \div 2
         /\ OtherChild(x) % 2 = 1 - (x % 2) /\ OtherChild(x) # x /\ x % 2 \in {0, 1}
BY DEF OtherChild

\* Of a level that is missing the two children of q, the side b lacks one node.
LEMMA HalvedSide ==
  ASSUME NEW T, NEW l \in Nat, 2^l \in Nat, NodesOf(T, l), NEW N, NEW q, Halved(T, l, q, N),
         NEW r \in 0..(2^l - 1), r \div 2 = q
  PROVE  SideXor(T[l], r % 2) = Xor(T[l][r], SideXor(N, r % 2))
<1>1. PICK f, b : f = T[l] /\ b = r % 2
  OBVIOUS
<1>2. DOMAIN f = 0..(2^l - 1) /\ DOMAIN N = 0..(2^l - 1) /\ f[r] # Hole
  BY <1>1 DEF NodesOf, Halved
<1>3. IsFiniteSet(DOMAIN f)
  <2>1. IsFiniteSet(0..(2^l - 1))
    BY FS_Interval
  <2> QED
    BY <1>2, <2>1
<1>4. N[r] = Hole
  BY DEF Halved
<1>5. ASSUME NEW p \in DOMAIN f, p % 2 = b, p # r
      PROVE  N[p] = f[p]
  <2>1. p \in Nat /\ r \in Nat /\ p \in 0..(2^l - 1)
    BY <1>2
  <2>2. p \div 2 # q
    BY <1>1, <1>5, <2>1, ParentAndSide
  <2> QED
    BY <1>1, <2>1, <2>2 DEF Halved
<1>6. SideXor(f, b) = Xor(f[r], SideXor(N, b))
  <2>1. DOMAIN f = DOMAIN N /\ r \in DOMAIN f
    BY <1>2
  <2> QED
    BY <1>1, <1>2, <1>3, <1>4, <1>5, <2>1, SideLess
<1> QED
  BY <1>1, <1>6

LEMMA BitPprfExpands ==
  ASSUME pprfs \in PprfChoices, NEW i \in Trees, pprfs.kind = "BitPPRF", HasKeys(i)
  PROVE  PuncturedAs(i, ExpandedBitPprf(i))
<1>1. PICK n \in Nat \ {0}, d \in Nat \ {0}, x \in Nat :
        /\ n = pprfs.domainsize /\ d = depth /\ x = pprfs.points[i] /\ x < n
        /\ 2^d \in Nat /\ n <= 2^d /\ x \in 0..(2^d - 1) /\ i \in Nat \ {0}
  <2>1. /\ pprfs.domainsize \in Nat \ {0} /\ depth \in Nat /\ 2^depth \in Nat \ {0}
        /\ pprfs.domainsize <= 2^depth /\ pprfs.points[i] \in 0..(pprfs.domainsize - 1)
        /\ i \in Nat \ {0} /\ depth > 0
    BY DepthIs
  <2>2. PICK a, b \in Nat : a = pprfs.domainsize /\ b = 2^depth
    BY <2>1
  <2> QED
    BY <2>1, <2>2
<1>2. PICK T : /\ T = Tree(i) /\ NodesOf(T, d) /\ NodesOf(T, d - 1) /\ ChildrenOf(T, d)
  BY <1>1, TreeLevels
<1>3. Branches(i, d - 1) = Without(T[d - 1], x \div 2)
  <2>1. Siblings(i, d - 1)
    BY <1>1 DEF HasKeys
  <2>2. depth - 1 \in 0..depth /\ depth \in 1..depth
    BY <1>1
  <2>3. Branches(i, depth - 1) = Without(Tree(i)[depth - 1], Node(x, depth - 1))
    BY <1>1, <2>1, <2>2, BranchesAre
  <2>4. Node(x, depth) = x /\ Node(x, depth) \div 2 = Node(x, depth - 1)
    BY <1>1, <2>2, PathUp
  <2> QED
    BY <1>1, <1>2, <2>3, <2>4
<1>4. PICK N : N = Half(Branches(i, d - 1), d) /\ Halved(T, d, x \div 2, N)
  BY <1>2, <1>3, HalfOf
<1>5. PICK Y : /\ Y = OtherChild(x) /\ Y \in 0..(2^d - 1) /\ Y \div 2 = x \div 2
               /\ Y % 2 = 1 - (x % 2) /\ Y # x /\ x % 2 \in {0, 1}
  <2>1. 2^(d - 1) \in Nat /\ 2^d = 2 * 2^(d - 1)
    BY Powers
  <2> QED
    BY <1>1, <2>1, OtherChildIs
<1>6. SideXor(T[d], x % 2) = Xor(T[d][x], SideXor(N, x % 2))
  BY <1>1, <1>2, <1>4, HalvedSide
<1>7. SideXor(T[d], Y % 2) = Xor(T[d][Y], SideXor(N, Y % 2))
  BY <1>1, <1>2, <1>4, <1>5, HalvedSide
<1>8. /\ keys[i][d][(x % 2) + 1] = Xor(SideXor(T[d], x % 2), PayloadOf(i))
      /\ keys[i][d][(Y % 2) + 1] = SideXor(T[d], Y % 2)
  <2>1. LastKeyOfBitPprf(i)
    BY DEF HasKeys
  <2> QED
    BY <1>1, <1>2, <1>5, <2>1 DEF LastKeyOfBitPprf
<1>9. Xor(keys[i][d][(x % 2) + 1], SideXor(N, x % 2)) = Xor(T[d][x], PayloadOf(i))
  BY <1>6, <1>8, Unmasked
<1>10. Xor(keys[i][d][(Y % 2) + 1], SideXor(N, Y % 2)) = T[d][Y]
  BY <1>7, <1>8, XorCancels
<1>11. ExpandedBitPprf(i) = [N EXCEPT ![Y] = T[d][Y], ![x] = Xor(T[d][x], PayloadOf(i))]
  <2>1. ExpandedBitPprf(i)
          = [N EXCEPT ![Y] = Xor(keys[i][d][(Y % 2) + 1], SideXor(N, Y % 2)),
                      ![x] = Xor(keys[i][d][(x % 2) + 1], SideXor(N, x % 2))]
    BY <1>1, <1>4, <1>5 DEF ExpandedBitPprf, Half, OtherChild
  <2> QED
    BY <1>9, <1>10, <2>1
<1>12. ASSUME NEW y \in 0..(n - 1)
       PROVE  ExpandedBitPprf(i)[y] = IF y = x THEN Xor(T[d][y], PayloadOf(i)) ELSE T[d][y]
  <2>1. y \in 0..(2^d - 1) /\ DOMAIN N = 0..(2^d - 1)
    BY <1>1, <1>4 DEF Halved
  <2>2. ExpandedBitPprf(i)[y] = IF y = x THEN Xor(T[d][x], PayloadOf(i))
                                ELSE IF y = Y THEN T[d][Y] ELSE N[y]
    BY <1>5, <1>11, <2>1
  <2>3. y # x /\ y # Y => N[y] = T[d][y]
    <3>1. SUFFICES ASSUME y # x, y # Y
                   PROVE  y \div 2 # x \div 2
      BY <1>4, <2>1 DEF Halved
    <3>2. y \in Nat /\ x \in Nat /\ Y \in Nat /\ y % 2 \in {0, 1}
      BY <1>5, <2>1
    <3>3. y % 2 = x % 2 \/ y % 2 = Y % 2
      BY <1>5, <3>2
    <3> QED
      BY <1>5, <3>1, <3>2, <3>3, ParentAndSide
  <2> QED
    BY <2>2, <2>3
<1>13. \A y \in 0..(n - 1) : SenderImage(i)[y] = T[d][y]
  BY <1>1, <1>2 DEF SenderImage, InDomain
<1> QED
  BY <1>1, <1>12, <1>13 DEF PuncturedAs

-----------------------------------------------------------------------------
\* Parts of one length w, one behind the other.
InParts(Q, n, w, Y, t) ==
  /\ t \in Seq(Q) /\ Len(t) = n * w
  /\ \A k \in 1..n : \A p \in 1..w : t[(k - 1) * w + p] = Y[k][p]

LEMMA EqualParts ==
  ASSUME NEW Q, NEW n \in Nat, NEW w \in Nat, NEW Y \in [1..n -> Seq(Q)],
         \A k \in 1..n : Len(Y[k]) = w
  PROVE  InParts(Q, n, w, Y, FlattenSeq(Y))
<1>1. \A k \in 0..n : k * w \in Nat
  BY Stretch
<1>2. PICK F \in [0..n -> Nat] : F = [k \in 0..n |-> k * w]
  BY <1>1
<1>3. RunningTotal(F, [k \in 1..n |-> Len(Y[k])], n)
  <2>1. F[0] = 0
    BY <1>2
  <2>2. ASSUME NEW k \in 1..n PROVE F[k] = F[k - 1] + Len(Y[k])
    <3>1. k \in 0..n /\ k - 1 \in 0..n
      OBVIOUS
    <3>2. F[k] = k * w /\ F[k - 1] = (k - 1) * w /\ Len(Y[k]) = w
      BY <1>2, <3>1
    <3>3. k * w = (k - 1) * w + w
      OBVIOUS
    <3> QED
      BY <3>2, <3>3
  <2> QED
    BY <2>1, <2>2 DEF RunningTotal
<1>4. Laid(Q, Y, F, n, FlattenSeq(Y))
  BY <1>2, <1>3, FlattenParts
<1>5. F[n] = n * w
  BY <1>2
<1>6. ASSUME NEW k \in 1..n, NEW p \in 1..w
      PROVE  FlattenSeq(Y)[(k - 1) * w + p] = Y[k][p]
  <2>1. k - 1 \in 0..n /\ p \in 1..Len(Y[k])
    OBVIOUS
  <2>2. F[k - 1] = (k - 1) * w
    BY <1>2, <2>1
  <2>3. FlattenSeq(Y)[F[k - 1] + p] = Y[k][p]
    BY <1>4, <2>1 DEF Laid
  <2> QED
    BY <2>2, <2>3
<1> QED
  BY <1>4, <1>5, <1>6 DEF InParts, Laid

\* The places of part k.
LEMMA PartPlaces ==
  ASSUME NEW n \in Nat, NEW w \in Nat, NEW k \in 1..n
  PROVE  /\ (k - 1) * w \in Nat /\ n * w \in Nat /\ k * w = (k - 1) * w + w /\ k * w <= n * w
         /\ \A p \in 1..w : (k - 1) * w + p \in 1..(n * w)
<1>1. k - 1 \in Nat /\ k - 1 < n
  OBVIOUS
<1>2. PICK a \in Nat, b \in Nat : a = (k - 1) * w /\ b = n * w /\ a + w <= b
  BY <1>1, Stretch
<1>3. k * w = (k - 1) * w + w
  OBVIOUS
<1>4. \A p \in 1..w : a + p \in 1..b
  BY <1>2
<1> QED
  BY <1>2, <1>3, <1>4

\* What the choices select of a pair for each, in the parts.
Selected(w, m, c, y) == Len(y) = w /\ y = [p \in 1..w |-> m[p][c[p] + 1]]

LEMMA SelectedParts ==
  ASSUME NEW Q, NEW R, NEW n \in Nat, NEW w \in Nat, NEW Y, NEW c, NEW t, NEW u,
         InParts(Q, n, w, Y, t), InParts(R, n, w, c, u), NEW all,
         all = [q \in DOMAIN t |-> t[q][u[q] + 1]], NEW k \in 1..n
  PROVE  Selected(w, Y[k], c[k], SubSeq(all, (k - 1) * w + 1, k * w))
<1>1. DOMAIN t = 1..(n * w)
  BY LenProperties DEF InParts
<1> DEFINE C == {all[q] : q \in 1..(n * w)}
<1>2. all \in Seq(C) /\ Len(all) = n * w
  <2>1. n * w \in Nat
    BY PartPlaces
  <2>2. all \in [1..(n * w) -> C]
    BY <1>1
  <2> HIDE DEF C
  <2> QED
    BY <2>1, <2>2
<1> HIDE DEF C
<1>3. PICK a \in Nat : /\ a = (k - 1) * w /\ k * w = a + w /\ a + w <= n * w /\ n * w \in Nat
                       /\ \A p \in 1..w : a + p \in 1..(n * w)
  BY PartPlaces
<1>4. PICK y : y = SubSeq(all, a + 1, a + w)
  OBVIOUS
<1>5. y \in Seq(C) /\ Len(y) = w /\ \A p \in 1..w : y[p] = all[a + p]
  <2>1. (a + w) - (a + 1) + 1 = w /\ \A p \in 1..w : (a + 1) + p - 1 = a + p
    BY <1>3
  <2>2. a + 1 \in 1..(Len(all) + 1) /\ a + w \in 0..Len(all) /\ (~(a + 1 <= a + w) => w = 0)
    BY <1>2, <1>3
  <2>3. /\ SubSeq(all, a + 1, a + w) \in Seq(C)
        /\ Len(SubSeq(all, a + 1, a + w)) = IF a + 1 <= a + w THEN (a + w) - (a + 1) + 1 ELSE 0
        /\ \A p \in 1..((a + w) - (a + 1) + 1) : SubSeq(all, a + 1, a + w)[p] = all[(a + 1) + p - 1]
    BY <1>2, <2>2, SubSeqProperties
  <2> QED
    BY <1>4, <2>1, <2>2, <2>3
<1>6. ASSUME NEW p \in 1..w PROVE y[p] = Y[k][p][c[k][p] + 1]
  <2>1. y[p] = t[a + p][u[a + p] + 1]
    BY <1>1, <1>3, <1>5
  <2>2. t[a + p] = Y[k][p] /\ u[a + p] = c[k][p]
    BY <1>3 DEF InParts
  <2> QED
    BY <2>1, <2>2
<1>7. y = [p \in 1..w |-> Y[k][p][c[k][p] + 1]]
  <2>1. DOMAIN y = 1..w
    BY <1>5, LenProperties
  <2>2. y = [p \in DOMAIN y |-> y[p]]
    BY <1>5
  <2> QED
    BY <1>6, <2>1, <2>2
<1> QED
  BY <1>3, <1>4, <1>5, <1>7 DEF Selected

-----------------------------------------------------------------------------
\* One more element at the end.
Listed(n, f) == f = [l \in 1..n |-> f[l]]
OneMore(n, f, E, g) ==
  Len(g) = n + 1 /\ g = [l \in 1..(n + 1) |-> IF l = n + 1 THEN E ELSE f[l]]

LEMMA Added ==
  ASSUME NEW n \in Nat, NEW f, Listed(n, f), NEW E
  PROVE  OneMore(n, f, E, Behind(f, <<E>>))
<1> PICK Q : Q = {f[l] : l \in 1..n} \cup {E}
  OBVIOUS
<1>1. f \in [1..n -> Q]
  <2>1. \A l \in 1..n : f[l] \in Q
    OBVIOUS
  <2> QED
    BY <2>1 DEF Listed
<1>2. IsOver(Q, f) /\ Len(f) = n
  BY <1>1 DEF IsOver
<1>3. IsOver(Q, <<E>>) /\ Len(<<E>>) = 1 /\ <<E>>[1] = E
  BY DEF IsOver
<1>4. PICK g : g = Behind(f, <<E>>) /\ StandsBehind(Q, f, <<E>>, g)
  BY <1>2, <1>3, Continued
<1>5. /\ g \in Seq(Q) /\ Len(g) = n + 1
      /\ \A l \in 1..n : g[l] = f[l]
      /\ g[n + 1] = E
  BY <1>2, <1>3, <1>4 DEF StandsBehind
<1>6. g = [l \in 1..(n + 1) |-> IF l = n + 1 THEN E ELSE f[l]]
  <2>1. DOMAIN g = 1..(n + 1)
    BY <1>5, LenProperties
  <2>2. g = [l \in DOMAIN g |-> g[l]]
    BY <1>5
  <2>3. \A l \in 1..(n + 1) : g[l] = IF l = n + 1 THEN E ELSE f[l]
    BY <1>5
  <2> QED
    BY <2>1, <2>2, <2>3
<1> QED
  BY <1>4, <1>5, <1>6 DEF OneMore

\* The levels that have a message of their own.
Inner == IF pprfs.kind = "PPRF" THEN depth ELSE depth - 1

SidePair(i, l) == <<SideXor(Tree(i)[l], 0), SideXor(Tree(i)[l], 1)>>

LastOfPprf(i) ==
  <<Xor(SideXor(Leafs(Tree(i)[depth]), 0), PayloadOf(i)),
    Xor(SideXor(Leafs(Tree(i)[depth]), 1), PayloadOf(i))>>

LastOfBitPprf(i) ==
  << <<SideXor(Tree(i)[depth], 0), Xor(SideXor(Tree(i)[depth], 1), PayloadOf(i))>>,
     <<Xor(SideXor(Tree(i)[depth], 0), PayloadOf(i)), SideXor(Tree(i)[depth], 1)>> >>

LastPair(i) == IF pprfs.kind = "PPRF" THEN LastOfPprf(i) ELSE LastOfBitPprf(i)

PairOf(i, l) == IF l = PerTree THEN LastPair(i) ELSE SidePair(i, l)

LEMMA InnerIs ==
  ASSUME pprfs \in PprfChoices, depth > 0
  PROVE  /\ depth \in Nat \ {0} /\ Inner \in Nat /\ PerTree = Inner + 1 /\ Inner \in 0..depth
         /\ pprfs.kind = "PPRF" => Inner = depth
         /\ pprfs.kind = "BitPPRF" => PerTree = depth /\ pprfs.kind # "PPRF"
<1>1. depth \in Nat
  BY DepthIs
<1> QED
  BY <1>1 DEF Inner, PerTree

LEMMA MessagesAre ==
  ASSUME pprfs \in PprfChoices, depth > 0, NEW i
  PROVE  Len(Messages(i)) = PerTree /\ Messages(i) = [l \in 1..PerTree |-> PairOf(i, l)]
<1>1. PICK f : f = [l \in 1..Inner |-> SidePair(i, l)]
  OBVIOUS
<1>2. Messages(i) = Behind(f, <<LastPair(i)>>)
  <2>1. CASE pprfs.kind = "PPRF"
    <3>1. Messages(i) = [l \in 1..depth |-> SidePair(i, l)] \o <<LastOfPprf(i)>>
      <4>1. PICK leafs : leafs = [b \in 0..1 |-> SideXor(Leafs(Tree(i)[depth]), b)]
        OBVIOUS
      <4>2. Messages(i) = [l \in 1..depth |-> SidePair(i, l)] \o
              << <<Xor(leafs[0], PayloadOf(i)), Xor(leafs[1], PayloadOf(i))>> >>
        BY Zenon, <2>1, <4>1 DEF Messages, SidePair
      <4>3. /\ leafs[0] = SideXor(Leafs(Tree(i)[depth]), 0)
            /\ leafs[1] = SideXor(Leafs(Tree(i)[depth]), 1)
        BY <4>1
      <4> QED
        BY <4>2, <4>3 DEF LastOfPprf
    <3> QED
      BY <1>1, <2>1, <3>1 DEF Behind, LastPair, Inner
  <2>2. CASE pprfs.kind # "PPRF"
    <3>1. Messages(i) = [l \in 1..(depth - 1) |-> SidePair(i, l)] \o <<LastOfBitPprf(i)>>
      BY <2>2 DEF Messages, SidePair, LastOfBitPprf
    <3> QED
      BY <1>1, <2>2, <3>1 DEF Behind, LastPair, Inner
  <2> QED
    BY <2>1, <2>2
<1>3. Inner \in Nat /\ PerTree = Inner + 1
  BY InnerIs
<1>4. PICK g : /\ g = Messages(i) /\ Len(g) = PerTree
               /\ g = [l \in 1..PerTree |-> IF l = PerTree THEN LastPair(i) ELSE f[l]]
  <2>1. Listed(Inner, f)
    BY <1>1 DEF Listed
  <2>2. OneMore(Inner, f, LastPair(i), Messages(i))
    BY <1>2, <1>3, <2>1, Added
  <2> QED
    BY <1>3, <2>2 DEF OneMore
<1>5. ASSUME NEW l \in 1..PerTree
      PROVE  (IF l = PerTree THEN LastPair(i) ELSE f[l]) = PairOf(i, l)
  BY <1>1, <1>3 DEF PairOf
<1> QED
  BY <1>4, <1>5

\* The receiver's bits.
ChoiceOf(x, l) == IF l = depth + 1 THEN Path(x)[depth] ELSE 1 - Path(x)[l]

LEMMA ChoicesAre ==
  ASSUME pprfs \in PprfChoices, depth > 0, NEW x \in Nat
  PROVE  Len(OTChoices(x)) = PerTree /\ OTChoices(x) = [l \in 1..PerTree |-> ChoiceOf(x, l)]
<1>0. PICK d \in Nat \ {0} : d = depth
  BY InnerIs
<1>1. PICK f : f = [l \in 1..d |-> 1 - Path(x)[l]]
  OBVIOUS
<1>2. CASE pprfs.kind = "PPRF"
  <2>1. Last(f) = f[d]
    <3>1. f \in Seq({f[l] : l \in 1..d}) /\ Len(f) = d
      BY <1>1
    <3> QED
      BY <3>1 DEF Last
  <2>2. OTChoices(x) = Behind(f, <<1 - Last(f)>>)
    BY <1>0, <1>1, <1>2 DEF OTChoices, Behind
  <2>3. PICK g : /\ g = OTChoices(x) /\ Len(g) = d + 1
                 /\ g = [l \in 1..(d + 1) |-> IF l = d + 1 THEN 1 - f[d] ELSE f[l]]
    <3>1. Listed(d, f)
      BY <1>1 DEF Listed
    <3>2. OneMore(d, f, 1 - f[d], OTChoices(x))
      BY <2>1, <2>2, <3>1, Added
    <3> QED
      BY <3>2 DEF OneMore
  <2>4. 1 - f[d] = Path(x)[d]
    <3>1. Path(x)[d] \in {0, 1}
      <4>1. x \div 2^(d - d) \in Nat
        BY <1>0, Powers, Divided
      <4>2. Path(x)[d] = (x \div 2^(d - d)) % 2
        BY <1>0 DEF Path
      <4> QED
        BY <4>1, <4>2
    <3>2. f[d] = 1 - Path(x)[d]
      BY <1>1
    <3> QED
      BY <3>1, <3>2
  <2>5. ASSUME NEW l \in 1..(d + 1)
        PROVE  (IF l = d + 1 THEN 1 - f[d] ELSE f[l]) = ChoiceOf(x, l)
    BY <1>0, <1>1, <2>4 DEF ChoiceOf
  <2>6. PerTree = d + 1
    BY <1>0, <1>2 DEF PerTree
  <2> QED
    BY <2>3, <2>5, <2>6
<1>3. CASE pprfs.kind # "PPRF"
  <2>1. OTChoices(x) = f /\ PerTree = d /\ Len(f) = d
    BY <1>0, <1>1, <1>3 DEF OTChoices, PerTree
  <2>2. \A l \in 1..d : f[l] = ChoiceOf(x, l)
    BY <1>0, <1>1 DEF ChoiceOf
  <2> QED
    BY <1>1, <2>1, <2>2
<1> QED
  BY <1>2, <1>3
\* What the receiver of the i-th function chooses.
Chosen(i, l) == PairOf(i, l)[ChoiceOf(pprfs.points[i], l) + 1]
ExactKeys(i, k) == Len(k) = PerTree /\ k = [l \in 1..PerTree |-> Chosen(i, l)]

LEMMA ListIsSeq ==
  ASSUME NEW w \in Nat, NEW f, Listed(w, f), NEW Q, \A p \in 1..w : f[p] \in Q
  PROVE  f \in Seq(Q)
<1>1. f \in [1..w -> Q]
  BY DEF Listed
<1> QED
  BY <1>1

LEMMA KeysGiven ==
  ASSUME pprfs \in PprfChoices, ShareKeys
  PROVE  keys' = [i \in Trees |-> keys'[i]] /\ \A i \in Trees : ExactKeys(i, keys'[i])
<1>1. depth > 0
  BY DEF ShareKeys
<1>2. PICK n \in Nat, w \in Nat : n = Len(pprfs.points) /\ Trees = 1..n /\ w = PerTree
  BY <1>1, DepthIs, InnerIs
<1>3. \A i \in 1..n : pprfs.points[i] \in Nat
  BY <1>2, DepthIs
<1>4. PICK Q, R : /\ \A i \in 1..n, l \in 1..w : PairOf(i, l) \in Q
                  /\ \A i \in 1..n, l \in 1..w : ChoiceOf(pprfs.points[i], l) \in R
  <2> DEFINE Q == {PairOf(j[1], j[2]) : j \in (1..n) \X (1..w)}
             R == {ChoiceOf(pprfs.points[j[1]], j[2]) : j \in (1..n) \X (1..w)}
  <2>1. ASSUME NEW i \in 1..n, NEW l \in 1..w
        PROVE  PairOf(i, l) \in Q /\ ChoiceOf(pprfs.points[i], l) \in R
    <3>1. <<i, l>> \in (1..n) \X (1..w) /\ <<i, l>>[1] = i /\ <<i, l>>[2] = l
      OBVIOUS
    <3> QED
      BY <3>1
  <2> HIDE DEF Q, R
  <2> QED
    BY <2>1
<1>5. PICK Y : Y = [i \in 1..n |-> Messages(i)]
  OBVIOUS
<1>6. PICK c : c = [i \in 1..n |-> OTChoices(pprfs.points[i])]
  OBVIOUS
<1>7. ASSUME NEW i \in 1..n
      PROVE  Y[i] \in Seq(Q) /\ Len(Y[i]) = w /\ \A l \in 1..w : Y[i][l] = PairOf(i, l)
  <2>1. Len(Y[i]) = w /\ Y[i] = [l \in 1..w |-> PairOf(i, l)]
    BY <1>1, <1>2, <1>5, MessagesAre
  <2>2. \A l \in 1..w : Y[i][l] = PairOf(i, l) /\ Y[i][l] \in Q
    BY <1>4, <2>1
  <2>3. Listed(w, Y[i])
    BY <2>1 DEF Listed
  <2> QED
    BY <2>1, <2>2, <2>3, ListIsSeq
<1>8. ASSUME NEW i \in 1..n
      PROVE  /\ c[i] \in Seq(R) /\ Len(c[i]) = w
             /\ \A l \in 1..w : c[i][l] = ChoiceOf(pprfs.points[i], l)
  <2>1. Len(c[i]) = w /\ c[i] = [l \in 1..w |-> ChoiceOf(pprfs.points[i], l)]
    BY <1>1, <1>2, <1>3, <1>6, ChoicesAre
  <2>2. \A l \in 1..w : c[i][l] = ChoiceOf(pprfs.points[i], l) /\ c[i][l] \in R
    BY <1>4, <2>1
  <2>3. Listed(w, c[i])
    BY <2>1 DEF Listed
  <2> QED
    BY <2>1, <2>2, <2>3, ListIsSeq
<1>9. PICK t : t = FlattenSeq(Y) /\ InParts(Q, n, w, Y, t)
  <2>1. Y \in [1..n -> Seq(Q)]
    BY <1>5, <1>7
  <2> QED
    BY <1>7, <2>1, EqualParts
<1>10. PICK u : u = FlattenSeq(c) /\ InParts(R, n, w, c, u)
  <2>1. c \in [1..n -> Seq(R)]
    BY <1>6, <1>8
  <2> QED
    BY <1>8, <2>1, EqualParts
<1>11. PICK all : all = [q \in DOMAIN t |-> t[q][u[q] + 1]]
  OBVIOUS
<1>12. keys' = [i \in Trees |-> KeysOf(all, i)]
  BY <1>2, <1>5, <1>6, <1>9, <1>10, <1>11 DEF ShareKeys
<1>13. ASSUME NEW i \in 1..n PROVE ExactKeys(i, KeysOf(all, i))
  <2>1. PICK y : y = KeysOf(all, i) /\ Len(y) = w /\ y = [p \in 1..w |-> Y[i][p][c[i][p] + 1]]
    <3>1. Selected(w, Y[i], c[i], SubSeq(all, (i - 1) * w + 1, i * w))
      BY <1>9, <1>10, <1>11, SelectedParts
    <3> QED
      BY <1>2, <3>1 DEF KeysOf, Selected
  <2>2. \A p \in 1..w : Y[i][p][c[i][p] + 1] = Chosen(i, p)
    BY <1>7, <1>8 DEF Chosen
  <2> QED
    BY <1>2, <2>1, <2>2 DEF ExactKeys
<1> QED
  BY <1>2, <1>12, <1>13
LEMMA OfPair ==
  ASSUME NEW v, NEW w, NEW c \in {0, 1}
  PROVE  <<v, w>>[c + 1] = IF c = 0 THEN v ELSE w
<1>1. c = 0 \/ c = 1
  OBVIOUS
<1> QED
  BY <1>1

\* The keys of the levels, and the last key.
LEMMA ExactLevels ==
  ASSUME pprfs \in PprfChoices, depth > 0, NEW i \in Trees, NEW k, ExactKeys(i, k)
  PROVE  \A l \in 1..Inner :
           k[l] = SideXor(Tree(i)[l], 1 - Path(pprfs.points[i])[l])
<1> SUFFICES ASSUME NEW l \in 1..Inner
             PROVE  k[l] = SideXor(Tree(i)[l], 1 - Path(pprfs.points[i])[l])
  OBVIOUS
<1>1. PICK c \in {0, 1} : c = 1 - Path(pprfs.points[i])[l]
  <2>1. /\ depth \in Nat \ {0} /\ Inner \in 0..depth /\ pprfs.points[i] \in Nat
    BY DepthIs, InnerIs
  <2>2. l \in 1..depth /\ depth - l \in Nat
    BY <2>1
  <2>3. Path(pprfs.points[i])[l] = (pprfs.points[i] \div 2^(depth - l)) % 2
    BY <2>2 DEF Path
  <2>4. pprfs.points[i] \div 2^(depth - l) \in Nat
    BY <2>1, <2>2, Powers, Divided
  <2> QED
    BY <2>3, <2>4
<1>2. /\ l \in 1..PerTree /\ l # PerTree /\ l # depth + 1
  <2>1. PICK d, m \in Nat : d = depth /\ m = Inner /\ PerTree = m + 1 /\ m <= d
    BY InnerIs
  <2> QED
    BY <2>1
<1>3. k[l] = SidePair(i, l)[c + 1]
  <2>1. ChoiceOf(pprfs.points[i], l) = c
    BY <1>1, <1>2 DEF ChoiceOf
  <2> QED
    BY <1>2, <2>1 DEF ExactKeys, Chosen, PairOf
<1> QED
  BY <1>1, <1>3, OfPair DEF SidePair

LEMMA ExactLast ==
  ASSUME pprfs \in PprfChoices, depth > 0, NEW i \in Trees, NEW k, ExactKeys(i, k),
         NEW c, c = pprfs.points[i] % 2
  PROVE  /\ c \in {0, 1} /\ Last(k) = k[PerTree]
         /\ pprfs.kind = "PPRF" =>
              k[PerTree] = Xor(SideXor(Leafs(Tree(i)[depth]), c), PayloadOf(i))
         /\ pprfs.kind = "BitPPRF" =>
              k[PerTree] =
                IF c = 0
                THEN <<Xor(SideXor(Tree(i)[depth], 0), PayloadOf(i)), SideXor(Tree(i)[depth], 1)>>
                ELSE <<SideXor(Tree(i)[depth], 0), Xor(SideXor(Tree(i)[depth], 1), PayloadOf(i))>>
<1>1. /\ depth \in Nat \ {0} /\ PerTree \in Nat \ {0}
      /\ pprfs.kind = "PPRF" => PerTree = depth + 1
      /\ pprfs.kind = "BitPPRF" => PerTree = depth /\ pprfs.kind # "PPRF"
  BY InnerIs DEF Inner
<1>2. PICK x \in Nat : x = pprfs.points[i] /\ x \in 0..(2^depth - 1)
  <2>1. /\ pprfs.domainsize \in Nat \ {0} /\ 2^depth \in Nat \ {0}
        /\ pprfs.domainsize <= 2^depth /\ pprfs.points[i] \in 0..(pprfs.domainsize - 1)
    BY DepthIs
  <2>2. PICK a, b \in Nat : a = pprfs.domainsize /\ b = 2^depth
    BY <2>1
  <2> QED
    BY <2>1, <2>2
<1>3. c \in {0, 1}
  BY <1>2
<1>4. Path(x)[depth] = c
  <2>1. Node(x, depth) = x /\ depth \in 1..depth
    BY <1>1, <1>2, PathUp
  <2>2. Path(x)[depth] = Node(x, depth) % 2
    BY <1>1, <1>2, <2>1, PathUp
  <2> QED
    BY <1>2, <2>1, <2>2
<1>5. Last(k) = k[PerTree]
  BY DEF ExactKeys, Last
<1>6. k[PerTree] = LastPair(i)[ChoiceOf(x, PerTree) + 1]
  BY <1>1, <1>2 DEF ExactKeys, Chosen, PairOf
<1>7. ASSUME pprfs.kind = "PPRF"
      PROVE  k[PerTree] = Xor(SideXor(Leafs(Tree(i)[depth]), c), PayloadOf(i))
  <2>1. ChoiceOf(x, PerTree) = c
    BY <1>1, <1>4, <1>7 DEF ChoiceOf
  <2>2. k[PerTree] = LastOfPprf(i)[c + 1]
    BY <1>6, <1>7, <2>1 DEF LastPair
  <2> QED
    BY <1>3, <2>2, OfPair DEF LastOfPprf
<1>8. ASSUME pprfs.kind = "BitPPRF"
      PROVE  k[PerTree] = IF c = 0 THEN LastOfBitPprf(i)[2] ELSE LastOfBitPprf(i)[1]
  <2>1. ChoiceOf(x, PerTree) = 1 - c
    BY <1>1, <1>4, <1>8 DEF ChoiceOf
  <2>2. k[PerTree] = LastOfBitPprf(i)[(1 - c) + 1]
    BY <1>1, <1>6, <1>8, <2>1 DEF LastPair
  <2> QED
    BY <1>3, <2>2
<1> QED
  BY <1>3, <1>5, <1>7, <1>8 DEF LastOfBitPprf

LEMMA ExactHas ==
  ASSUME pprfs \in PprfChoices, depth > 0, NEW i \in Trees, ExactKeys(i, keys[i])
  PROVE  HasKeys(i)
<1>1. /\ depth \in Nat \ {0}
      /\ pprfs.kind = "PPRF" => Inner = depth /\ PerTree = depth + 1
      /\ pprfs.kind = "BitPPRF" => Inner = depth - 1 /\ PerTree = depth /\ pprfs.kind # "PPRF"
      /\ pprfs.kind \in {"PPRF", "BitPPRF"}
  BY InnerIs, DepthIs DEF Inner
<1>2. Siblings(i, Inner)
  BY ExactLevels DEF Siblings
<1>3. PICK c : c = pprfs.points[i] % 2
  OBVIOUS
<1>4. CASE pprfs.kind = "PPRF"
  BY <1>1, <1>2, <1>3, <1>4, ExactLast DEF HasKeys, LastKeyOfPprf
<1>5. CASE pprfs.kind = "BitPPRF"
  <2>1. LastKeyOfBitPprf(i)
    <3>1. c \in {0, 1}
      BY <1>3, ExactLast
    <3>2. keys[i][depth] =
            IF c = 0
            THEN <<Xor(SideXor(Tree(i)[depth], 0), PayloadOf(i)), SideXor(Tree(i)[depth], 1)>>
            ELSE <<SideXor(Tree(i)[depth], 0), Xor(SideXor(Tree(i)[depth], 1), PayloadOf(i))>>
      BY <1>1, <1>3, <1>5, ExactLast
    <3>3. c = 0 \/ c = 1
      BY <3>1
    <3>4. /\ keys[i][depth][c + 1] = Xor(SideXor(Tree(i)[depth], c), PayloadOf(i))
          /\ keys[i][depth][(1 - c) + 1] = SideXor(Tree(i)[depth], 1 - c)
      BY <3>2, <3>3
    <3> QED
      BY <1>3, <3>4 DEF LastKeyOfBitPprf
  <2> QED
    BY <1>1, <1>2, <1>5, <2>1 DEF HasKeys
<1> QED
  BY <1>1, <1>4, <1>5

-----------------------------------------------------------------------------
\* Strings that are missing or made by the PRNG, all of them different.
Outputs(f) ==
  /\ \A p \in DOMAIN f : f[p] = Hole \/ \E v, b : f[p] = Prng(v, b)
  /\ \A p, q \in DOMAIN f : f[p] # Hole /\ f[p] = f[q] => p = q

\* A sum of them has no payload in it, and one of them just when it is a term.
LEMMA SumOfOutputs ==
  ASSUME NEW f, Outputs(f), IsFiniteSet(DOMAIN f), NEW b
  PROVE  /\ \A i : PayloadOf(i) \cap SideXor(f, b) = {}
         /\ \A x \in DOMAIN f : f[x] # Hole => (f[x] \subseteq SideXor(f, b) <=> x % 2 = b)
<1>1. PICK X : X = {p \in DOMAIN f : p % 2 = b /\ f[p] # Hole}
  OBVIOUS
<1>2. IsFiniteSet(X) /\ SideXor(f, b) = XorOver(f, X)
  <2>1. X \subseteq DOMAIN f
    BY <1>1
  <2> QED
    BY <1>1, <2>1, FS_Subset DEF SideXor
<1>3. ASSUME NEW i PROVE PayloadOf(i) \cap SideXor(f, b) = {}
  <2> SUFFICES ASSUME NEW z \in PayloadOf(i), z \in SideXor(f, b) PROVE FALSE
    OBVIOUS
  <2>1. PICK p \in X : z \in f[p]
    BY <1>2, XorOverHas
  <2>2. PICK v, c : f[p] = Prng(v, c)
    BY <1>1, <2>1 DEF Outputs
  <2> QED
    BY <2>1, <2>2, NotHole
<1>4. ASSUME NEW x \in DOMAIN f, f[x] # Hole
      PROVE  f[x] \subseteq SideXor(f, b) <=> x % 2 = b
  <2>1. PICK v, c : f[x] = Prng(v, c)
    BY <1>4 DEF Outputs
  <2>2. PICK z : f[x] = {z}
    BY <2>1 DEF Prng
  <2>3. ASSUME NEW p \in X, z \in f[p] PROVE p = x
    <3>1. PICK w, d : f[p] = Prng(w, d)
      BY <1>1 DEF Outputs
    <3>2. Prng(v, c) \cap Prng(w, d) # {}
      BY <2>1, <2>2, <2>3, <3>1
    <3>3. v = w /\ c = d
      BY ONLY <3>2, PrngInjective
    <3>4. f[p] = f[x]
      BY <2>1, <3>1, <3>3
    <3> QED
      BY <1>1, <1>4, <3>4 DEF Outputs
  <2>4. Where(f, X, z) = IF x % 2 = b THEN {x} ELSE {}
    <3>1. x \in X <=> x % 2 = b
      BY <1>1, <1>4
    <3>2. z \in f[x]
      BY <2>2
    <3> QED
      BY <2>3, <3>1, <3>2 DEF Where
  <2>5. Odd({x}) /\ ~Odd({})
    <3>1. {} \cup {x} = {x} /\ IsFiniteSet({}) /\ x \notin {}
      BY FS_EmptySet
    <3> QED
      BY <3>1, OddAdd, OddEmpty
  <2>6. z \in XorOver(f, X) <=> x % 2 = b
    BY <1>2, <2>4, <2>5, XorOverIs
  <2> QED
    BY <1>2, <2>2, <2>6
<1> QED
  BY <1>3, <1>4

\* What hides the payload: it comes in with the image at the point, or neither does.
Covered(i, leaf, v) == PayloadOf(i) \subseteq v <=> leaf \subseteq v

LEMMA SumsCover ==
  ASSUME NEW f, Outputs(f), IsFiniteSet(DOMAIN f), NEW i, NEW x \in DOMAIN f, f[x] # Hole, NEW b
  PROVE  /\ x % 2 = b => Covered(i, f[x], Xor(SideXor(f, b), PayloadOf(i)))
         /\ x % 2 # b => Covered(i, f[x], SideXor(f, b))
<1>1. PICK Y : Y = SideXor(f, b) /\ PayloadOf(i) \cap Y = {} /\ (f[x] \subseteq Y <=> x % 2 = b)
  BY SumOfOutputs
<1>2. PICK v, c : f[x] = Prng(v, c)
  BY DEF Outputs
<1>3. PayloadOf(i) # {} /\ f[x] \cap PayloadOf(i) = {} /\ f[x] # {}
  <2>1. PayloadOf(i) # {}
    BY DEF PayloadOf
  <2>2. f[x] # {}
    BY <1>2 DEF Prng
  <2> QED
    BY <1>2, <2>1, <2>2, NotHole
<1>4. PayloadOf(i) \subseteq Xor(Y, PayloadOf(i))
  BY <1>1 DEF Xor, SymDiff
<1>5. f[x] \subseteq Y => f[x] \subseteq Xor(Y, PayloadOf(i))
  BY <1>3 DEF Xor, SymDiff
<1> QED
  BY <1>1, <1>3, <1>4, <1>5 DEF Covered

\* The levels below the root, and the leaves.
LEMMA LevelOutputs ==
  ASSUME depth \in Nat, NEW i \in Nat \ {0}, NEW l \in 1..depth
  PROVE  Outputs(Tree(i)[l]) /\ IsFiniteSet(DOMAIN Tree(i)[l])
<1>1. NodesOf(Tree(i), l) /\ ChildrenOf(Tree(i), l)
  BY TreeLevels
<1>2. \A p \in DOMAIN Tree(i)[l] : \E v, b : Tree(i)[l][p] = Prng(v, b)
  BY <1>1 DEF ChildrenOf
<1>3. IsFiniteSet(0..(2^l - 1))
  <2>1. l \in Nat
    OBVIOUS
  <2>2. 2^l - 1 \in Int
    BY <2>1, Powers
  <2> QED
    BY <2>2, FS_Interval
<1> QED
  BY <1>1, <1>2, <1>3 DEF NodesOf, Outputs

LEMMA LeafOutputs ==
  ASSUME depth \in Nat, NEW i \in Nat \ {0}
  PROVE  /\ Outputs(Leafs(Tree(i)[depth])) /\ IsFiniteSet(DOMAIN Leafs(Tree(i)[depth]))
         /\ DOMAIN Leafs(Tree(i)[depth]) = 0..(2^depth - 1)
<1>1. NodesOf(Tree(i), depth)
  BY TreeLevels
<1>2. PICK T, f : T = Tree(i)[depth] /\ f = Leafs(T)
  OBVIOUS
<1>3. /\ DOMAIN f = 0..(2^depth - 1)
      /\ \A p \in DOMAIN f : f[p] = Hole \/ f[p] = Prng(T[p], 2)
      /\ \A p, q \in DOMAIN f : T[p] = T[q] => p = q
  BY <1>1, <1>2 DEF NodesOf, Leafs
<1>4. ASSUME NEW p \in DOMAIN f, NEW q \in DOMAIN f, f[p] # Hole, f[p] = f[q]
      PROVE  p = q
  <2>1. f[p] = Prng(T[p], 2) /\ f[q] = Prng(T[q], 2)
    BY <1>3, <1>4
  <2>2. Prng(T[p], 2) \cap Prng(T[q], 2) # {}
    BY <1>4, <2>1 DEF Prng
  <2>3. T[p] = T[q]
    BY ONLY <2>2, PrngInjective
  <2> QED
    BY <1>3, <2>3
<1>5. IsFiniteSet(DOMAIN f)
  <2>1. 2^depth - 1 \in Int
    BY Powers
  <2> QED
    BY <1>3, <2>1, FS_Interval
<1> QED
  BY <1>2, <1>3, <1>4, <1>5 DEF Outputs

\* No node of the path is in a key of its level.
LEMMA PathNotInKeys ==
  ASSUME pprfs \in PprfChoices, depth > 0, NEW i \in Trees, NEW k, ExactKeys(i, k),
         NEW l \in 1..Inner
  PROVE  OnPath(i, l) \cap k[l] = {}
<1>1. PICK x \in Nat : x = pprfs.points[i] /\ x \in 0..(2^depth - 1) /\ i \in Nat \ {0}
  <2>1. /\ pprfs.domainsize \in Nat \ {0} /\ 2^depth \in Nat \ {0} /\ i \in Nat \ {0}
        /\ pprfs.domainsize <= 2^depth /\ pprfs.points[i] \in 0..(pprfs.domainsize - 1)
    BY DepthIs
  <2>2. PICK a, b \in Nat : a = pprfs.domainsize /\ b = 2^depth
    BY <2>1
  <2> QED
    BY <2>1, <2>2
<1>2. depth \in Nat /\ l \in 1..depth
  <2>1. PICK d, m \in Nat : d = depth /\ m = Inner /\ m <= d
    BY InnerIs
  <2> QED
    BY <2>1
<1>3. PICK c : c = Path(x)[l] /\ c = Node(x, l) % 2
  BY <1>1, <1>2, PathUp
<1>4. Node(x, l) \in 0..(2^l - 1)
  <2>1. l \in 0..depth
    BY <1>2
  <2> QED
    BY <1>1, <1>2, <2>1, PathUp
<1>5. PICK f : f = Tree(i)[l] /\ Outputs(f) /\ IsFiniteSet(DOMAIN f)
  BY <1>1, <1>2, LevelOutputs
<1>6. /\ Node(x, l) \in DOMAIN f /\ f[Node(x, l)] # Hole /\ OnPath(i, l) = f[Node(x, l)]
      /\ \E v, b : f[Node(x, l)] = Prng(v, b)
  <2>1. NodesOf(Tree(i), l)
    <3>1. l \in 0..depth
      BY <1>2
    <3> QED
      BY <1>1, <1>2, <3>1, TreeLevels
  <2>2. Node(x, l) \in DOMAIN f /\ f[Node(x, l)] # Hole
    BY <1>4, <1>5, <2>1 DEF NodesOf
  <2> QED
    BY <1>1, <1>5, <2>2 DEF OnPath, Node, Outputs
<1>7. k[l] = SideXor(f, 1 - c)
  BY <1>1, <1>3, <1>5, ExactLevels
<1>8. ~(OnPath(i, l) \subseteq k[l])
  <2>1. c # 1 - c
    BY <1>3, <1>4
  <2> QED
    BY <1>3, <1>5, <1>6, <1>7, <2>1, SumOfOutputs
<1>9. \E z : OnPath(i, l) = {z}
  BY <1>6 DEF Prng
<1> QED
  BY <1>8, <1>9

-----------------------------------------------------------------------------
\* The invariant: the sender's images are of the trees, and from the transfer on
\* the receiver has of each pair the message that its point selects.
PprfInv ==
  /\ pprfs \in PprfChoices
  /\ image = [i \in Trees |-> SenderImage(i)]
  /\ DOMAIN punctured = Trees
  /\ phase = "shared" => depth > 0 /\ \A i \in Trees : ExactKeys(i, keys[i])
  /\ \A i \in Trees : punctured[i] # <<>> => PuncturedAs(i, punctured[i])

\* What depends on the parameters alone.
LEMMA SameParameters ==
  ASSUME pprfs' = pprfs
  PROVE  /\ depth' = depth /\ Trees' = Trees /\ PerTree' = PerTree
         /\ \A i : SenderImage(i)' = SenderImage(i) /\ PayloadOf(i)' = PayloadOf(i)
         /\ \A i, l : Chosen(i, l)' = Chosen(i, l)
<1>1. depth' = depth /\ Trees' = Trees
  BY DEF depth, Trees
<1>2. \A i : PayloadOf(i)' = PayloadOf(i)
  BY DEF PayloadOf
<1>3. PerTree' = PerTree
  BY <1>1 DEF PerTree
<1>4. ASSUME NEW i PROVE Tree(i)' = Tree(i)
  BY <1>1 DEF Tree
<1>5. ASSUME NEW i PROVE Leafs(Tree(i)[depth])' = Leafs(Tree(i)[depth])
  BY <1>1, <1>4 DEF Leafs
<1>6. ASSUME NEW i PROVE SenderImage(i)' = SenderImage(i)
  BY <1>1, <1>4, <1>5 DEF SenderImage
<1>7. ASSUME NEW x PROVE Path(x)' = Path(x)
  BY <1>1 DEF Path
<1>8. ASSUME NEW i, NEW l PROVE PairOf(i, l)' = PairOf(i, l)
  BY <1>1, <1>2, <1>3, <1>4, <1>5 DEF PairOf, LastPair, LastOfPprf, LastOfBitPprf, SidePair
<1>9. ASSUME NEW x, NEW l PROVE ChoiceOf(x, l)' = ChoiceOf(x, l)
  BY <1>1, <1>7 DEF ChoiceOf
<1>10. ASSUME NEW i, NEW l PROVE Chosen(i, l)' = Chosen(i, l)
  BY <1>8, <1>9 DEF Chosen
<1> QED
  BY <1>1, <1>2, <1>3, <1>6, <1>10
LEMMA PprfInvInit == PprfInit => PprfInv
BY DEF PprfInit, PprfInv

LEMMA PprfInvStep == PprfInv /\ [PprfNext]_pprfVars => PprfInv'
<1> SUFFICES ASSUME PprfInv, [PprfNext]_pprfVars PROVE PprfInv'
  OBVIOUS
<1>0. pprfs' = pprfs /\ image' = image
  BY DEF PprfNext, ShareKeys, ReceiveThrows, Expand, PprfStop, pprfVars
<1>1. /\ depth' = depth /\ Trees' = Trees /\ PerTree' = PerTree
      /\ \A i : SenderImage(i)' = SenderImage(i) /\ PayloadOf(i)' = PayloadOf(i)
      /\ \A i, l : Chosen(i, l)' = Chosen(i, l)
  BY <1>0, SameParameters
<1>2. pprfs' \in PprfChoices /\ image' = [i \in Trees' |-> SenderImage(i)']
  BY <1>0, <1>1 DEF PprfInv
<1>3. \A i, k : ExactKeys(i, k) => ExactKeys(i, k)'
  BY <1>1 DEF ExactKeys
<1>4. \A i, f : PuncturedAs(i, f) => PuncturedAs(i, f)'
  BY <1>0, <1>1 DEF PuncturedAs
<1>5. CASE ShareKeys
  <2>1. depth > 0 /\ punctured' = punctured
    BY <1>5 DEF ShareKeys
  <2>2. \A i \in Trees : ExactKeys(i, keys'[i])
    BY <1>5, KeysGiven DEF PprfInv
  <2>3. \A i \in Trees : ExactKeys(i, keys[i])'
    BY <1>1, <2>2 DEF ExactKeys
  <2>4. \A i \in Trees : PuncturedAs(i, punctured[i]) => PuncturedAs(i, punctured[i])'
    BY <1>0, <1>1, <2>1 DEF PuncturedAs
  <2> QED
    BY <1>1, <1>2, <2>1, <2>3, <2>4 DEF PprfInv
<1>6. CASE ReceiveThrows
  <2>1. phase' = "error" /\ punctured' = punctured
    BY <1>6 DEF ReceiveThrows
  <2>2. \A i \in Trees : PuncturedAs(i, punctured[i]) => PuncturedAs(i, punctured[i])'
    BY <1>0, <1>1, <2>1 DEF PuncturedAs
  <2> QED
    BY <1>1, <1>2, <2>1, <2>2 DEF PprfInv
<1>7. ASSUME NEW j \in Trees, Expand(j) PROVE PprfInv'
  <2>1. /\ phase = "shared" /\ phase' = phase /\ keys' = keys
        /\ punctured' = [punctured EXCEPT ![j] =
             IF pprfs.kind = "PPRF" THEN ExpandedPprf(j) ELSE ExpandedBitPprf(j)]
    BY <1>7 DEF Expand
  <2>2. depth > 0 /\ \A i \in Trees : ExactKeys(i, keys[i])
    BY <2>1 DEF PprfInv
  <2>3. \A i \in Trees : ExactKeys(i, keys[i])'
    BY <1>1, <2>1, <2>2 DEF ExactKeys
  <2>4. PuncturedAs(j, punctured'[j])
    <3>1. pprfs \in PprfChoices /\ HasKeys(j)
      BY <2>2, ExactHas DEF PprfInv
    <3>2. pprfs.kind \in {"PPRF", "BitPPRF"}
      BY <3>1, DepthIs
    <3>3. DOMAIN punctured = Trees
      BY DEF PprfInv
    <3>4. CASE pprfs.kind = "PPRF"
      BY <2>1, <3>1, <3>3, <3>4, PprfExpands
    <3>5. CASE pprfs.kind = "BitPPRF"
      BY <2>1, <3>1, <3>3, <3>5, BitPprfExpands
    <3> QED
      BY <3>2, <3>4, <3>5
  <2>5. ASSUME NEW i \in Trees, punctured'[i] # <<>> PROVE PuncturedAs(i, punctured'[i])
    <3>1. i # j => punctured'[i] = punctured[i]
      BY <2>1 DEF PprfInv
    <3> QED
      BY <2>4, <2>5, <3>1 DEF PprfInv
  <2>6. ASSUME NEW i \in Trees, punctured'[i] # <<>> PROVE PuncturedAs(i, punctured[i])'
    <3>1. PuncturedAs(i, punctured'[i])
      BY <2>5, <2>6
    <3> QED
      BY <1>0, <1>1, <3>1 DEF PuncturedAs
  <2>7. DOMAIN punctured' = Trees
    BY <2>1 DEF PprfInv
  <2> QED
    BY <1>1, <1>2, <2>1, <2>2, <2>3, <2>6, <2>7 DEF PprfInv
<1>8. CASE UNCHANGED pprfVars
  <2>1. phase' = phase /\ keys' = keys /\ punctured' = punctured
    BY <1>8 DEF pprfVars
  <2>2. \A i \in Trees : ExactKeys(i, keys[i]) => ExactKeys(i, keys[i])'
    BY <1>1, <2>1 DEF ExactKeys
  <2>3. \A i \in Trees : PuncturedAs(i, punctured[i]) => PuncturedAs(i, punctured[i])'
    BY <1>0, <1>1, <2>1 DEF PuncturedAs
  <2> QED
    BY <1>1, <1>2, <2>1, <2>2, <2>3 DEF PprfInv
<1> QED
  BY <1>5, <1>6, <1>7, <1>8 DEF PprfNext, PprfStop

LEMMA PprfInductive == PprfSpec => []PprfInv
<1> QED
  BY PprfInvInit, PprfInvStep, PTL DEF PprfSpec

\* The functions are punctured (pprf.cxx:150-271): whatever the domain, the number
\* of trees and their points, and in whatever order the receiver expands them, both
\* sides hold the same image but at the point, where the receiver's has the payload.
THEOREM FunctionsPunctured == PprfSpec => []Punctured
<1>1. PprfInv => Punctured
  <2> SUFFICES ASSUME PprfInv, NEW i \in Trees, punctured[i] # <<>>,
                      NEW x \in 0..(pprfs.domainsize - 1)
               PROVE  punctured[i][x] = IF x = pprfs.points[i] THEN Xor(image[i][x], PayloadOf(i))
                                                               ELSE image[i][x]
    BY DEF Punctured
  <2>1. PuncturedAs(i, punctured[i]) /\ image[i] = SenderImage(i)
    BY DEF PprfInv
  <2> QED
    BY <2>1 DEF PuncturedAs
<1> QED
  BY <1>1, PprfInductive, PTL

\* The sender's image at the point: of a leaf, or a node of the last level.
LEMMA ImageAtPoint ==
  ASSUME pprfs \in PprfChoices, depth > 0, NEW i \in Trees
  PROVE  \A f \in {IF pprfs.kind = "PPRF" THEN Leafs(Tree(i)[depth]) ELSE Tree(i)[depth]} :
           /\ Outputs(f) /\ IsFiniteSet(DOMAIN f)
           /\ pprfs.points[i] \in DOMAIN f /\ f[pprfs.points[i]] # Hole
           /\ SenderImage(i)[pprfs.points[i]] = f[pprfs.points[i]]
<1>1. PICK n \in Nat \ {0}, d \in Nat \ {0}, x \in Nat :
        /\ n = pprfs.domainsize /\ d = depth /\ x = pprfs.points[i] /\ x < n
        /\ x \in 0..(2^d - 1) /\ i \in Nat \ {0}
  <2>1. /\ pprfs.domainsize \in Nat \ {0} /\ depth \in Nat /\ 2^depth \in Nat \ {0}
        /\ pprfs.domainsize <= 2^depth /\ pprfs.points[i] \in 0..(pprfs.domainsize - 1)
        /\ i \in Nat \ {0}
    BY DepthIs
  <2>2. PICK a, b \in Nat : a = pprfs.domainsize /\ b = 2^depth
    BY <2>1
  <2> QED
    BY <2>1, <2>2
<1>2. d \in 0..depth /\ d \in 1..depth /\ x \in 0..(n - 1)
  BY <1>1
<1>3. NodesOf(Tree(i), d)
  BY <1>1, <1>2, TreeLevels
<1>4. CASE pprfs.kind = "PPRF"
  <2>1. PICK f : f = Leafs(Tree(i)[d])
    OBVIOUS
  <2>2. Outputs(f) /\ IsFiniteSet(DOMAIN f) /\ x \in DOMAIN f
    BY <1>1, <2>1, LeafOutputs
  <2>3. f[x] # Hole
    <3>1. f[x] = Prng(Tree(i)[d][x], 2)
      BY <1>1, <1>3, <2>1 DEF Leafs, NodesOf
    <3> QED
      BY <3>1, NotHole
  <2>4. SenderImage(i)[x] = f[x]
    BY <1>1, <1>2, <1>4, <2>1 DEF SenderImage, InDomain
  <2> QED
    BY <1>1, <1>4, <2>1, <2>2, <2>3, <2>4
<1>5. CASE pprfs.kind # "PPRF"
  <2>1. PICK f : f = Tree(i)[d]
    OBVIOUS
  <2>2. Outputs(f) /\ IsFiniteSet(DOMAIN f) /\ x \in DOMAIN f /\ f[x] # Hole
    BY <1>1, <1>2, <1>3, <2>1, LevelOutputs DEF NodesOf
  <2>3. SenderImage(i)[x] = f[x]
    BY <1>1, <1>2, <1>5, <2>1 DEF SenderImage, InDomain
  <2> QED
    BY <1>1, <1>5, <2>1, <2>2, <2>3
<1> QED
  BY <1>4, <1>5

LEMMA LastCovered ==
  ASSUME pprfs \in PprfChoices, depth > 0, NEW i \in Trees, NEW k, ExactKeys(i, k)
  PROVE  /\ pprfs.kind = "PPRF" => Covered(i, SenderImage(i)[pprfs.points[i]], Last(k))
         /\ pprfs.kind = "BitPPRF" =>
              \A v \in ToSet(Last(k)) : Covered(i, SenderImage(i)[pprfs.points[i]], v)
<1>1. PICK f : /\ f = IF pprfs.kind = "PPRF" THEN Leafs(Tree(i)[depth]) ELSE Tree(i)[depth]
               /\ Outputs(f) /\ IsFiniteSet(DOMAIN f)
               /\ pprfs.points[i] \in DOMAIN f /\ f[pprfs.points[i]] # Hole
               /\ SenderImage(i)[pprfs.points[i]] = f[pprfs.points[i]]
  BY ImageAtPoint
<1>2. PICK x : x = pprfs.points[i]
  OBVIOUS
<1>3. PICK c : c = x % 2 /\ c \in {0, 1}
  BY <1>2, ExactLast
<1>4. /\ Covered(i, f[x], Xor(SideXor(f, c), PayloadOf(i)))
      /\ \A b : b # c => Covered(i, f[x], SideXor(f, b))
  BY <1>1, <1>2, <1>3, SumsCover
<1>5. CASE pprfs.kind = "PPRF"
  <2>1. Last(k) = Xor(SideXor(f, c), PayloadOf(i))
    BY <1>1, <1>2, <1>3, <1>5, ExactLast
  <2> QED
    BY <1>1, <1>2, <1>4, <1>5, <2>1
<1>6. CASE pprfs.kind = "BitPPRF"
  <2>1. f = Tree(i)[depth]
    BY <1>1, <1>6
  <2>2. Last(k) = IF c = 0 THEN <<Xor(SideXor(f, 0), PayloadOf(i)), SideXor(f, 1)>>
                           ELSE <<SideXor(f, 0), Xor(SideXor(f, 1), PayloadOf(i))>>
    BY <1>2, <1>3, <1>6, <2>1, ExactLast
  <2>3. ASSUME NEW a, NEW b, NEW v \in ToSet(<<a, b>>) PROVE v = a \/ v = b
    BY <2>3 DEF ToSet
  <2>4. ASSUME NEW v \in ToSet(Last(k)) PROVE Covered(i, f[x], v)
    <3>1. CASE c = 0
      <4>1. Last(k) = <<Xor(SideXor(f, c), PayloadOf(i)), SideXor(f, 1)>> /\ 1 # c
        BY <2>2, <3>1
      <4>2. v = Xor(SideXor(f, c), PayloadOf(i)) \/ v = SideXor(f, 1)
        BY <2>3, <2>4, <4>1
      <4> QED
        BY <1>4, <4>1, <4>2
    <3>2. CASE c = 1
      <4>1. Last(k) = <<SideXor(f, 0), Xor(SideXor(f, c), PayloadOf(i))>> /\ 0 # c
        BY <2>2, <3>2
      <4>2. v = SideXor(f, 0) \/ v = Xor(SideXor(f, c), PayloadOf(i))
        BY <2>3, <2>4, <4>1
      <4> QED
        BY <1>4, <4>1, <4>2
    <3> QED
      BY <1>3, <3>1, <3>2
  <2> QED
    BY <1>1, <1>2, <1>6, <2>4
<1> QED
  BY <1>5, <1>6

\* The sender's secret stays one (pprf.cxx:91-148): no key that the receiver is
\* given has a node of the path to its point in it, and the payload comes to it in
\* no message without the image at the point, for every domain and every point.
THEOREM PathStaysHidden == PprfSpec => []PathHidden
<1>1. PprfInv => PathHidden
  <2> SUFFICES ASSUME PprfInv, phase = "shared", NEW i \in Trees
               PROVE  LET inner == SubSeq(keys[i], 1, PerTree - 1)
                          last == IF pprfs.kind = "PPRF" THEN {Last(keys[i])}
                                                         ELSE ToSet(Last(keys[i]))
                          leaf == image[i][pprfs.points[i]]
                      IN  /\ \A l \in DOMAIN inner : OnPath(i, l) \cap inner[l] = {}
                          /\ \A v \in last : PayloadOf(i) \subseteq v <=> leaf \subseteq v
    BY Zenon DEF PathHidden
  <2>1. /\ pprfs \in PprfChoices /\ depth > 0 /\ ExactKeys(i, keys[i])
        /\ image[i] = SenderImage(i) /\ pprfs.kind \in {"PPRF", "BitPPRF"}
    BY DepthIs DEF PprfInv
  <2>2. PICK k : k = keys[i] /\ ExactKeys(i, k)
    BY <2>1
  <2>3. PICK inner : inner = SubSeq(k, 1, PerTree - 1)
    OBVIOUS
  <2>4. DOMAIN inner = 1..Inner /\ \A l \in 1..Inner : inner[l] = k[l]
    <3>1. PICK m \in Nat : m = Inner /\ PerTree = m + 1 /\ PerTree - 1 = m
      BY <2>1, InnerIs
    <3>2. PICK Q : Q = {k[l] : l \in 1..m}
      OBVIOUS
    <3>3. \A l \in 1..m : k[l] \in Q
      BY <3>2
    <3>4. /\ SubSeq(k, 1, m) \in Seq(Q)
          /\ Len(SubSeq(k, 1, m)) = IF 1 <= m THEN m - 1 + 1 ELSE 0
          /\ \A l \in 1..(m - 1 + 1) : SubSeq(k, 1, m)[l] = k[1 + l - 1]
      BY <3>3, SubSeqProperties
    <3>5. Len(inner) = m /\ inner \in Seq(Q)
      BY <2>3, <3>1, <3>4
    <3>6. DOMAIN inner = 1..m
      BY <3>5, LenProperties
    <3>7. ASSUME NEW l \in 1..m PROVE inner[l] = k[l]
      <4>1. l \in 1..(m - 1 + 1) /\ 1 + l - 1 = l
        BY <3>1
      <4> QED
        BY <2>3, <3>1, <3>4, <4>1
    <3> QED
      BY <3>1, <3>6, <3>7
  <2>5. \A l \in DOMAIN inner : OnPath(i, l) \cap inner[l] = {}
    BY <2>1, <2>2, <2>4, PathNotInKeys
  <2>6. \A v \in IF pprfs.kind = "PPRF" THEN {Last(k)} ELSE ToSet(Last(k)) :
          PayloadOf(i) \subseteq v <=> image[i][pprfs.points[i]] \subseteq v
    <3>1. \A v \in IF pprfs.kind = "PPRF" THEN {Last(k)} ELSE ToSet(Last(k)) :
            Covered(i, SenderImage(i)[pprfs.points[i]], v)
      <4>1. pprfs.kind = "PPRF" \/ (pprfs.kind = "BitPPRF" /\ pprfs.kind # "PPRF")
        BY <2>1
      <4> QED
        BY <2>1, <2>2, <4>1, LastCovered
    <3> QED
      BY <2>1, <3>1 DEF Covered
  <2> QED
    BY <2>2, <2>3, <2>5, <2>6
<1> QED
  BY <1>1, PprfInductive, PTL

-----------------------------------------------------------------------------
\* The matrices.  The sizes, and the thread that makes a row.
Owner(i) == i \div Chunk

LEMMA SizesAre ==
  ASSUME lpn \in LpnChoices
  PROVE  /\ lpn.n \in Nat \ {0} /\ lpn.k \in Nat \ {0} /\ lpn.l \in Nat \ {0}
         /\ lpn.N \in Nat \ {0} /\ lpn.threads \in Nat \ {0} /\ lpn.k < WORDS /\ WORDS \in Nat
         /\ lpn.l <= lpn.k
BY LpnAssumption, RandomAssumption

LEMMA ChunkIs ==
  ASSUME lpn \in LpnChoices
  PROVE  Chunk \in Nat \ {0} /\ lpn.n <= lpn.threads * Chunk
<1>1. PICK n, h \in Nat \ {0} : n = lpn.n /\ h = lpn.threads
  BY SizesAre
<1>2. PICK q : q = Chunk /\ q = (n + h - 1) \div h
  BY <1>1 DEF Chunk
<1>3. n + h - 1 \in Nat
  BY <1>1
<1>4. q \in Nat /\ n + h - 1 < h * q + h
  BY <1>2, <1>3, Dividing
<1>5. h * q \in Nat
  BY <1>4
<1>6. n <= h * q
  BY <1>4, <1>5
<1>7. q # 0
  BY <1>1, <1>6
<1> QED
  BY <1>1, <1>2, <1>4, <1>6, <1>7

LEMMA OwnerIs ==
  ASSUME lpn \in LpnChoices, NEW i \in Rows
  PROVE  Owner(i) \in Threads /\ Owner(i) * Chunk <= i /\ i < End(Owner(i))
<1>1. PICK n, h, q \in Nat \ {0} : n = lpn.n /\ h = lpn.threads /\ q = Chunk /\ n <= h * q
  BY SizesAre, ChunkIs
<1>2. i \in Nat /\ i < n
  BY <1>1 DEF Rows
<1>3. PICK o \in Nat : o = Owner(i) /\ q * o <= i /\ i < q * o + q
  <2>1. i \div q \in Nat /\ q * (i \div q) <= i /\ i < q * (i \div q) + q
    BY <1>2, Dividing
  <2> QED
    BY <1>1, <2>1 DEF Owner
<1>4. o < h
  <2> SUFFICES ASSUME h <= o PROVE FALSE
    BY <1>1, <1>3
  <2>1. h * q <= q * o
    <3>1. h * q \in Nat /\ o * q \in Nat /\ (h < o => h * q + q <= o * q)
      BY Stretch
    <3>2. h = o \/ h < o
      OBVIOUS
    <3>3. o * q = q * o
      BY <1>1, <1>3
    <3> QED
      BY <3>1, <3>2, <3>3
  <2> QED
    BY <1>1, <1>2, <1>3, <2>1
<1>5. q * o = o * q /\ (o + 1) * q = q * o + q
  BY <1>1, <1>3
<1>6. i < End(o)
  <2>1. i < (o + 1) * q /\ i < n
    BY <1>2, <1>3, <1>5
  <2> QED
    BY <1>1, <2>1 DEF End, SmallerOf
<1> QED
  BY <1>1, <1>3, <1>4, <1>5, <1>6 DEF Threads

LEMMA RowOfOwner ==
  ASSUME lpn \in LpnChoices, NEW t \in Threads, NEW i \in Nat, t * Chunk <= i, i < End(t)
  PROVE  i \in Rows /\ Owner(i) = t
<1>1. PICK n, h, q \in Nat \ {0} : n = lpn.n /\ h = lpn.threads /\ q = Chunk
  BY SizesAre, ChunkIs
<1>2. t \in Nat
  BY DEF Threads
<1>3. i < n /\ i < (t + 1) * q
  <2>1. (t + 1) * q \in Nat
    BY <1>1, <1>2
  <2> QED
    BY <1>1, <2>1 DEF End, SmallerOf
<1>4. PICK a \in Nat : a = t * q /\ (t + 1) * q = a + q
  BY <1>1, <1>2
<1>5. i - a \in 0..(q - 1) /\ i = t * q + (i - a)
  BY <1>1, <1>3, <1>4
<1>6. i \div q = t
  BY <1>1, <1>2, <1>5, DividesAs
<1> QED
  BY <1>1, <1>3, <1>6 DEF Rows, Owner

-----------------------------------------------------------------------------
\* How a row is drawn.  One evaluation of AES with the answer w takes the loop for
\* a row from one state to the next.
Fresh == [row |-> <<>>, j |-> 0, counter |-> 0, done |-> 0]

WithPoint(P, row, w) == IF w % P.k \in ToSet(row) THEN row ELSE Append(row, w % P.k)

After(P, g, w) ==
  IF ~Accepts(w, P.k) THEN [g EXCEPT !.counter = @ + 1]
  ELSE IF Len(WithPoint(P, g.row, w)) = P.l
       THEN [row |-> InOrder(WithPoint(P, g.row, w)), j |-> 0, counter |-> 0, done |-> 1]
       ELSE [row |-> WithPoint(P, g.row, w), j |-> g.j + 1, counter |-> 0, done |-> 0]

Asked(i, g) == InputBlock(i, g.j, g.counter)

\* The first m states of row i when AES is f.
Moved(P, f, i, g, h) == g.done = 0 /\ Asked(i, g) \in DOMAIN f /\ h = After(P, g, f[Asked(i, g)])
Trace(P, f, i, m, G) == G[0] = Fresh /\ \A d \in 0..(m - 1) : Moved(P, f, i, G[d], G[d + 1])

\* Two traces of one row are equal as far as they go,
AgreeTo(q, G, F) == \A d \in 0..q : G[d] = F[d]

LEMMA TracesAgree ==
  ASSUME NEW P, NEW f, NEW i, NEW m \in Nat, NEW p \in Nat, NEW G, NEW F,
         Trace(P, f, i, m, G), Trace(P, f, i, p, F), NEW q \in Nat, q <= m, q <= p
  PROVE  AgreeTo(q, G, F)
<1> DEFINE S == {d \in 0..q : G[d] = F[d]}
<1>1. 0 \in S
  <2>1. 0 \in 0..q
    OBVIOUS
  <2> QED
    BY <2>1 DEF Trace
<1>2. ASSUME NEW d \in 0..(q - 1), d \in S PROVE d + 1 \in S
  <2>1. d \in 0..(m - 1) /\ d \in 0..(p - 1) /\ d + 1 \in 0..q
    OBVIOUS
  <2>2. Moved(P, f, i, G[d], G[d + 1]) /\ Moved(P, f, i, F[d], F[d + 1]) /\ G[d] = F[d]
    BY <1>2, <2>1 DEF Trace
  <2> QED
    BY <2>1, <2>2 DEF Moved
<1> HIDE DEF S
<1>3. 0..q \subseteq S
  BY <1>1, <1>2, IntervalInduction
<1> QED
  BY <1>3 DEF S, AgreeTo

\* so that they come to the same end.
LEMMA SameEnd ==
  ASSUME NEW P, NEW f, NEW i, NEW m \in Nat, NEW p \in Nat, NEW G, NEW F,
         Trace(P, f, i, m, G), Trace(P, f, i, p, F), G[m].done = 1, F[p].done = 1
  PROVE  G[m] = F[p]
<1>1. ~(m < p)
  <2> SUFFICES ASSUME m < p PROVE FALSE
    OBVIOUS
  <2>1. m \in 0..(p - 1) /\ m \in 0..m /\ m <= m /\ m <= p
    OBVIOUS
  <2>a. AgreeTo(m, G, F)
    BY <2>1, TracesAgree
  <2>2. G[m] = F[m]
    BY <2>1, <2>a DEF AgreeTo
  <2>3. F[m].done = 0
    BY <2>1 DEF Trace, Moved
  <2> QED
    BY <2>2, <2>3
<1>2. ~(p < m)
  <2> SUFFICES ASSUME p < m PROVE FALSE
    OBVIOUS
  <2>1. p \in 0..(m - 1) /\ p \in 0..p /\ p <= m /\ p <= p
    OBVIOUS
  <2>a. AgreeTo(p, G, F)
    BY <2>1, TracesAgree
  <2>2. G[p] = F[p]
    BY <2>1, <2>a DEF AgreeTo
  <2>3. G[p].done = 0
    BY <2>1 DEF Trace, Moved
  <2> QED
    BY <2>2, <2>3
<1>3. m = p /\ m \in 0..m /\ m <= m
  BY <1>1, <1>2
<1>4. AgreeTo(m, G, F)
  BY <1>3, TracesAgree
<1> QED
  BY <1>3, <1>4 DEF AgreeTo

\* AES under one key stays the same function as more of it is drawn.
Extends(f, g) == \A x \in DOMAIN f : x \in DOMAIN g /\ g[x] = f[x]

Reaches(P, f, i, g) == \E m \in Nat : \E G : Trace(P, f, i, m, G) /\ G[m] = g

LEMMA TraceKept ==
  ASSUME NEW P, NEW f, NEW g, Extends(f, g), NEW i, NEW h, Reaches(P, f, i, h)
  PROVE  Reaches(P, g, i, h)
<1>1. PICK m, G : m \in Nat /\ Trace(P, f, i, m, G) /\ G[m] = h
  BY DEF Reaches
<1>2. Trace(P, g, i, m, G)
  BY <1>1 DEF Trace, Moved, Extends
<1> QED
  BY <1>1, <1>2 DEF Reaches

\* One more evaluation.
LEMMA TraceGrows ==
  ASSUME NEW P, NEW f, NEW i, NEW g, Reaches(P, f, i, g), NEW h, Moved(P, f, i, g, h)
  PROVE  Reaches(P, f, i, h)
<1>m. PICK m \in Nat : \E G : Trace(P, f, i, m, G) /\ G[m] = g
  BY DEF Reaches
<1>0. PICK G : Trace(P, f, i, m, G) /\ G[m] = g
  BY <1>m
<1>1. PICK F : F = [d \in 0..(m + 1) |-> IF d = m + 1 THEN h ELSE G[d]]
  OBVIOUS
<1>2. F[m + 1] = h /\ F[0] = G[0] /\ \A d \in 0..m : F[d] = G[d]
  <2>1. m + 1 \in 0..(m + 1) /\ 0 \in 0..(m + 1) /\ 0 # m + 1
    OBVIOUS
  <2>2. \A d \in 0..m : d \in 0..(m + 1) /\ d # m + 1
    OBVIOUS
  <2> QED
    BY <1>1, <2>1, <2>2
<1>3. ASSUME NEW d \in 0..(m + 1 - 1) PROVE Moved(P, f, i, F[d], F[d + 1])
  <2>1. CASE d = m
    <3>1. m \in 0..m
      OBVIOUS
    <3> QED
      BY <1>0, <1>2, <2>1, <3>1
  <2>2. CASE d # m
    <3>1. d \in 0..(m - 1) /\ d \in 0..m /\ d + 1 \in 0..m
      BY <2>2
    <3>2. Moved(P, f, i, G[d], G[d + 1])
      BY <1>0, <3>1 DEF Trace
    <3> QED
      BY <1>2, <3>1, <3>2
  <2> QED
    BY <2>1, <2>2
<1>4. Trace(P, f, i, m + 1, F)
  BY <1>0, <1>2, <1>3 DEF Trace
<1>5. m + 1 \in Nat
  OBVIOUS
<1> QED
  BY <1>2, <1>4, <1>5 DEF Reaches

-----------------------------------------------------------------------------
\* A function on R.
IsOn(R, f) == f = [x \in R |-> f[x]]

LEMMA ExceptOn ==
  ASSUME NEW R, NEW f, IsOn(R, f), NEW x \in R, NEW v
  PROVE  IsOn(R, [f EXCEPT ![x] = v])
BY DEF IsOn

\* The variables have a value for each construction, thread and row.
Shape ==
  /\ lpn \in LpnChoices
  /\ \A x \in DOMAIN aes : aes[x] \in Nat
  /\ at \in [Constructions -> [Threads -> [i : Nat, j : Nat, counter : Nat]]]
  /\ \A b \in Constructions, t \in Threads : t * Chunk <= at[b][t].i
  /\ DOMAIN points = Constructions /\ DOMAIN dense = Constructions
  /\ \A b \in Constructions : IsOn(Rows, points[b])

\* How far the drawing of a row has come in construction b.
StateOf(b, i) ==
  LET here == at[b][Owner(i)]
  IN  [row |-> points[b][i], j |-> IF here.i = i THEN here.j ELSE 0,
       counter |-> IF here.i = i THEN here.counter ELSE 0, done |-> IF i < here.i THEN 1 ELSE 0]

\* What the answer w does to the row that thread t is at.
Drawn(b, t, w) ==
  LET here == at[b][t]
      row == WithPoint(lpn, points[b][here.i], w)
      block == InputBlock(here.i, here.j, here.counter)
  IN  /\ w \in Nat /\ Extends(aes, aes') /\ block \in DOMAIN aes' /\ aes'[block] = w
      /\ IF ~Accepts(w, lpn.k)
         THEN at' = [at EXCEPT ![b][t].counter = @ + 1] /\ points' = points
         ELSE IF Len(row) = lpn.l
         THEN /\ points' = [points EXCEPT ![b][here.i] = InOrder(row)]
              /\ at' = [at EXCEPT ![b][t] = [i |-> here.i + 1, j |-> 0, counter |-> 0]]
         ELSE /\ points' = [points EXCEPT ![b][here.i] = row]
              /\ at' = [at EXCEPT ![b][t] = [here EXCEPT !.j = @ + 1, !.counter = 0]]

LEMMA DrawIs ==
  ASSUME Shape, NEW b \in Constructions, NEW t \in Threads, DrawPoint(b, t)
  PROVE  \E w : Drawn(b, t, w) /\ \A x \in DOMAIN aes' : aes'[x] \in Nat
<1>1. PICK here : here = at[b][t]
  OBVIOUS
<1>2. PICK w \in Answers(b, t) :
        LET repeated == Point(w) \in Known(b, here.i)
            row == IF repeated THEN points[b][here.i] ELSE Append(points[b][here.i], Point(w))
            full == Len(row) = lpn.l
        IN  /\ Remember(InputBlock(here.i, here.j, Counter(b, t)), w, repeated)
            /\ IF ~Accepts(w, lpn.k)
               THEN at' = [at EXCEPT ![b][t].counter = @ + 1] /\ UNCHANGED points
               ELSE /\ points' = [points EXCEPT ![b][here.i] = IF full THEN InOrder(row) ELSE row]
                    /\ at' = [at EXCEPT ![b][t] = NextDraw(here, repeated, full)]
  BY Zenon, <1>1 DEF DrawPoint
<1> DEFINE repeated == Point(w) \in Known(b, here.i)
           row == IF repeated THEN points[b][here.i] ELSE Append(points[b][here.i], Point(w))
           full == Len(row) = lpn.l
<1>10. /\ Remember(InputBlock(here.i, here.j, here.counter), w, repeated)
      /\ IF ~Accepts(w, lpn.k)
         THEN at' = [at EXCEPT ![b][t].counter = @ + 1] /\ UNCHANGED points
         ELSE /\ points' = [points EXCEPT ![b][here.i] = IF full THEN InOrder(row) ELSE row]
              /\ at' = [at EXCEPT ![b][t] = NextDraw(here, repeated, full)]
  BY <1>1, <1>2 DEF Counter
<1>7. row = WithPoint(lpn, points[b][here.i], w)
  BY DEF WithPoint, Known, Point
<1> HIDE DEF repeated, row
<1>3. PICK block : block = InputBlock(here.i, here.j, here.counter)
  OBVIOUS
<1>4. IF block \in DOMAIN aes THEN w = aes[block] ELSE w \in 0..(WORDS - 1)
  BY <1>1, <1>2, <1>3 DEF Answers, Counter
<1>5. w \in Nat
  BY <1>4 DEF Shape
<1>6. /\ Extends(aes, aes') /\ block \in DOMAIN aes' /\ aes'[block] = w
      /\ \A x \in DOMAIN aes' : aes'[x] \in Nat
  <2>1. CASE block \in DOMAIN aes
    <3>1. aes' = aes /\ aes[block] = w
      BY <1>3, <1>4, <1>10, <2>1 DEF Remember
    <3> QED
      BY <2>1, <3>1 DEF Extends, Shape
  <2>2. CASE block \notin DOMAIN aes
    <3>1. aes' = [x \in DOMAIN aes \cup {block} |-> IF x = block THEN w ELSE aes[x]]
      BY <1>3, <1>10, <2>2 DEF Remember
    <3> QED
      BY <1>5, <2>2, <3>1 DEF Extends, Shape
  <2> QED
    BY <2>1, <2>2
<1>8. CASE ~Accepts(w, lpn.k)
  BY <1>1, <1>3, <1>5, <1>6, <1>8, <1>10 DEF Drawn
<1>9. CASE Accepts(w, lpn.k)
  <2>1. NextDraw(here, repeated, full) = IF full THEN [i |-> here.i + 1, j |-> 0, counter |-> 0]
                                         ELSE [here EXCEPT !.j = @ + 1, !.counter = 0]
    BY DEF NextDraw
  <2>2. CASE Len(row) = lpn.l
    <3>1. /\ points' = [points EXCEPT ![b][here.i] = InOrder(row)]
          /\ at' = [at EXCEPT ![b][t] = [i |-> here.i + 1, j |-> 0, counter |-> 0]]
      BY <1>9, <1>10, <2>1, <2>2
    <3> QED
      BY <1>1, <1>3, <1>5, <1>6, <1>7, <1>9, <2>2, <3>1 DEF Drawn
  <2>3. CASE Len(row) # lpn.l
    <3>1. /\ points' = [points EXCEPT ![b][here.i] = row]
          /\ at' = [at EXCEPT ![b][t] = [here EXCEPT !.j = @ + 1, !.counter = 0]]
      BY <1>9, <1>10, <2>1, <2>3
    <3> QED
      BY <1>1, <1>3, <1>5, <1>6, <1>7, <1>9, <2>3, <3>1 DEF Drawn
  <2> QED
    BY <2>2, <2>3
<1> QED
  BY <1>6, <1>8, <1>9

\* What depends on the parameters alone.
LEMMA SameSizes ==
  ASSUME lpn' = lpn
  PROVE  /\ Rows' = Rows /\ Threads' = Threads /\ Chunk' = Chunk
         /\ \A i : Owner(i)' = Owner(i)
         /\ \A t : End(t)' = End(t)
<1>1. Rows' = Rows /\ Threads' = Threads /\ Chunk' = Chunk
  BY DEF Rows, Threads, Chunk
<1>2. \A i : Owner(i)' = Owner(i)
  BY <1>1 DEF Owner
<1>3. \A t : End(t)' = End(t)
  BY <1>1 DEF End
<1> QED
  BY <1>1, <1>2, <1>3

\* Where the thread and the row are after the draw, and that the others stay.
OthersStay(b, t, i) ==
  /\ DOMAIN points' = Constructions
  /\ \A c \in Constructions : IsOn(Rows, points'[c])
  /\ \A c \in Constructions, r \in Rows : c # b \/ r # i => points'[c][r] = points[c][r]
  /\ at' \in [Constructions -> [Threads -> [i : Nat, j : Nat, counter : Nat]]]
  /\ \A c \in Constructions, u \in Threads : c # b \/ u # t => at'[c][u] = at[c][u]

WentOn(i, w, row, before, after, here, there) ==
  /\ after = IF ~Accepts(w, lpn.k) THEN before
             ELSE IF Len(row) = lpn.l THEN InOrder(row) ELSE row
  /\ there = IF ~Accepts(w, lpn.k) THEN [here EXCEPT !.counter = @ + 1]
             ELSE IF Len(row) = lpn.l THEN [i |-> i + 1, j |-> 0, counter |-> 0]
             ELSE [here EXCEPT !.j = @ + 1, !.counter = 0]

LEMMA DrawnHere ==
  ASSUME Shape, lpn' = lpn, NEW b \in Constructions, NEW t \in Threads,
         NEW i, i = at[b][t].i, i \in Rows, NEW w, Drawn(b, t, w)
  PROVE  /\ OthersStay(b, t, i)
         /\ WentOn(i, w, WithPoint(lpn, points[b][i], w), points[b][i], points'[b][i], at[b][t], at'[b][t])
<1>0. PICK row : row = WithPoint(lpn, points[b][i], w)
  OBVIOUS
<1>1. /\ DOMAIN points = Constructions
      /\ \A c \in Constructions : DOMAIN points[c] = Rows /\ IsOn(Rows, points[c])
      /\ at \in [Constructions -> [Threads -> [i : Nat, j : Nat, counter : Nat]]]
  BY DEF Shape, IsOn
<1>2. PICK here \in [i : Nat, j : Nat, counter : Nat] : here = at[b][t] /\ i \in Nat
  BY <1>1
<1>3. CASE ~Accepts(w, lpn.k)
  <2>1. at' = [at EXCEPT ![b][t].counter = @ + 1] /\ points' = points
    BY <1>3 DEF Drawn
  <2>2. at' = [at EXCEPT ![b] = [at[b] EXCEPT ![t] = [here EXCEPT !.counter = @ + 1]]]
    BY <1>2, <2>1
  <2>3. [here EXCEPT !.counter = @ + 1] \in [i : Nat, j : Nat, counter : Nat]
    OBVIOUS
  <2> QED
    BY <1>0, <1>1, <1>2, <1>3, <2>1, <2>2, <2>3 DEF OthersStay, WentOn
<1>4. CASE Accepts(w, lpn.k) /\ Len(row) = lpn.l
  <2>1. /\ points' = [points EXCEPT ![b][i] = InOrder(row)]
        /\ at' = [at EXCEPT ![b][t] = [i |-> i + 1, j |-> 0, counter |-> 0]]
    BY <1>0, <1>4 DEF Drawn
  <2>2. [i |-> i + 1, j |-> 0, counter |-> 0] \in [i : Nat, j : Nat, counter : Nat]
    BY <1>2
  <2>3. ASSUME NEW c \in Constructions PROVE IsOn(Rows, points'[c])
    <3>1. points'[c] = IF c = b THEN [points[b] EXCEPT ![i] = InOrder(row)] ELSE points[c]
      BY <1>1, <2>1
    <3>2. IsOn(Rows, [points[b] EXCEPT ![i] = InOrder(row)])
      BY <1>1, ExceptOn
    <3> QED
      BY <1>1, <3>1, <3>2
  <2> QED
    BY <1>0, <1>1, <1>2, <1>4, <2>1, <2>2, <2>3 DEF OthersStay, WentOn
<1>5. CASE Accepts(w, lpn.k) /\ Len(row) # lpn.l
  <2>1. /\ points' = [points EXCEPT ![b][i] = row]
        /\ at' = [at EXCEPT ![b][t] = [here EXCEPT !.j = @ + 1, !.counter = 0]]
    BY <1>0, <1>2, <1>5 DEF Drawn
  <2>2. [here EXCEPT !.j = @ + 1, !.counter = 0] \in [i : Nat, j : Nat, counter : Nat]
    <3>1. PICK d \in Nat : d = here.j + 1
      OBVIOUS
    <3>2. PICK m \in [i : Nat, j : Nat, counter : Nat] : m = [here EXCEPT !.j = d]
      OBVIOUS
    <3>3. [m EXCEPT !.counter = 0] \in [i : Nat, j : Nat, counter : Nat]
      OBVIOUS
    <3>4. [here EXCEPT !.j = @ + 1, !.counter = 0] = [m EXCEPT !.counter = 0]
      BY <3>1, <3>2
    <3> QED
      BY <3>3, <3>4
  <2>3. ASSUME NEW c \in Constructions PROVE IsOn(Rows, points'[c])
    <3>1. points'[c] = IF c = b THEN [points[b] EXCEPT ![i] = row] ELSE points[c]
      BY <1>1, <2>1
    <3>2. IsOn(Rows, [points[b] EXCEPT ![i] = row])
      BY <1>1, ExceptOn
    <3> QED
      BY <1>1, <3>1, <3>2
  <2> QED
    BY <1>0, <1>1, <1>2, <1>5, <2>1, <2>2, <2>3 DEF OthersStay, WentOn
<1> QED
  BY <1>3, <1>4, <1>5

\* The row that the thread is at moves, and no other.
LEMMA DrawMoves ==
  ASSUME Shape, lpn' = lpn, dense' = dense, NEW b \in Constructions, NEW t \in Threads,
         NEW i, i = at[b][t].i, i < End(t), NEW w, Drawn(b, t, w),
         \A x \in DOMAIN aes' : aes'[x] \in Nat
  PROVE  /\ Shape' /\ i \in Rows /\ Owner(i) = t
         /\ Moved(lpn, aes', i, StateOf(b, i), StateOf(b, i)')
         /\ \A c \in Constructions, r \in Rows :
              c # b \/ r # i => StateOf(c, r)' = StateOf(c, r)
         /\ \A c \in Constructions, u \in Threads : c # b => at'[c][u] = at[c][u]
<1>1. i \in Nat /\ t * Chunk <= i /\ at[b][t] \in [i : Nat, j : Nat, counter : Nat]
  BY DEF Shape
<1>2. i \in Rows /\ Owner(i) = t
  BY <1>1, RowOfOwner DEF Shape
<1>3. /\ Rows' = Rows /\ Threads' = Threads /\ Chunk' = Chunk /\ \A r : Owner(r)' = Owner(r)
  BY SameSizes
<1>4. PICK row, here, there : row = WithPoint(lpn, points[b][i], w) /\ here = at[b][t] /\ there = at'[b][t]
  OBVIOUS
<1>5. OthersStay(b, t, i)
  BY <1>2, DrawnHere
<1>6. WentOn(i, w, row, points[b][i], points'[b][i], here, there)
  BY <1>2, <1>4, DrawnHere
<1>7. here \in [i : Nat, j : Nat, counter : Nat] /\ here.i = i
  BY <1>1, <1>4
<1>8. /\ ~Accepts(w, lpn.k) => there.i = i /\ there.j = here.j /\ there.counter = here.counter + 1
      /\ Accepts(w, lpn.k) /\ Len(row) = lpn.l => there.i = i + 1 /\ there.j = 0 /\ there.counter = 0
      /\ Accepts(w, lpn.k) /\ Len(row) # lpn.l =>
           there.i = i /\ there.j = here.j + 1 /\ there.counter = 0
  BY <1>6, <1>7 DEF WentOn
<1>9. there.i = i \/ (there.i = i + 1 /\ there.j = 0 /\ there.counter = 0)
  BY <1>8
<1>10. Shape'
  <2>1. ASSUME NEW c \in Constructions, NEW u \in Threads PROVE u * Chunk <= at'[c][u].i
    <3>1. CASE c = b /\ u = t
      <4>1. PICK a \in Nat : a = t * Chunk
        <5>1. t \in Nat /\ Chunk \in Nat
          BY ChunkIs DEF Shape, Threads
        <5> QED
          BY <5>1
      <4> QED
        BY <1>1, <1>4, <1>9, <3>1, <4>1
    <3>2. CASE c # b \/ u # t
      BY <1>5, <3>2 DEF Shape, OthersStay
    <3> QED
      BY <3>1, <3>2
  <2> QED
    BY <1>3, <1>5, <2>1 DEF Shape, OthersStay, IsOn
<1>11. StateOf(b, i) = [row |-> points[b][i], j |-> here.j, counter |-> here.counter, done |-> 0]
  BY <1>1, <1>2, <1>4, <1>7 DEF StateOf
<1>12. StateOf(b, i)' = [row |-> points'[b][i], j |-> IF there.i = i THEN there.j ELSE 0,
                         counter |-> IF there.i = i THEN there.counter ELSE 0,
                         done |-> IF i < there.i THEN 1 ELSE 0]
  BY <1>2, <1>3, <1>4 DEF StateOf
<1>13. StateOf(b, i)' = After(lpn, StateOf(b, i), w)
  <2>1. CASE ~Accepts(w, lpn.k)
    <3>1. After(lpn, StateOf(b, i), w) = [StateOf(b, i) EXCEPT !.counter = @ + 1]
      BY <2>1 DEF After
    <3>2. /\ points'[b][i] = points[b][i] /\ there.i = i /\ there.j = here.j
          /\ there.counter = here.counter + 1 /\ ~(i < there.i)
      BY <1>1, <1>6, <1>8, <2>1 DEF WentOn
    <3> QED
      BY <1>11, <1>12, <3>1, <3>2
  <2>2. CASE Accepts(w, lpn.k) /\ Len(row) = lpn.l
    <3>1. After(lpn, StateOf(b, i), w) = [row |-> InOrder(row), j |-> 0, counter |-> 0, done |-> 1]
      BY <1>4, <1>11, <2>2 DEF After
    <3>2. points'[b][i] = InOrder(row) /\ there.i # i /\ i < there.i
      BY <1>1, <1>6, <1>8, <2>2 DEF WentOn
    <3> QED
      BY <1>12, <3>1, <3>2
  <2>3. CASE Accepts(w, lpn.k) /\ Len(row) # lpn.l
    <3>1. After(lpn, StateOf(b, i), w)
            = [row |-> row, j |-> here.j + 1, counter |-> 0, done |-> 0]
      BY <1>4, <1>11, <2>3 DEF After
    <3>2. /\ points'[b][i] = row /\ there.i = i /\ there.j = here.j + 1 /\ there.counter = 0
          /\ ~(i < there.i)
      BY <1>1, <1>6, <1>8, <2>3 DEF WentOn
    <3> QED
      BY <1>12, <3>1, <3>2
  <2> QED
    BY <2>1, <2>2, <2>3
<1>14. Moved(lpn, aes', i, StateOf(b, i), StateOf(b, i)')
  <2>1. Asked(i, StateOf(b, i)) = InputBlock(i, here.j, here.counter)
    BY <1>11 DEF Asked
  <2>2. Asked(i, StateOf(b, i)) \in DOMAIN aes' /\ aes'[Asked(i, StateOf(b, i))] = w
    BY <1>4, <2>1 DEF Drawn
  <2>3. StateOf(b, i).done = 0
    BY <1>11
  <2> QED
    BY <1>13, <2>2, <2>3 DEF Moved
<1>15. ASSUME NEW c \in Constructions, NEW r \in Rows, c # b \/ r # i
       PROVE  StateOf(c, r)' = StateOf(c, r)
  <2>1. points'[c][r] = points[c][r]
    BY <1>5, <1>15 DEF OthersStay
  <2>2. StateOf(c, r)' = [row |-> points'[c][r],
                          j |-> IF at'[c][Owner(r)].i = r THEN at'[c][Owner(r)].j ELSE 0,
                          counter |-> IF at'[c][Owner(r)].i = r THEN at'[c][Owner(r)].counter ELSE 0,
                          done |-> IF r < at'[c][Owner(r)].i THEN 1 ELSE 0]
    BY <1>3 DEF StateOf
  <2>3. CASE c # b \/ Owner(r) # t
    <3>1. at'[c][Owner(r)] = at[c][Owner(r)]
      <4>1. Owner(r) \in Threads
        BY OwnerIs DEF Shape
      <4> QED
        BY <1>5, <2>3, <4>1 DEF OthersStay
    <3> QED
      BY <2>1, <2>2, <3>1 DEF StateOf
  <2>4. CASE c = b /\ Owner(r) = t
    <3>1. r # i /\ r \in Nat
      BY <1>15, <2>4 DEF Rows
    <3>2. StateOf(c, r) = [row |-> points[c][r], j |-> 0, counter |-> 0, done |-> IF r < i THEN 1 ELSE 0]
      BY <1>4, <1>7, <2>4, <3>1 DEF StateOf
    <3>3. StateOf(c, r)' = [row |-> points[c][r], j |-> IF there.i = r THEN there.j ELSE 0,
                            counter |-> IF there.i = r THEN there.counter ELSE 0,
                            done |-> IF r < there.i THEN 1 ELSE 0]
      BY <1>4, <2>1, <2>2, <2>4
    <3>4. /\ there.i = r => there.j = 0 /\ there.counter = 0
          /\ r < there.i <=> r < i
      BY <1>1, <1>9, <3>1
    <3> QED
      BY <3>2, <3>3, <3>4
  <2> QED
    BY <2>3, <2>4
<1> QED
  BY <1>2, <1>5, <1>10, <1>14, <1>15 DEF OthersStay

-----------------------------------------------------------------------------
\* Sorting.  An order of the places in which the elements do not descend exists.
Sorts(L, n, p) == \A x \in 1..(n - 1) : L[p[x]] <= L[p[x + 1]]

LEMMA LargestPlace ==
  ASSUME NEW K \in Nat, NEW n \in Nat \ {0}, NEW L \in [1..n -> 0..K]
  PROVE  \E z \in 1..n : \A y \in 1..n : L[y] <= L[z]
<1>1. PICK V : V = {L[y] : y \in 1..n}
  OBVIOUS
<1>2. V \in SUBSET (0..K) /\ V # {}
  <2>1. 1 \in 1..n
    OBVIOUS
  <2> QED
    BY <1>1, <2>1
<1>3. PICK v \in V : \A y \in V : v >= y
  BY <1>2, LargestExists
<1>4. PICK z \in 1..n : v = L[z]
  BY <1>1
<1>5. ASSUME NEW y \in 1..n PROVE L[y] <= L[z]
  <2>1. L[y] \in V /\ L[y] \in 0..K /\ L[z] \in 0..K
    BY <1>1
  <2> QED
    BY <1>3, <1>4, <2>1
<1> QED
  BY <1>5

\* With the largest at the end, the rest is one shorter.
LEMMA SortedWithLargest ==
  ASSUME NEW K \in Nat, NEW m \in Nat, NEW L \in [1..(m + 1) -> 0..K],
         NEW z \in 1..(m + 1), \A y \in 1..(m + 1) : L[y] <= L[z],
         NEW r, r = [y \in 1..m |-> L[IF y = z THEN m + 1 ELSE y]],
         NEW q \in Injection(1..m, 1..m), Sorts(r, m, q)
  PROVE  \E p \in Injection(1..(m + 1), 1..(m + 1)) : Sorts(L, m + 1, p)
<1>1. /\ q \in [1..m -> 1..m]
      /\ \A x, y \in 1..m : q[x] = q[y] => x = y
  BY DEF Injection, IsInjective
<1>2. PICK u : u = [y \in 1..m |-> IF y = z THEN m + 1 ELSE y]
  OBVIOUS
<1>3. /\ \A y \in 1..m : u[y] \in 1..(m + 1) /\ u[y] # z /\ r[y] = L[u[y]]
      /\ \A x, y \in 1..m : u[x] = u[y] => x = y
  BY <1>2
<1>4. PICK p : p = [x \in 1..(m + 1) |-> IF x = m + 1 THEN z ELSE u[q[x]]]
  OBVIOUS
<1>5. p[m + 1] = z /\ \A x \in 1..m : p[x] = u[q[x]]
  <2>1. m + 1 \in 1..(m + 1) /\ \A x \in 1..m : x \in 1..(m + 1) /\ x # m + 1
    OBVIOUS
  <2> QED
    BY <1>4, <2>1
<1>6. ASSUME NEW x \in 1..m
      PROVE  q[x] \in 1..m /\ p[x] \in 1..(m + 1) /\ p[x] # z /\ L[p[x]] = r[q[x]]
  <2>1. PICK y \in 1..m : y = q[x]
    BY <1>1
  <2>2. p[x] = u[y]
    BY <1>5, <2>1
  <2> QED
    BY <1>3, <2>1, <2>2
<1>7. p \in Injection(1..(m + 1), 1..(m + 1))
  <2>1. \A x \in 1..(m + 1) : x = m + 1 \/ x \in 1..m
    OBVIOUS
  <2>2. p \in [1..(m + 1) -> 1..(m + 1)]
    BY <1>4, <1>5, <1>6, <2>1
  <2>3. ASSUME NEW x \in 1..m, NEW y \in 1..m, p[x] = p[y] PROVE x = y
    <3>1. PICK v, w \in 1..m : v = q[x] /\ w = q[y]
      BY <1>6
    <3>2. u[v] = u[w]
      BY <1>5, <2>3, <3>1
    <3>3. v = w
      BY <1>3, <3>2
    <3> QED
      BY <1>1, <3>1, <3>3
  <2>4. \A x, y \in 1..(m + 1) : p[x] = p[y] => x = y
    BY <1>5, <1>6, <2>1, <2>3
  <2> QED
    BY <2>2, <2>4 DEF Injection, IsInjective
<1>8. ASSUME NEW x \in 1..(m + 1 - 1) PROVE L[p[x]] <= L[p[x + 1]]
  <2>1. x \in 1..m /\ (x + 1 = m + 1 \/ (x \in 1..(m - 1) /\ x + 1 \in 1..m))
    OBVIOUS
  <2>2. CASE x + 1 = m + 1
    BY <1>5, <1>6, <2>1, <2>2
  <2>3. CASE x \in 1..(m - 1) /\ x + 1 \in 1..m
    <3>1. r[q[x]] <= r[q[x + 1]]
      BY <2>3 DEF Sorts
    <3> QED
      BY <1>6, <2>1, <2>3, <3>1
  <2> QED
    BY <2>1, <2>2, <2>3
<1> QED
  BY <1>7, <1>8 DEF Sorts

LEMMA OrderExists ==
  ASSUME NEW K \in Nat, NEW n \in Nat, NEW L \in [1..n -> 0..K]
  PROVE  \E p \in Injection(1..n, 1..n) : Sorts(L, n, p)
<1> DEFINE S == {m \in Nat : \A r \in [1..m -> 0..K] : \E p \in Injection(1..m, 1..m) : Sorts(r, m, p)}
<1>1. 0 \in S
  <2> SUFFICES ASSUME NEW r \in [1..0 -> 0..K]
               PROVE  \E p \in Injection(1..0, 1..0) : Sorts(r, 0, p)
    OBVIOUS
  <2>1. PICK p : p = [x \in 1..0 |-> x]
    OBVIOUS
  <2>2. p \in Injection(1..0, 1..0)
    BY <2>1 DEF Injection, IsInjective
  <2>3. Sorts(r, 0, p)
    BY DEF Sorts
  <2> QED
    BY <2>2, <2>3
<1>2. ASSUME NEW m \in Nat, m \in S PROVE m + 1 \in S
  <2> SUFFICES ASSUME NEW r \in [1..(m + 1) -> 0..K]
               PROVE  \E p \in Injection(1..(m + 1), 1..(m + 1)) : Sorts(r, m + 1, p)
    OBVIOUS
  <2>1. PICK z \in 1..(m + 1) : \A y \in 1..(m + 1) : r[y] <= r[z]
    <3>1. m + 1 \in Nat \ {0}
      OBVIOUS
    <3> QED
      BY <3>1, LargestPlace
  <2>2. PICK t : t = [y \in 1..m |-> r[IF y = z THEN m + 1 ELSE y]]
    OBVIOUS
  <2>3. t \in [1..m -> 0..K]
    <3>1. ASSUME NEW y \in 1..m PROVE r[IF y = z THEN m + 1 ELSE y] \in 0..K
      <4>1. (IF y = z THEN m + 1 ELSE y) \in 1..(m + 1)
        OBVIOUS
      <4> QED
        BY <4>1
    <3> QED
      BY <2>2, <3>1
  <2>4. PICK q \in Injection(1..m, 1..m) : Sorts(t, m, q)
    BY <1>2, <2>3
  <2> QED
    BY <2>1, <2>2, <2>4, SortedWithLargest
<1> HIDE DEF S
<1>3. Nat \subseteq S
  BY <1>1, <1>2, SetInduction
<1>4. n \in S
  BY <1>3
<1> QED
  BY <1>4 DEF S

\* Rows: of columns that differ, fewer than l of them, or l in ascending order.
Columns == 0..(lpn.k - 1)
Unfinished(row) == row \in Seq(Columns) /\ Len(row) < lpn.l /\ \A x, y \in 1..Len(row) : row[x] = row[y] => x = y
Finished(row) ==
  row \in Seq(Columns) /\ Len(row) = lpn.l /\ \A x \in 1..(lpn.l - 1) : row[x] < row[x + 1]

LEMMA SortFinishes ==
  ASSUME lpn \in LpnChoices, NEW row \in Seq(Columns), Len(row) = lpn.l,
         \A x, y \in 1..Len(row) : row[x] = row[y] => x = y
  PROVE  Finished(InOrder(row))
<1>1. PICK n, K \in Nat : n = lpn.l /\ K = lpn.k - 1 /\ Columns = 0..K
  BY SizesAre DEF Columns
<1>2. row \in [1..n -> 0..K] /\ DOMAIN row = 1..n
  BY <1>1, LenProperties
<1>3. Len(row) = n
  BY <1>1
<1> DEFINE Sorting(p) == \A x \in 1..(Len(row) - 1) : row[p[x]] <= row[p[x + 1]]
           order == CHOOSE p \in Injection(DOMAIN row, DOMAIN row) : Sorting(p)
<1>4. order \in Injection(1..n, 1..n) /\ \A x \in 1..(n - 1) : row[order[x]] <= row[order[x + 1]]
  <2>1. \E p \in Injection(1..n, 1..n) : \A x \in 1..(n - 1) : row[p[x]] <= row[p[x + 1]]
    BY <1>2, OrderExists DEF Sorts
  <2>2. \E p \in Injection(DOMAIN row, DOMAIN row) : Sorting(p)
    BY <1>2, <1>3, <2>1
  <2> HIDE DEF Sorting
  <2>3. order \in Injection(DOMAIN row, DOMAIN row) /\ Sorting(order)
    BY <2>2
  <2> HIDE DEF order
  <2>4. \A x \in 1..(n - 1) : row[order[x]] <= row[order[x + 1]]
    BY <1>3, <2>3 DEF Sorting
  <2> QED
    BY <1>2, <2>3, <2>4
<1>a. InOrder(row) = [x \in DOMAIN row |-> row[order[x]]]
  BY DEF InOrder
<1> HIDE DEF order
<1>5. order \in [1..n -> 1..n] /\ \A x, y \in 1..n : order[x] = order[y] => x = y
  BY <1>4 DEF Injection, IsInjective
<1>6. InOrder(row) = [x \in 1..n |-> row[order[x]]]
  <2>1. DOMAIN row = 1..n
    BY <1>2
  <2> QED
    BY Zenon, <1>a, <2>1
<1>7. InOrder(row) \in [1..n -> 0..K]
  <2>1. \A x \in 1..n : row[order[x]] \in 0..K
    BY <1>2, <1>5
  <2> QED
    BY <1>6, <2>1
<1>8. InOrder(row) \in Seq(Columns) /\ Len(InOrder(row)) = n
  <2>1. PICK g \in [1..n -> 0..K] : g = InOrder(row)
    BY <1>7
  <2>2. g \in Seq(0..K) /\ Len(g) = n
    OBVIOUS
  <2> QED
    BY <1>1, <2>1, <2>2
<1>9. ASSUME NEW x \in 1..(n - 1) PROVE InOrder(row)[x] < InOrder(row)[x + 1]
  <2>1. x \in 1..n /\ x + 1 \in 1..n /\ x # x + 1
    OBVIOUS
  <2>2. PICK v, w \in 1..n : v = order[x] /\ w = order[x + 1] /\ v # w
    <3>1. order[x] \in 1..n /\ order[x + 1] \in 1..n
      BY <1>5, <2>1
    <3>2. order[x] # order[x + 1]
      BY <1>5, <2>1
    <3> QED
      BY <3>1, <3>2
  <2>3. row[v] \in 0..K /\ row[w] \in 0..K
    BY <1>2, <2>2
  <2>4. row[v] # row[w]
    BY <1>1, <2>2
  <2>5. row[v] <= row[w]
    BY <1>4, <2>2
  <2>6. row[v] < row[w]
    BY <2>3, <2>4, <2>5
  <2>7. InOrder(row)[x] = row[v] /\ InOrder(row)[x + 1] = row[w]
    BY <1>6, <2>1, <2>2
  <2> QED
    BY <2>6, <2>7
<1> QED
  BY <1>1, <1>8, <1>9 DEF Finished

\* A draw keeps the columns different, and does not exceed the row.
LEMMA PointAdded ==
  ASSUME lpn \in LpnChoices, NEW w \in Nat, NEW row, Unfinished(row),
         NEW next, next = WithPoint(lpn, row, w)
  PROVE  /\ next \in Seq(Columns) /\ Len(next) <= lpn.l
         /\ \A x, y \in 1..Len(next) : next[x] = next[y] => x = y
<1>1. PICK k, l \in Nat \ {0} : k = lpn.k /\ l = lpn.l
  BY SizesAre
<1>2. PICK c \in Columns : c = w % lpn.k
  <2>1. w % k \in 0..(k - 1)
    BY <1>1, Divided
  <2> QED
    BY <1>1, <2>1 DEF Columns
<1>3. /\ row \in Seq(Columns) /\ Len(row) \in Nat /\ Len(row) < l
      /\ \A x, y \in 1..Len(row) : row[x] = row[y] => x = y
  BY <1>1, LenProperties DEF Unfinished
<1>4. CASE c \in ToSet(row)
  <2>1. next = row
    BY <1>2, <1>4 DEF WithPoint
  <2>2. Len(row) <= l
    BY <1>1, <1>3
  <2> QED
    BY <1>1, <1>3, <2>1, <2>2
<1>5. CASE c \notin ToSet(row)
  <2>1. next = Append(row, c)
    BY <1>2, <1>5 DEF WithPoint
  <2>2. PICK m \in Nat : m = Len(row)
    BY <1>3
  <2>3. /\ next \in Seq(Columns) /\ Len(next) = m + 1 /\ next[m + 1] = c
        /\ \A x \in 1..m : next[x] = row[x]
    BY <1>3, <2>1, <2>2, AppendProperties
  <2>4. \A x \in 1..m : row[x] # c
    <3>1. DOMAIN row = 1..m
      BY <1>3, <2>2, LenProperties
    <3> QED
      BY <1>5, <3>1 DEF ToSet
  <2>5. \A x \in 1..(m + 1) : x = m + 1 \/ x \in 1..m
    OBVIOUS
  <2>6. \A x, y \in 1..(m + 1) : next[x] = next[y] => x = y
    BY <1>3, <2>2, <2>3, <2>4, <2>5
  <2>7. m + 1 <= l
    BY <1>3, <2>2
  <2> QED
    BY <1>1, <2>3, <2>6, <2>7
<1> QED
  BY <1>4, <1>5

GoodState(g) ==
  /\ g = [row |-> g.row, j |-> g.j, counter |-> g.counter, done |-> g.done]
  /\ (g.done = 0 /\ Unfinished(g.row)) \/ (g.done = 1 /\ Finished(g.row))

LEMMA AfterIsGood ==
  ASSUME lpn \in LpnChoices, NEW w \in Nat, NEW g, GoodState(g), g.done = 0
  PROVE  GoodState(After(lpn, g, w))
<1>1. Unfinished(g.row) /\ g = [row |-> g.row, j |-> g.j, counter |-> g.counter, done |-> 0]
  BY DEF GoodState
<1>2. PICK next : next = WithPoint(lpn, g.row, w)
  OBVIOUS
<1>3. /\ next \in Seq(Columns) /\ Len(next) <= lpn.l
      /\ \A x, y \in 1..Len(next) : next[x] = next[y] => x = y
  BY <1>1, <1>2, PointAdded
<1>4. CASE ~Accepts(w, lpn.k)
  <2>1. After(lpn, g, w) = [g EXCEPT !.counter = @ + 1]
    BY <1>4 DEF After
  <2>2. [g EXCEPT !.counter = @ + 1]
          = [row |-> g.row, j |-> g.j, counter |-> g.counter + 1, done |-> 0]
    BY <1>1
  <2> QED
    BY <1>1, <2>1, <2>2 DEF GoodState
<1>5. CASE Accepts(w, lpn.k) /\ Len(next) = lpn.l
  <2>1. After(lpn, g, w) = [row |-> InOrder(next), j |-> 0, counter |-> 0, done |-> 1]
    BY <1>2, <1>5 DEF After
  <2>2. Finished(InOrder(next))
    BY <1>3, <1>5, SortFinishes
  <2> QED
    BY <2>1, <2>2 DEF GoodState
<1>6. CASE Accepts(w, lpn.k) /\ Len(next) # lpn.l
  <2>1. After(lpn, g, w) = [row |-> next, j |-> g.j + 1, counter |-> 0, done |-> 0]
    BY <1>2, <1>6 DEF After
  <2>2. Unfinished(next)
    <3>1. Len(next) \in Nat /\ lpn.l \in Nat
      BY <1>3, SizesAre, LenProperties
    <3>2. Len(next) < lpn.l
      BY <1>3, <1>6, <3>1
    <3> QED
      BY <1>3, <3>2 DEF Unfinished
  <2> QED
    BY <2>1, <2>2 DEF GoodState
<1> QED
  BY <1>4, <1>5, <1>6

-----------------------------------------------------------------------------
\* The invariant: what a construction has of a row comes from a trace of AES as
\* far as it is drawn; rows are good; a dense matrix follows the sparse one.
Traced(b, i) == Reaches(lpn, aes, i, StateOf(b, i))

DenseRows == [i \in 0..(lpn.k - 1) |-> BitStringPRF(i, lpn.N)]

LpnInv ==
  /\ Shape
  /\ \A b \in Constructions, i \in Rows : Traced(b, i)
  /\ \A b \in Constructions, i \in Rows : GoodState(StateOf(b, i))
  /\ \A b \in Constructions : dense[b] = <<>> \/ (SparseDone(b) /\ dense[b] = DenseRows)

LEMMA LpnInvInit == LpnInit => LpnInv
<1> SUFFICES ASSUME LpnInit PROVE LpnInv
  OBVIOUS
<1>1. /\ lpn \in LpnChoices /\ aes = <<>>
      /\ at = [b \in Constructions |-> [t \in Threads |-> [i |-> t * Chunk, j |-> 0, counter |-> 0]]]
      /\ points = [b \in Constructions |-> [i \in Rows |-> <<>>]]
      /\ dense = [b \in Constructions |-> <<>>]
  BY DEF LpnInit
<1>2. ASSUME NEW t \in Threads PROVE t * Chunk \in Nat
  <2>1. t \in Nat /\ Chunk \in Nat
    BY <1>1, ChunkIs DEF Threads
  <2> QED
    BY <2>1
<1>3. Shape
  <2>1. \A x \in DOMAIN aes : aes[x] \in Nat
    BY <1>1
  <2>2. at \in [Constructions -> [Threads -> [i : Nat, j : Nat, counter : Nat]]]
    BY <1>1, <1>2
  <2>3. ASSUME NEW b \in Constructions, NEW t \in Threads PROVE t * Chunk <= at[b][t].i
    BY <1>1, <1>2
  <2> QED
    BY <1>1, <2>1, <2>2, <2>3 DEF Shape, IsOn
<1>4. ASSUME NEW b \in Constructions, NEW i \in Rows
      PROVE  StateOf(b, i) = Fresh
  <2>1. Owner(i) \in Threads /\ Owner(i) * Chunk <= i /\ i \in Nat
    BY <1>1, OwnerIs, SizesAre DEF Rows
  <2>2. PICK a \in Nat : a = Owner(i) * Chunk /\ a <= i
    BY <1>2, <2>1
  <2>3. at[b][Owner(i)] = [i |-> a, j |-> 0, counter |-> 0]
    BY <1>1, <2>1, <2>2
  <2>4. points[b][i] = <<>>
    BY <1>1
  <2> QED
    BY <2>1, <2>2, <2>3, <2>4 DEF StateOf, Fresh
<1>5. ASSUME NEW b \in Constructions, NEW i \in Rows PROVE Traced(b, i)
  <2>1. PICK G : G = [d \in 0..0 |-> Fresh]
    OBVIOUS
  <2>2. 0 \in Nat /\ G[0] = Fresh /\ 0..(0 - 1) = {}
    BY <2>1
  <2>3. Trace(lpn, aes, i, 0, G)
    BY <2>2 DEF Trace
  <2> QED
    BY <1>4, <2>2, <2>3 DEF Traced, Reaches
<1>6. GoodState(Fresh)
  <2>1. Unfinished(<<>>)
    <3>1. lpn.l \in Nat \ {0}
      BY <1>1, SizesAre
    <3> QED
      BY <3>1 DEF Unfinished
  <2> QED
    BY <2>1 DEF GoodState, Fresh
<1> QED
  BY <1>1, <1>3, <1>4, <1>5, <1>6 DEF LpnInv

LEMMA DrawKeepsInv ==
  ASSUME LpnInv, NEW b \in Constructions, NEW t \in Threads, DrawPoint(b, t)
  PROVE  LpnInv'
<1>1. /\ Shape /\ lpn' = lpn /\ dense' = dense
      /\ \A c \in Constructions, r \in Rows : Traced(c, r)
      /\ \A c \in Constructions, r \in Rows : GoodState(StateOf(c, r))
  BY DEF LpnInv, DrawPoint
<1>2. PICK i : i = at[b][t].i /\ i < End(t)
  BY DEF DrawPoint
<1>3. PICK w : Drawn(b, t, w) /\ \A x \in DOMAIN aes' : aes'[x] \in Nat
  BY <1>1, DrawIs
<1>4. /\ Shape' /\ i \in Rows
      /\ Moved(lpn, aes', i, StateOf(b, i), StateOf(b, i)')
      /\ \A c \in Constructions, r \in Rows : c # b \/ r # i => StateOf(c, r)' = StateOf(c, r)
      /\ \A c \in Constructions, u \in Threads : c # b => at'[c][u] = at[c][u]
  BY <1>1, <1>2, <1>3, DrawMoves
<1>5. Rows' = Rows /\ Threads' = Threads /\ \A u : End(u)' = End(u)
  BY <1>1, SameSizes
<1>6. Extends(aes, aes')
  BY <1>3 DEF Drawn
<1>7. ASSUME NEW c \in Constructions, NEW r \in Rows PROVE Traced(c, r)'
  <2>1. PICK P, f, g, h : P = lpn /\ f = aes' /\ g = StateOf(c, r) /\ h = StateOf(c, r)'
    OBVIOUS
  <2>2. Reaches(P, aes, r, g)
    BY <1>1, <2>1 DEF Traced
  <2>3. Reaches(P, f, r, g)
    BY <1>6, <2>1, <2>2, TraceKept
  <2>4. CASE c = b /\ r = i
    <3>1. Moved(P, f, r, g, h)
      BY <1>4, <2>1, <2>4
    <3>2. Reaches(P, f, r, h)
      BY <2>3, <3>1, TraceGrows
    <3> QED
      BY <1>1, <2>1, <3>2 DEF Traced
  <2>5. CASE c # b \/ r # i
    <3>1. g = h
      BY <1>4, <2>1, <2>5
    <3> QED
      BY <1>1, <2>1, <2>3, <3>1 DEF Traced
  <2> QED
    BY <2>4, <2>5
<1>8. ASSUME NEW c \in Constructions, NEW r \in Rows PROVE GoodState(StateOf(c, r))'
  <2>1. CASE c = b /\ r = i
    <3>1. PICK v : /\ v \in Nat /\ StateOf(c, r).done = 0
                   /\ StateOf(c, r)' = After(lpn, StateOf(c, r), v)
      BY <1>3, <1>4, <2>1 DEF Moved
    <3>2. GoodState(After(lpn, StateOf(c, r), v))
      BY <1>1, <3>1, AfterIsGood DEF Shape
    <3> QED
      BY <1>1, <3>1, <3>2 DEF GoodState, Unfinished, Finished, Columns
  <2>2. CASE c # b \/ r # i
    <3>1. StateOf(c, r)' = StateOf(c, r) /\ GoodState(StateOf(c, r))
      BY <1>1, <1>4, <2>2
    <3> QED
      BY <1>1, <3>1 DEF GoodState, Unfinished, Finished, Columns
  <2> QED
    BY <2>1, <2>2
<1>9. ASSUME NEW c \in Constructions, dense'[c] # <<>>
      PROVE  SparseDone(c)' /\ dense'[c] = DenseRows'
  <2>1. SparseDone(c) /\ dense[c] = DenseRows
    BY <1>1, <1>9 DEF LpnInv
  <2>2. c # b
    <3> SUFFICES ASSUME c = b PROVE FALSE
      OBVIOUS
    <3>1. i >= End(t)
      BY <1>2, <2>1 DEF SparseDone
    <3>2. i \in Nat /\ End(t) \in Int
      <4>1. PICK h, n, q \in Nat : h = lpn.threads /\ n = lpn.n /\ q = Chunk
        BY <1>1, SizesAre, ChunkIs DEF Shape
      <4>2. t \in Nat /\ (t + 1) * q \in Int /\ n \in Int
        BY <4>1 DEF Threads
      <4>3. i \in Nat
        BY <1>4, <4>1 DEF Rows
      <4> QED
        BY <4>1, <4>2, <4>3 DEF End, SmallerOf
    <3> QED
      BY <1>2, <3>1, <3>2
  <2>3. SparseDone(c)'
    BY <1>4, <1>5, <2>1, <2>2 DEF SparseDone
  <2>4. DenseRows' = DenseRows
    BY <1>1 DEF DenseRows
  <2> QED
    BY <1>1, <2>1, <2>3, <2>4
<1> QED
  BY <1>4, <1>5, <1>7, <1>8, <1>9 DEF LpnInv

LEMMA LpnInvStep == LpnInv /\ [LpnNext]_lpnVars => LpnInv'
<1> SUFFICES ASSUME LpnInv, [LpnNext]_lpnVars PROVE LpnInv'
  OBVIOUS
<1>1. ASSUME NEW b \in Constructions, NEW t \in Threads, DrawPoint(b, t) PROVE LpnInv'
  BY <1>1, DrawKeepsInv
<1>2. ASSUME lpn' = lpn, aes' = aes, at' = at, points' = points, DOMAIN dense' = Constructions,
             \A c \in Constructions : dense'[c] = dense[c] \/ (SparseDone(c) /\ dense'[c] = DenseRows)
      PROVE  LpnInv'
  <2>1. /\ Rows' = Rows /\ Threads' = Threads /\ Chunk' = Chunk
        /\ \A i : Owner(i)' = Owner(i) /\ \A t : End(t)' = End(t)
    BY <1>2, SameSizes
  <2>2. Shape'
    BY <1>2, <2>1 DEF LpnInv, Shape, IsOn
  <2>3. ASSUME NEW c \in Constructions, NEW r \in Rows
        PROVE  StateOf(c, r)' = StateOf(c, r)
    BY <1>2, <2>1 DEF StateOf
  <2>4. ASSUME NEW c \in Constructions, NEW r \in Rows
        PROVE  Traced(c, r)'
    <3>1. Reaches(lpn, aes, r, StateOf(c, r))
      BY DEF LpnInv, Traced
    <3> QED
      BY <1>2, <2>3, <3>1 DEF Traced
  <2>5. ASSUME NEW c \in Constructions, NEW r \in Rows
        PROVE  GoodState(StateOf(c, r))'
    <3>1. GoodState(StateOf(c, r))
      BY DEF LpnInv
    <3> QED
      BY <1>2, <2>3, <3>1 DEF GoodState, Unfinished, Finished, Columns
  <2>6. ASSUME NEW c \in Constructions PROVE SparseDone(c)' = SparseDone(c)
    BY <1>2, <2>1 DEF SparseDone
  <2>7. DenseRows' = DenseRows
    BY <1>2 DEF DenseRows
  <2> QED
    BY <1>2, <2>1, <2>2, <2>4, <2>5, <2>6, <2>7 DEF LpnInv
<1>3. ASSUME NEW b \in Constructions, FillDense(b) PROVE LpnInv'
  <2>1. /\ lpn' = lpn /\ aes' = aes /\ at' = at /\ points' = points /\ SparseDone(b)
        /\ dense' = [dense EXCEPT ![b] = DenseRows]
    BY <1>3 DEF FillDense, DenseRows
  <2>2. DOMAIN dense = Constructions
    BY DEF LpnInv, Shape
  <2> QED
    BY <1>2, <2>1, <2>2
<1>4. CASE UNCHANGED lpnVars
  <2>1. lpn' = lpn /\ aes' = aes /\ at' = at /\ points' = points /\ dense' = dense
    BY <1>4 DEF lpnVars
  <2>2. DOMAIN dense = Constructions
    BY DEF LpnInv, Shape
  <2> QED
    BY <1>2, <2>1, <2>2
<1> QED
  BY <1>1, <1>3, <1>4 DEF LpnNext, Proceed, LpnStop

LEMMA LpnInductive == LpnSpec => []LpnInv
<1> QED
  BY LpnInvInit, LpnInvStep, PTL DEF LpnSpec

\* Rows that are made have their l columns, and are the same wherever they are made.
LEMMA RowIsDone ==
  ASSUME LpnInv, NEW b \in Constructions, NEW i \in Rows, Len(points[b][i]) = lpn.l
  PROVE  StateOf(b, i).done = 1
<1>1. GoodState(StateOf(b, i)) /\ StateOf(b, i).row = points[b][i]
  BY DEF LpnInv, StateOf
<1>2. lpn.l \in Nat
  BY SizesAre DEF LpnInv, Shape
<1>3. ~(Len(points[b][i]) < lpn.l)
  BY <1>2
<1> QED
  BY <1>1, <1>3 DEF GoodState, Unfinished

LEMMA SameRows ==
  ASSUME LpnInv, NEW b \in Constructions, NEW c \in Constructions, NEW i \in Rows,
         StateOf(b, i).done = 1, StateOf(c, i).done = 1
  PROVE  points[b][i] = points[c][i]
<1>1. PICK m, G : m \in Nat /\ Trace(lpn, aes, i, m, G) /\ G[m] = StateOf(b, i)
  BY DEF LpnInv, Traced, Reaches
<1>2. PICK p, F : p \in Nat /\ Trace(lpn, aes, i, p, F) /\ F[p] = StateOf(c, i)
  BY DEF LpnInv, Traced, Reaches
<1>3. G[m] = F[p]
  BY <1>1, <1>2, SameEnd
<1> QED
  BY <1>1, <1>2, <1>3 DEF StateOf

LEMMA MadeIsDone ==
  ASSUME LpnInv, NEW b \in Constructions, Made(b)
  PROVE  dense[b] = DenseRows /\ \A i \in Rows : StateOf(b, i).done = 1
<1>1. SparseDone(b) /\ dense[b] = DenseRows
  BY DEF LpnInv, Made
<1>2. ASSUME NEW i \in Rows PROVE StateOf(b, i).done = 1
  <2>1. Owner(i) \in Threads /\ i < End(Owner(i)) /\ i \in Nat
    BY OwnerIs DEF LpnInv, Shape, Rows
  <2>2. PICK E, a : E = End(Owner(i)) /\ a = at[b][Owner(i)].i /\ a >= E
    BY <1>1, <2>1 DEF SparseDone
  <2>3. a \in Nat /\ E \in Int
    <3>1. at[b][Owner(i)] \in [i : Nat, j : Nat, counter : Nat]
      BY <2>1 DEF LpnInv, Shape
    <3>2. PICK n, q \in Nat : n = lpn.n /\ q = Chunk
      BY SizesAre, ChunkIs DEF LpnInv, Shape
    <3>3. Owner(i) \in Nat
      BY <2>1 DEF Threads
    <3>4. (Owner(i) + 1) * q \in Int
      BY <3>2, <3>3
    <3> QED
      BY <2>2, <3>1, <3>2, <3>4 DEF End, SmallerOf
  <2>4. i < a
    BY <2>1, <2>2, <2>3
  <2> QED
    BY <2>2, <2>4 DEF StateOf
<1> QED
  BY <1>1, <1>2

\* Nothing of the matrices is sent (lpn.cxx:126-164): whatever the sizes, the number
\* of threads and their order, and whatever AES puts out, two constructions from
\* the same keys have no different row, and when both are made they are equal.
THEOREM MatricesAgree == LpnSpec => []SameMatrices
<1>1. ASSUME LpnInv, NEW b \in Constructions, NEW c \in Constructions, NEW i \in Rows,
             Len(points[b][i]) = lpn.l, Len(points[c][i]) = lpn.l
      PROVE  ToSet(points[b][i]) = ToSet(points[c][i])
  BY <1>1, RowIsDone, SameRows
<1>2. ASSUME LpnInv, NEW b \in Constructions, NEW c \in Constructions, Made(b), Made(c)
      PROVE  points[b] = points[c] /\ dense[b] = dense[c]
  <2>1. \A i \in Rows : points[b][i] = points[c][i]
    BY <1>2, MadeIsDone, SameRows
  <2>2. IsOn(Rows, points[b]) /\ IsOn(Rows, points[c])
    BY <1>2 DEF LpnInv, Shape
  <2>3. points[b] = points[c]
    BY <2>1, <2>2 DEF IsOn
  <2> QED
    BY <1>2, <2>3, MadeIsDone
<1>3. LpnInv => SameMatrices
  BY <1>1, <1>2 DEF SameMatrices
<1> QED
  BY <1>3, LpnInductive, PTL

LEMMA RowsAreProper ==
  ASSUME LpnInv, NEW b \in Constructions, Made(b), NEW i \in Rows
  PROVE  Finished(points[b][i]) /\ Known(b, i) \subseteq Columns
<1>1. Finished(points[b][i])
  <2>1. StateOf(b, i).done = 1 /\ StateOf(b, i).row = points[b][i]
    BY MadeIsDone DEF StateOf
  <2> QED
    BY <2>1 DEF LpnInv, GoodState
<1>2. Known(b, i) \subseteq Columns
  <2>1. PICK row : row = points[b][i] /\ row \in Seq(Columns)
    BY <1>1 DEF Finished
  <2>2. \A x \in DOMAIN row : row[x] \in Columns
    BY <2>1
  <2> QED
    BY <2>1, <2>2 DEF Known, ToSet
<1> QED
  BY <1>1, <1>2

\* The sparse matrix is one of l columns in each row (lpn.cxx:131-143): different
\* ones, although the draws repeat, and in ascending order.
THEOREM SparseRowsProper == LpnSpec => []RowsProper
<1>1. LpnInv => RowsProper
  <2> SUFFICES ASSUME LpnInv, NEW b \in Constructions, Made(b), NEW i \in Rows
               PROVE  /\ Len(points[b][i]) = lpn.l
                      /\ \A x \in 1..(lpn.l - 1) : points[b][i][x] < points[b][i][x + 1]
                      /\ Known(b, i) \subseteq 0..(lpn.k - 1)
    BY DEF RowsProper
  <2> QED
    BY RowsAreProper DEF Finished, Columns
<1> QED
  BY <1>1, LpnInductive, PTL

\* A bit of a row of the product B times a vector, and of the same row of A times
\* the product of H and the vector: both count the pairs of a column of the row and
\* a position of the vector where H has a bit that depends on the unknown.
PairsCounted(b, i, z, v, K, h) ==
  /\ z \in XorOver(ProductRow(b, i), v) <=> Odd({c \in v : Odd({r \in K : c \in h[r]})})
  /\ z \in SparseTimes(b, DenseTimes(b, v))[i] <=> Odd({r \in K : Odd({c \in v : c \in h[r]})})

LEMMA ProductBit ==
  ASSUME NEW b, NEW i \in Rows, NEW z,
         NEW v, v \in SUBSET (0..(lpn.N - 1)), IsFiniteSet(v),
         NEW K, K = Known(b, i), IsFiniteSet(K), K \subseteq Columns,
         NEW h, h = [r \in K |-> {c \in v : z \in dense[b][r][c]}]
  PROVE  PairsCounted(b, i, z, v, K, h)
<1>0. \A c \in v : c \in 0..(lpn.N - 1)
  OBVIOUS
<1>1. ASSUME NEW c \in v PROVE z \in ProductRow(b, i)[c] <=> Odd({r \in K : c \in h[r]})
  <2>1. PICK f : f = [r \in 0..(lpn.k - 1) |-> dense[b][r][c]]
    OBVIOUS
  <2>2. ProductRow(b, i)[c] = XorOver(f, K)
    <3>1. c \in 0..(lpn.N - 1)
      BY <1>0
    <3>2. ProductRow(b, i)[c] = XorOver([r \in 0..(lpn.k - 1) |-> dense[b][r][c]], Known(b, i))
      BY <3>1 DEF ProductRow
    <3> QED
      BY Zenon, <2>1, <3>2
  <2>3. Where(f, K, z) = {r \in K : c \in h[r]}
    BY <2>1 DEF Where, Columns
  <2>4. z \in XorOver(f, K) <=> Odd(Where(f, K, z))
    BY XorOverIs
  <2> QED
    BY Zenon, <2>2, <2>3, <2>4
<1>2. ASSUME NEW r \in K PROVE z \in DenseTimes(b, v)[r] <=> Odd({c \in v : c \in h[r]})
  <2>1. DenseTimes(b, v)[r] = XorOver(dense[b][r], v)
    <3>1. r \in 0..(lpn.k - 1)
      BY DEF Columns
    <3> QED
      BY <3>1 DEF DenseTimes
  <2>2. Where(dense[b][r], v, z) = {c \in v : c \in h[r]}
    BY DEF Where
  <2>3. z \in XorOver(dense[b][r], v) <=> Odd(Where(dense[b][r], v, z))
    BY XorOverIs
  <2> QED
    BY Zenon, <2>1, <2>2, <2>3
<1>3. Where(ProductRow(b, i), v, z) = {c \in v : Odd({r \in K : c \in h[r]})}
  BY <1>1 DEF Where
<1>4. Where(DenseTimes(b, v), K, z) = {r \in K : Odd({c \in v : c \in h[r]})}
  BY <1>2 DEF Where
<1>5. SparseTimes(b, DenseTimes(b, v))[i] = XorOver(DenseTimes(b, v), K)
  BY DEF SparseTimes
<1>6. z \in XorOver(ProductRow(b, i), v) <=> Odd(Where(ProductRow(b, i), v, z))
  BY XorOverIs
<1>7. z \in XorOver(DenseTimes(b, v), K) <=> Odd(Where(DenseTimes(b, v), K, z))
  BY XorOverIs
<1> QED
  BY Zenon, <1>3, <1>4, <1>5, <1>6, <1>7 DEF PairsCounted

\* What the outputs rely on (pcg.cxx:217, 287): the one part is a row of the product
\* B times a vector (lpn.cxx:174-185), the other A times what H made of a vector
\* (lpn.cxx:101-112), and the two are the same linear map whatever the sizes and
\* whatever the matrices came out as.
THEOREM ProductsAssociate == LpnSpec => []Associative
<1>1. LpnInv => Associative
  <2> SUFFICES ASSUME LpnInv, NEW b \in Constructions, Made(b), NEW i \in Rows,
                      NEW v, v \in SUBSET (0..(lpn.N - 1))
               PROVE  XorOver(ProductRow(b, i), v) = SparseTimes(b, DenseTimes(b, v))[i]
    BY DEF Associative
  <2>1. PICK K : K = Known(b, i) /\ K \subseteq Columns
    BY RowsAreProper
  <2>2. IsFiniteSet(v) /\ IsFiniteSet(K)
    <3>1. lpn.N \in Nat /\ lpn.k \in Nat
      BY SizesAre DEF LpnInv, Shape
    <3>2. 0 \in Int /\ lpn.N - 1 \in Int /\ lpn.k - 1 \in Int
      BY <3>1
    <3>3. IsFiniteSet(0..(lpn.N - 1)) /\ IsFiniteSet(0..(lpn.k - 1))
      BY <3>2, FS_Interval
    <3>4. K \in SUBSET (0..(lpn.k - 1))
      BY <2>1 DEF Columns
    <3> QED
      BY <3>3, <3>4, FS_Subset
  <2>3. ASSUME NEW z
        PROVE  z \in XorOver(ProductRow(b, i), v) <=> z \in SparseTimes(b, DenseTimes(b, v))[i]
    <3>1. PICK h : h = [r \in K |-> {c \in v : z \in dense[b][r][c]}]
      OBVIOUS
    <3>2. EitherSide(K, v, h)
      BY <2>2, OddBothWays
    <3>3. PairsCounted(b, i, z, v, K, h)
      BY <2>1, <2>2, <3>1, ProductBit
    <3> QED
      BY Zenon, <3>2, <3>3 DEF EitherSide, PairsCounted
  <2>4. \A z : z \in XorOver(ProductRow(b, i), v) <=> z \in SparseTimes(b, DenseTimes(b, v))[i]
    BY <2>3
  <2> QED
    BY <2>4
<1> QED
  BY <1>1, LpnInductive, PTL
=============================================================================
