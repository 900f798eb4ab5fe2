----------------------------- MODULE AheProofs -----------------------------
(***************************************************************************)
(* Two classes that others take for granted.                               *)
(*                                                                         *)
(* Of module Ahe: decryption is correct for every size of the secret,      *)
(* weight of a row, tail of the noise and group that is large enough.  The *)
(* argument is the one the bound of the lookup table in src/ahe/ahe.cxx    *)
(* rests on: each ciphertext stands for its bit with an error within the   *)
(* tail, sums of ciphertexts add the errors up, and what l of them and a   *)
(* mask come to lies inside the table just when the bit is 0.              *)
(*                                                                         *)
(* Of module BitString: for bytes of every width and strings of every      *)
(* length, what is behind the end of a string never shows in a result, and *)
(* strings with nothing there are in the order of their numbers.  A number *)
(* is a sum over the bits, which is cut in two wherever the code cuts.     *)
(***************************************************************************)
EXTENDS Ahe, BitString, Induction

\* The group element that stands for bit b with error e.
Point(b, e) == GroupAdd(IF b = 1 THEN one ELSE 0, Multiple(e))

\* The constants, with the products written out.
LEMMA Sizes ==
  /\ k \in Nat /\ l \in Nat /\ l >= 1 /\ tail \in Nat /\ tail >= 1 /\ half \in Nat
  /\ l * tail \in Nat
  /\ q \in Nat /\ q = 2 * half + 1 /\ one \in Nat /\ one = half + 1
  /\ Radius = l * tail + tail + 1
  /\ half >= 2 * (l * tail + tail + 1)
<1>1. tail * (l + 1) = l * tail + tail
  BY SMT, AheAssumption
<1>2. l * tail \in Nat
  BY SMT, AheAssumption
<1> QED
  BY <1>1, <1>2, AheAssumption DEF q, one, Radius

\* The product bounds of a sum of n + 1 ciphertexts.
LEMMA Products ==
  ASSUME NEW n \in Nat, n < l
  PROVE  /\ n * tail \in Nat
         /\ (n + 1) * tail = n * tail + tail
         /\ n * tail + tail <= l * tail
<1>1. n * tail \in Nat /\ (n + 1) * tail = n * tail + tail
  BY SMT, AheAssumption
<1>2. PICK m \in Nat : l = n + 1 + m
  <2>1. l - (n + 1) \in Nat /\ l = n + 1 + (l - (n + 1))
    BY AheAssumption
  <2> QED
    BY <2>1
<1>3. l * tail = (n + 1) * tail + m * tail /\ m * tail \in Nat
  BY <1>2, SMT, AheAssumption
<1> QED
  BY <1>1, <1>3, AheAssumption

\* Group elements stay in the group.
LEMMA PointInGroup ==
  ASSUME NEW b \in Bit, NEW e \in Int, -half <= e, e < half
  PROVE  Point(b, e) \in Group
BY Sizes DEF Point, Group, GroupAdd, Multiple, Bit

LEMMA AddInGroup ==
  ASSUME NEW v \in Group, NEW w \in Group
  PROVE  GroupAdd(v, w) \in Group
BY Sizes DEF Group, GroupAdd

\* Adding a fresh ciphertext adds the bits, and the errors up to the carry.
LEMMA SumOfPoints ==
  ASSUME NEW b \in Bit, NEW c \in Bit, NEW n \in Nat, n + tail <= l * tail,
         NEW d \in -n..n, NEW e \in -tail..(tail - 1)
  PROVE  \E f \in -(n + tail)..(n + tail) :
           GroupAdd(Point(b, d), Point(c, e)) = Point(BitXor(b, c), f)
<1> DEFINE f == IF b = 1 /\ c = 1 THEN d + e + 1 ELSE d + e
<1>1. f \in -(n + tail)..(n + tail)
  BY Sizes DEF Bit
<1>2. GroupAdd(Point(b, d), Point(c, e)) = Point(BitXor(b, c), f)
  <2>1. CASE b = 0 /\ c = 0
    BY <2>1, Sizes DEF f, Point, GroupAdd, Multiple, BitXor
  <2>2. CASE b = 0 /\ c = 1
    BY <2>2, Sizes DEF f, Point, GroupAdd, Multiple, BitXor
  <2>3. CASE b = 1 /\ c = 0
    BY <2>3, Sizes DEF f, Point, GroupAdd, Multiple, BitXor
  <2>4. CASE b = 1 /\ c = 1
    BY <2>4, Sizes DEF f, Point, GroupAdd, Multiple, BitXor
  <2> QED
    BY <2>1, <2>2, <2>3, <2>4 DEF Bit
<1> QED
  BY <1>1, <1>2

\* Adding a plain bit adds `one` once more.
LEMMA MaskedPoint ==
  ASSUME NEW b \in Bit, NEW d \in -(l * tail)..(l * tail)
  PROVE  /\ \E f \in -(l * tail + 1)..(l * tail + 1) :
              GroupAdd(Point(b, d), one) = Point(BitXor(b, 1), f)
         /\ \E f \in -(l * tail + 1)..(l * tail + 1) : Point(b, d) = Point(BitXor(b, 0), f)
<1>1. d \in -(l * tail + 1)..(l * tail + 1) /\ d + 1 \in -(l * tail + 1)..(l * tail + 1)
  BY Sizes
<1>2. Point(b, d) = Point(BitXor(b, 0), d)
  BY DEF Bit, BitXor, Point
<1>3. CASE b = 0
  <2>1. GroupAdd(Point(b, d), one) = Point(BitXor(b, 1), d)
    BY <1>3, Sizes DEF Bit, Point, GroupAdd, Multiple, BitXor
  <2> QED
    BY <1>1, <1>2, <2>1
<1>4. CASE b = 1
  <2>1. GroupAdd(Point(b, d), one) = Point(BitXor(b, 1), d + 1)
    BY <1>4, Sizes DEF Bit, Point, GroupAdd, Multiple, BitXor
  <2> QED
    BY <1>1, <1>2, <2>1
<1> QED
  BY <1>3, <1>4 DEF Bit

\* The lookup table holds the elements that stand for 0, and none that stands for 1.
LEMMA TableDecides ==
  ASSUME NEW b \in Bit, NEW e \in -(l * tail + 1)..(l * tail + 1)
  PROVE  Point(b, e) \in lookup <=> b = 0
BY Sizes DEF Bit, Point, GroupAdd, Multiple, lookup
-----------------------------------------------------------------------------
\* A ciphertext of the i-th bit as encrypt makes it.
FreshAt(c, i) ==
  /\ c.first = Hash(i) /\ c.second.r = Hash(i)
  /\ \E e \in -tail..(tail - 1) : c.second.v = Point(plain[i], e)

\* The inductive invariant: every ciphertext is fresh or a sum of fresh ones,
\* its two hash vectors agree, and its error is bounded by the terms it has.
Fresh == phase # "prepare" => \A i \in Index : FreshAt(enc[i], i)
Arrived == phase \notin {"prepare", "encrypted"} => \A i \in Index : FreshAt(theirs[i], i)
Adding ==
  phase = "adding" =>
    added \in 1..l /\ ctx.first = ctx.second.r /\ Near(ctx.second.v, sum, added * tail)
Masked ==
  phase = "masked" =>
    ctx.first = ctx.second.r /\ Near(ctx.second.v, sum, l * tail + 1)
Answered ==
  phase = "returned" =>
    resp.first = resp.second.r /\ Near(resp.second.v, sum, l * tail + 1)

IInv == TypeOK /\ Fresh /\ Arrived /\ Adding /\ Masked /\ Answered /\ Decrypts

LEMMA Typing ==
  /\ \A i \in Index : Hash(i) \in Hashes
  /\ \A a, b \in Hashes : HashAdd(a, b) \in Hashes
  /\ \A c, d \in Ciphertext : add(c, d) \in Ciphertext
  /\ \A c \in Ciphertext, b \in Bit : addPlain(c, b) \in Ciphertext
  /\ \A i \in Index, b \in Bit, e \in -tail..(tail - 1) : encryption(i, b, e) \in Ciphertext
<1>1. \A i \in Index : Hash(i) \in Hashes
  BY DEF Hash, Hashes
<1>2. \A a, b \in Hashes : HashAdd(a, b) \in Hashes
  BY DEF HashAdd, Hashes
<1>3. \A c, d \in Ciphertext : add(c, d) \in Ciphertext
  BY <1>2, AddInGroup DEF add, Ciphertext
<1>4. \A c \in Ciphertext, b \in Bit : addPlain(c, b) \in Ciphertext
  <2>1. one \in Group
    BY Sizes DEF Group
  <2> QED
    BY <2>1, AddInGroup DEF addPlain, Ciphertext
<1>5. \A i \in Index, b \in Bit, e \in -tail..(tail - 1) : encryption(i, b, e) \in Ciphertext
  <2> TAKE i \in Index, b \in Bit, e \in -tail..(tail - 1)
  <2>1. e \in Int /\ -half <= e /\ e < half
    BY Sizes
  <2>2. Point(b, e) \in Group
    BY <2>1, PointInGroup
  <2> QED
    BY <2>2, <1>1 DEF encryption, Ciphertext, Point
<1> QED
  BY <1>1, <1>2, <1>3, <1>4, <1>5

LEMMA Initially == Init => IInv
BY Sizes DEF Init, IInv, TypeOK, Fresh, Arrived, Adding, Masked, Answered, Decrypts, Bit

\* The noise of a bit of either value is within the tail.
LEMMA NoiseRange == \A b \in Bit : Noise(b) \subseteq -tail..(tail - 1)
BY Sizes DEF Noise, Observed, Signed, Bit

LEMMA Preserved == IInv /\ [Next]_vars => IInv'
<1> SUFFICES ASSUME IInv, [Next]_vars PROVE IInv'
  OBVIOUS
<1> USE DEF IInv
<1>1. CASE Encrypt
  <2>1. PICK e \in [Index -> Noise(0) \cup Noise(1)] :
          /\ \A i \in Index : e[i] \in Noise(plain[i])
          /\ enc' = [i \in Index |-> encryption(i, plain[i], e[i])]
    BY <1>1 DEF Encrypt
  <2>2. \A i \in Index : plain[i] \in Bit /\ e[i] \in -tail..(tail - 1)
    BY <2>1, NoiseRange DEF TypeOK
  <2>3. enc' \in [Index -> Ciphertext]
    BY <2>1, <2>2, Typing
  <2>4. TypeOK'
    BY <1>1, <2>3 DEF Encrypt, TypeOK
  <2>5. Fresh'
    <3> SUFFICES ASSUME NEW i \in Index PROVE FreshAt(enc[i], i)'
      BY DEF Fresh
    <3>1. enc'[i] = encryption(i, plain[i], e[i])
      BY <2>1
    <3>2. plain' = plain
      BY <1>1 DEF Encrypt
    <3> QED
      BY <3>1, <3>2, <2>2 DEF FreshAt, encryption, Point
  <2> QED
    BY <1>1, <2>4, <2>5 DEF Encrypt, Arrived, Adding, Masked, Answered, Decrypts
<1>2. CASE Exchange
  <2>1. enc \in [Index -> Ciphertext] /\ \A i \in Index : FreshAt(enc[i], i)
    BY <1>2 DEF Exchange, TypeOK, Fresh
  <2>2. theirs' = [i \in Index |-> [enc[i] EXCEPT !.first = Hash(i)]]
    BY <1>2, <2>1 DEF Exchange, transmitted
  <2>3. theirs' \in [Index -> Ciphertext]
    BY <2>1, <2>2, Typing DEF Ciphertext
  <2>4. TypeOK'
    BY <1>2, <2>3 DEF Exchange, TypeOK
  <2>5. Fresh'
    BY <1>2 DEF Exchange, Fresh, FreshAt
  <2>6. Arrived'
    <3> SUFFICES ASSUME NEW i \in Index PROVE FreshAt(theirs[i], i)'
      BY DEF Arrived
    <3>1. /\ theirs'[i].first = Hash(i)
          /\ theirs'[i].second = enc[i].second
      BY <2>1, <2>2 DEF Ciphertext
    <3>2. plain' = plain
      BY <1>2 DEF Exchange
    <3> QED
      BY <2>1, <3>1, <3>2 DEF FreshAt
  <2> QED
    BY <1>2, <2>4, <2>5, <2>6 DEF Exchange, Adding, Masked, Answered, Decrypts
<1>3. CASE Start
  <2>1. /\ row[1] \in Index /\ plain[row[1]] \in Bit
        /\ theirs[row[1]] \in Ciphertext /\ FreshAt(theirs[row[1]], row[1])
    BY <1>3, Sizes DEF Start, TypeOK, Arrived
  <2>2. PICK e \in -tail..(tail - 1) : theirs[row[1]].second.v = Point(plain[row[1]], e)
    BY <2>1 DEF FreshAt
  <2>3. added' = 1 /\ 1 * tail = tail
    BY <1>3, Sizes DEF Start
  <2>4. e \in -(1 * tail)..(1 * tail)
    BY <2>3, Sizes
  <2>5. Near(theirs[row[1]].second.v, plain[row[1]], 1 * tail)
    BY <2>2, <2>4 DEF Near, Point
  <2>6. TypeOK'
    BY <1>3, <2>1, Sizes DEF Start, TypeOK
  <2>7. Adding'
    BY <1>3, <2>1, <2>3, <2>5, Sizes DEF Start, Adding, FreshAt, Near
  <2>8. Fresh' /\ Arrived'
    BY <1>3 DEF Start, Fresh, Arrived, FreshAt
  <2> QED
    BY <1>3, <2>6, <2>7, <2>8 DEF Start, Masked, Answered, Decrypts
<1>4. CASE AddNext
  <2> DEFINE i == row[added + 1]
  <2>1. /\ added \in 1..l /\ added < l /\ added + 1 \in 1..l
        /\ i \in Index /\ plain[i] \in Bit /\ sum \in Bit
        /\ theirs[i] \in Ciphertext /\ FreshAt(theirs[i], i)
        /\ ctx \in Ciphertext /\ ctx.first = ctx.second.r
        /\ Near(ctx.second.v, sum, added * tail)
    BY <1>4, Sizes DEF AddNext, TypeOK, Arrived, Adding
  <2>2. PICK d \in -(added * tail)..(added * tail) : ctx.second.v = Point(sum, d)
    BY <2>1 DEF Near, Point
  <2>3. PICK e \in -tail..(tail - 1) : theirs[i].second.v = Point(plain[i], e)
    BY <2>1 DEF FreshAt
  <2>4. /\ added * tail \in Nat /\ (added + 1) * tail = added * tail + tail
        /\ added * tail + tail <= l * tail
    BY <2>1, Products
  <2>5. \E f \in -(added * tail + tail)..(added * tail + tail) :
          GroupAdd(Point(sum, d), Point(plain[i], e)) = Point(BitXor(sum, plain[i]), f)
    BY <2>1, <2>4, SumOfPoints
  <2>6. Near(GroupAdd(ctx.second.v, theirs[i].second.v), BitXor(sum, plain[i]),
             (added + 1) * tail)
    BY <2>2, <2>3, <2>4, <2>5 DEF Near, Point
  <2>7. ctx' = add(ctx, theirs[i]) /\ sum' = BitXor(sum, plain[i]) /\ added' = added + 1
    BY <1>4 DEF AddNext
  <2>8. ctx' \in Ciphertext
    BY <2>1, <2>7, Typing
  <2>9. sum' \in Bit
    BY <2>7 DEF BitXor, Bit
  <2>10. TypeOK'
    BY <1>4, <2>1, <2>7, <2>8, <2>9 DEF AddNext, TypeOK
  <2>11. /\ ctx'.first = HashAdd(ctx.first, theirs[i].first)
         /\ ctx'.second.r = HashAdd(ctx.second.r, theirs[i].second.r)
         /\ ctx'.second.v = GroupAdd(ctx.second.v, theirs[i].second.v)
    BY <2>7 DEF add
  <2>12. ctx'.first = ctx'.second.r
    BY <2>1, <2>11 DEF FreshAt
  <2>13. Near(ctx'.second.v, sum', added' * tail)
    BY <2>6, <2>7, <2>11
  <2>14. Adding'
    BY <2>1, <2>7, <2>12, <2>13 DEF Adding, Near
  <2>15. Fresh' /\ Arrived'
    BY <1>4 DEF AddNext, Fresh, Arrived, FreshAt
  <2> QED
    BY <1>4, <2>10, <2>14, <2>15 DEF AddNext, Masked, Answered, Decrypts
<1>5. CASE AddMask
  <2>1. /\ sum \in Bit /\ ctx \in Ciphertext /\ ctx.first = ctx.second.r
        /\ Near(ctx.second.v, sum, l * tail)
    BY <1>5 DEF AddMask, TypeOK, Adding
  <2>2. PICK d \in -(l * tail)..(l * tail) : ctx.second.v = Point(sum, d)
    BY <2>1 DEF Near, Point
  <2>3. PICK mask \in Bit : ctx' = addPlain(ctx, mask) /\ sum' = BitXor(sum, mask)
    BY <1>5 DEF AddMask
  <2>4. ctx' \in Ciphertext /\ sum' \in Bit
    BY <2>1, <2>3, Typing DEF BitXor, Bit
  <2>5. TypeOK'
    BY <1>5, <2>4 DEF AddMask, TypeOK
  <2>6. /\ ctx'.first = ctx.first /\ ctx'.second.r = ctx.second.r
        /\ ctx'.second.v = IF mask = 0 THEN ctx.second.v ELSE GroupAdd(ctx.second.v, one)
    BY <2>1, <2>3 DEF addPlain, Ciphertext
  <2>7. Near(ctx'.second.v, sum', l * tail + 1)
    <3>1. \E f \in -(l * tail + 1)..(l * tail + 1) :
            ctx'.second.v = Point(BitXor(sum, mask), f)
      BY <2>1, <2>2, <2>6, MaskedPoint DEF Bit
    <3> QED
      BY <3>1, <2>3 DEF Near, Point
  <2>8. Masked'
    BY <2>1, <2>6, <2>7 DEF Masked, Near
  <2>9. Fresh' /\ Arrived'
    BY <1>5 DEF AddMask, Fresh, Arrived, FreshAt
  <2> QED
    BY <1>5, <2>5, <2>8, <2>9 DEF AddMask, Adding, Answered, Decrypts
<1>6. CASE Return
  <2>1. resp' = ctx
    BY <1>6 DEF Return, Returned, transmitted
  <2>2. TypeOK'
    BY <1>6, <2>1 DEF Return, TypeOK
  <2>3. Answered'
    BY <1>6, <2>1 DEF Return, Masked, Answered, Near
  <2>4. Fresh' /\ Arrived'
    BY <1>6 DEF Return, Fresh, Arrived, FreshAt
  <2> QED
    BY <1>6, <2>2, <2>3, <2>4 DEF Return, Adding, Masked, Decrypts
<1>7. CASE Decrypt
  <2>1. sum \in Bit /\ resp.first = resp.second.r /\ Near(resp.second.v, sum, l * tail + 1)
    BY <1>7 DEF Decrypt, TypeOK, Answered
  <2>2. PICK e \in -(l * tail + 1)..(l * tail + 1) : resp.second.v = Point(sum, e)
    BY <2>1 DEF Near, Point
  <2>3. resp.second.v \in lookup <=> sum = 0
    BY <2>1, <2>2, TableDecides
  <2>4. decryption(resp) = sum
    BY <2>1, <2>3 DEF decryption, Bit
  <2>5. out' = sum /\ sum' = sum
    BY <1>7, <2>4 DEF Decrypt
  <2>6. TypeOK'
    BY <1>7, <2>1, <2>5 DEF Decrypt, TypeOK
  <2>7. Fresh' /\ Arrived'
    BY <1>7 DEF Decrypt, Fresh, Arrived, FreshAt
  <2> QED
    BY <1>7, <2>5, <2>6, <2>7 DEF Decrypt, Adding, Masked, Answered, Decrypts
<1>8. CASE UNCHANGED vars
  BY <1>8 DEF vars, TypeOK, Fresh, Arrived, FreshAt, Adding, Masked, Answered, Decrypts, Near
<1> QED
  BY <1>1, <1>2, <1>3, <1>4, <1>5, <1>6, <1>7, <1>8 DEF Next, Stop

\* The two parties' values have their types in every reachable state: the
\* exponents never leave the group, whatever the sampler gives.
THEOREM TypeCorrect == Spec => []TypeOK
<1>1. IInv => TypeOK
  BY DEF IInv
<1> QED
  BY <1>1, Initially, Preserved, PTL DEF Spec

\* The noise of a sum is bounded by its terms (AHE::add and the sampler).
THEOREM NoiseIsBounded == Spec => []NoiseBounded
<1>1. IInv => NoiseBounded
  BY DEF IInv, Adding, Masked, NoiseBounded
<1> QED
  BY <1>1, Initially, Preserved, PTL DEF Spec

\* homomorphicInnerProduct and decrypt together give the masked inner product,
\* for every l that the AHE object was made for.
THEOREM DecryptsRight == Spec => []Decrypts
<1>1. IInv => Decrypts
  BY DEF IInv
<1> QED
  BY <1>1, Initially, Preserved, PTL DEF Spec

-----------------------------------------------------------------------------
\* Sums, one term after the other.
Plus(x, y) == x + y
SomeOf(X) == CHOOSE x \in X : TRUE

Summing == INSTANCE FoldFacts WITH op <- Plus, base <- 0, choose <- SomeOf

LEMMA SumFold ==
  ASSUME NEW f
  PROVE  SumFunction(f) = Summing!Fold(f, DOMAIN f)
BY DEF SumFunction, SumFunctionOnSet, FoldFunctionOnSet, MapThenFoldSet, Summing!Fold, Plus, SomeOf

\* The instance has a definition of its own of what is finite.
LEMMA IntervalsFit ==
  ASSUME NEW n \in Nat
  PROVE  Summing!IsFiniteSet(0..(n - 1)) /\ Summing!Chooses(0..(n - 1)) /\ Summing!Monoid(Int)
<1>1. IsFiniteSet(0..(n - 1))
  BY FS_Interval
<1>2. Summing!IsFiniteSet(0..(n - 1)) <=> IsFiniteSet(0..(n - 1))
  BY Zenon DEF Summing!IsFiniteSet, IsFiniteSet
<1> QED
  BY <1>1, <1>2 DEF Summing!Chooses, SomeOf, Summing!Monoid, Plus

AreNumbers(f, n) == \A i \in 0..(n - 1) : f[i] \in Int
SumOf(f, n) == Summing!Fold(f, 0..(n - 1))

LEMMA SumType ==
  ASSUME NEW n \in Nat, NEW f, AreNumbers(f, n)
  PROVE  SumOf(f, n) \in Int
BY IntervalsFit, Summing!FoldType DEF AreNumbers, SumOf

LEMMA SumEmpty ==
  ASSUME NEW f
  PROVE  SumOf(f, 0) = 0
<1>1. 0..(0 - 1) = {}
  OBVIOUS
<1> QED
  BY <1>1, Summing!FoldEmpty DEF SumOf

LEMMA SumAgrees ==
  ASSUME NEW n \in Nat, NEW f, NEW g, \A i \in 0..(n - 1) : f[i] = g[i]
  PROVE  SumOf(f, n) = SumOf(g, n)
BY IntervalsFit, Summing!FoldAgrees DEF SumOf

LEMMA SumTakeOut ==
  ASSUME Summing!Monoid(Int), NEW X, Summing!IsFiniteSet(X), Summing!Chooses(X),
         NEW f, \A x \in X : f[x] \in Int, NEW y \in X
  PROVE  Summing!Fold(f, X) = Plus(f[y], Summing!Fold(f, X \ {y}))
BY Summing!FoldTakeOut

LEMMA SumNext ==
  ASSUME NEW n \in Nat, NEW f, AreNumbers(f, n + 1)
  PROVE  SumOf(f, n + 1) = SumOf(f, n) + f[n] /\ SumOf(f, n) \in Int
<1>1. PICK m \in Nat : m = n + 1 /\ n \in 0..(m - 1) /\ (0..(m - 1)) \ {n} = 0..(n - 1)
  OBVIOUS
<1>2. \A i \in 0..(m - 1) : f[i] \in Int
  BY <1>1 DEF AreNumbers
<1>3. Summing!IsFiniteSet(0..(m - 1)) /\ Summing!Chooses(0..(m - 1)) /\ Summing!Monoid(Int)
  BY IntervalsFit
<1>4. Summing!Fold(f, 0..(m - 1)) = Plus(f[n], Summing!Fold(f, (0..(m - 1)) \ {n}))
  <2>1. n \in 0..(m - 1)
    BY <1>1
  <2>2. PICK X : X = 0..(m - 1)
    OBVIOUS
  <2> QED
    BY Zenon, <1>2, <1>3, <2>1, <2>2, SumTakeOut
<1>5. Summing!Fold(f, 0..(m - 1)) = Plus(f[n], Summing!Fold(f, 0..(n - 1)))
  BY <1>1, <1>4
<1>6. SumOf(f, m) = f[n] + SumOf(f, n)
  BY <1>5 DEF SumOf, Plus
<1>7. f[n] \in Int /\ SumOf(f, n) \in Int
  <2>1. AreNumbers(f, n)
    BY DEF AreNumbers
  <2> QED
    BY <1>1, <1>2, <2>1, SumType
<1> QED
  BY <1>1, <1>6, <1>7

-----------------------------------------------------------------------------
\* Numbers of bits.
AreBits(b, n) == \A i \in 0..(n - 1) : b[i] \in {0, 1}

LEMMA NumberIs ==
  ASSUME NEW n \in Nat, NEW b, NEW f, \A i \in 0..(n - 1) : f[i] = b[i] * 2^i
  PROVE  Number(b, n) = SumOf(f, n)
<1>1. PICK g : g = [i \in 0..(n - 1) |-> b[i] * 2^i]
  OBVIOUS
<1>2. Number(b, n) = SumFunction(g)
  BY <1>1 DEF Number, Below
<1>3. SumFunction(g) = SumOf(g, n)
  BY <1>1, SumFold DEF SumOf
<1>4. \A i \in 0..(n - 1) : f[i] = g[i]
  BY <1>1
<1> QED
  BY <1>2, <1>3, <1>4, SumAgrees

LEMMA NumberEmpty ==
  ASSUME NEW b
  PROVE  Number(b, 0) = 0
<1>1. PICK f : f = [i \in 0..(0 - 1) |-> b[i] * 2^i]
  OBVIOUS
<1>2. Number(b, 0) = SumOf(f, 0)
  BY <1>1, NumberIs
<1> QED
  BY <1>2, SumEmpty

LEMMA NumberNext ==
  ASSUME NEW n \in Nat, NEW b, AreBits(b, n + 1)
  PROVE  Number(b, n + 1) = Number(b, n) + b[n] * 2^n /\ Number(b, n) \in Int
<1>1. PICK f : f = [i \in 0..n |-> b[i] * 2^i]
  OBVIOUS
<1>2. ASSUME NEW i \in 0..n PROVE b[i] * 2^i \in Int
  <2>1. b[i] \in {0, 1}
    BY DEF AreBits
  <2>2. 2^i \in Int
    BY Powers
  <2> QED
    BY <2>1, <2>2
<1>3. AreNumbers(f, n + 1)
  BY <1>1, <1>2 DEF AreNumbers
<1>4. SumOf(f, n + 1) = SumOf(f, n) + f[n] /\ SumOf(f, n) \in Int
  BY <1>3, SumNext
<1>5. Number(b, n + 1) = SumOf(f, n + 1)
  BY <1>1, NumberIs
<1>6. Number(b, n) = SumOf(f, n)
  BY <1>1, NumberIs
<1>7. f[n] = b[n] * 2^n
  BY <1>1
<1> QED
  BY <1>4, <1>5, <1>6, <1>7

LEMMA NumberAgrees ==
  ASSUME NEW n \in Nat, NEW b, NEW c, \A i \in 0..(n - 1) : b[i] = c[i]
  PROVE  Number(b, n) = Number(c, n)
<1>1. PICK f : f = [i \in 0..(n - 1) |-> b[i] * 2^i]
  OBVIOUS
<1>2. Number(b, n) = SumOf(f, n)
  BY <1>1, NumberIs
<1>3. \A i \in 0..(n - 1) : f[i] = c[i] * 2^i
  BY <1>1
<1> QED
  BY <1>2, <1>3, NumberIs

LEMMA NumberSmall ==
  ASSUME NEW n \in Nat, NEW b, AreBits(b, n)
  PROVE  Number(b, n) \in 0..(2^n - 1)
<1> DEFINE S == {j \in 0..n : Number(b, j) \in 0..(2^j - 1)}
<1>1. 0 \in S
  BY NumberEmpty, Powers
<1>2. ASSUME NEW j \in 0..(n - 1), j \in S PROVE j + 1 \in S
  <2>1. j + 1 \in 0..n /\ j \in Nat
    OBVIOUS
  <2>2. PICK v \in Nat, w \in Nat : v = 2^j /\ w = Number(b, j) /\ w < v
    BY <1>2, <2>1, Powers
  <2>3. AreBits(b, j + 1) /\ b[j] \in {0, 1}
    BY <2>1 DEF AreBits
  <2>4. Number(b, j + 1) = w + b[j] * v
    BY <2>1, <2>2, <2>3, NumberNext
  <2>5. 2^(j + 1) = 2 * v
    BY <2>1, <2>2, Powers
  <2>6. Number(b, j + 1) \in 0..(2 * v - 1)
    BY <2>2, <2>3, <2>4
  <2> QED
    BY <2>1, <2>5, <2>6
<1> HIDE DEF S
<1>3. 0..n \subseteq S
  BY Zenon, <1>1, <1>2, IntervalInduction
<1>4. n \in S
  BY <1>3
<1> QED
  BY <1>4 DEF S

LEMMA PowersAdd ==
  ASSUME NEW a \in Nat, NEW b \in Nat
  PROVE  2^(a + b) = 2^a * 2^b
<1> DEFINE S == {j \in 0..b : 2^(a + j) = 2^a * 2^j}
<1>1. 0 \in S
  <2>1. 2^a \in Nat /\ a + 0 = a
    BY Powers
  <2> QED
    BY <2>1, Powers
<1>2. ASSUME NEW j \in 0..(b - 1), j \in S PROVE j + 1 \in S
  <2>1. j + 1 \in 0..b /\ j \in Nat /\ a + j \in Nat /\ a + (j + 1) = (a + j) + 1
    OBVIOUS
  <2>2. PICK u \in Nat, v \in Nat : u = 2^a /\ v = 2^j
    BY <2>1, Powers
  <2>3. 2^(a + j) = u * v
    BY <1>2, <2>2
  <2>4. 2^((a + j) + 1) = 2 * (u * v) /\ 2^(j + 1) = 2 * v
    BY <2>1, <2>2, <2>3, Powers
  <2>5. 2 * (u * v) = u * (2 * v)
    OBVIOUS
  <2>6. 2^(a + (j + 1)) = 2^a * 2^(j + 1)
    BY <2>1, <2>2, <2>4, <2>5
  <2> QED
    BY <2>1, <2>6
<1> HIDE DEF S
<1>3. 0..b \subseteq S
  BY Zenon, <1>1, <1>2, IntervalInduction
<1>4. b \in S
  BY <1>3
<1> QED
  BY <1>4 DEF S

\* A number in two parts.
Shifted(b, m, n, c) == \A i \in 0..(n - 1) : c[i] = b[m + i]

LEMMA NumberParts ==
  ASSUME NEW m \in Nat, NEW n \in Nat, NEW b, AreBits(b, m + n), NEW c, Shifted(b, m, n, c)
  PROVE  /\ AreBits(c, n) /\ AreBits(b, m)
         /\ Number(b, m + n) = Number(b, m) + 2^m * Number(c, n)
<1>0. AreBits(b, m)
  BY DEF AreBits
<1>1. AreBits(c, n)
  <2> SUFFICES ASSUME NEW i \in 0..(n - 1) PROVE c[i] \in {0, 1}
    BY DEF AreBits
  <2>1. m + i \in 0..((m + n) - 1)
    OBVIOUS
  <2> QED
    BY <2>1 DEF AreBits, Shifted
<1>2. PICK p \in Nat, w \in Nat : p = 2^m /\ w = Number(b, m)
  BY <1>0, NumberSmall, Powers
<1> DEFINE S == {j \in 0..n : Number(b, m + j) = w + p * Number(c, j)}
<1>3. 0 \in S
  <2>1. m + 0 = m /\ p * 0 = 0 /\ w + 0 = w
    OBVIOUS
  <2>2. Number(c, 0) = 0
    BY NumberEmpty
  <2> QED
    BY <1>2, <2>1, <2>2
<1>4. ASSUME NEW j \in 0..(n - 1), j \in S PROVE j + 1 \in S
  <2>1. j + 1 \in 0..n /\ j \in Nat /\ m + j \in Nat /\ m + (j + 1) = (m + j) + 1
    OBVIOUS
  <2>2. AreBits(b, (m + j) + 1)
    BY DEF AreBits
  <2>3. AreBits(c, j + 1) /\ AreBits(c, j)
    BY <1>1 DEF AreBits
  <2>4. PICK e \in {0, 1} : e = b[m + j] /\ e = c[j]
    <3>1. m + j \in 0..((m + j) + 1 - 1)
      BY <2>1
    <3>2. b[m + j] \in {0, 1}
      BY <2>2, <3>1 DEF AreBits
    <3> QED
      BY <3>2 DEF Shifted
  <2>5. PICK v \in Nat, z \in Nat : v = 2^j /\ z = Number(c, j)
    BY <2>1, <2>3, NumberSmall, Powers
  <2>6. 2^(m + j) = p * v
    BY <1>2, <2>1, <2>5, PowersAdd
  <2>7. Number(b, m + j) = w + p * z
    BY <1>4, <2>5
  <2>8. Number(b, (m + j) + 1) = (w + p * z) + e * (p * v)
    BY <2>1, <2>2, <2>4, <2>6, <2>7, NumberNext
  <2>9. Number(c, j + 1) = z + e * v
    BY <2>1, <2>3, <2>4, <2>5, NumberNext
  <2>10. (w + p * z) + e * (p * v) = w + p * (z + e * v)
    BY <2>4
  <2>11. Number(b, m + (j + 1)) = w + p * Number(c, j + 1)
    BY <2>1, <2>8, <2>9, <2>10
  <2> QED
    BY <2>1, <2>11
<1> HIDE DEF S
<1>5. 0..n \subseteq S
  BY Zenon, <1>3, <1>4, IntervalInduction
<1>6. n \in S
  BY <1>5
<1> QED
  BY <1>0, <1>1, <1>2, <1>6 DEF S

\* The first part is what is left by division, the second the quotient.
InTwoParts(b, m, n, c) ==
  Number(b, m + n) \div 2^m = Number(c, n) /\ Number(b, m + n) % 2^m = Number(b, m)

LEMMA NumberDivided ==
  ASSUME NEW m \in Nat, NEW n \in Nat, NEW b, AreBits(b, m + n), NEW c, Shifted(b, m, n, c)
  PROVE  InTwoParts(b, m, n, c)
<1>1. PICK p \in Nat \ {0}, w \in Nat, z \in Nat : p = 2^m /\ w = Number(b, m) /\ z = Number(c, n) /\ w < p
  <2>1. AreBits(b, m) /\ AreBits(c, n)
    BY NumberParts
  <2>2. 2^m \in Nat \ {0} /\ 2^n \in Nat \ {0}
    BY Powers
  <2>3. Number(b, m) \in 0..(2^m - 1)
    BY <2>1, NumberSmall
  <2>4. Number(c, n) \in 0..(2^n - 1)
    BY <2>1, NumberSmall
  <2> QED
    BY <2>2, <2>3, <2>4
<1>2. Number(b, m + n) = w + p * z
  BY <1>1, NumberParts
<1>3. PICK a : a = Number(b, m + n) /\ a = z * p + w /\ w \in 0..(p - 1)
  BY <1>1, <1>2
<1>4. a \div p = z /\ a % p = w
  BY <1>3, DividesAs
<1> QED
  BY <1>1, <1>3, <1>4 DEF InTwoParts

\* The bits of a number are those it was made of.
LEMMA NumberBit ==
  ASSUME NEW n \in Nat, NEW b, AreBits(b, n), NEW i \in 0..(n - 1)
  PROVE  BitOf(Number(b, n), i) = b[i]
<1>1. PICK r \in Nat : n = i + (1 + r)
  <2>1. n - i - 1 \in Nat /\ n = i + (1 + (n - i - 1))
    OBVIOUS
  <2> QED
    BY <2>1
<1>2. PICK c : c = [j \in 0..r |-> b[i + j]]
  OBVIOUS
<1>3. PICK d : d = [j \in 0..(r - 1) |-> c[1 + j]]
  OBVIOUS
<1>4. Shifted(b, i, 1 + r, c)
  BY <1>2 DEF Shifted
<1>5. Shifted(c, 1, r, d)
  BY <1>3 DEF Shifted
<1>6. Number(b, n) \div 2^i = Number(c, 1 + r) /\ AreBits(c, 1 + r)
  <2>1. PICK m \in Nat : m = 1 + r /\ n = i + m
    BY <1>1
  <2>2. AreBits(b, i + m) /\ Shifted(b, i, m, c) /\ i \in Nat
    BY <1>1, <1>4, <2>1
  <2>3. InTwoParts(b, i, m, c)
    BY Zenon, <2>1, <2>2, NumberDivided
  <2>4. AreBits(c, m)
    BY Zenon, <2>1, <2>2, NumberParts
  <2> QED
    BY <2>1, <2>3, <2>4 DEF InTwoParts
<1>7. Number(c, 1 + r) % 2^1 = Number(c, 1)
  <2>1. InTwoParts(c, 1, r, d)
    BY Zenon, <1>5, <1>6, NumberDivided
  <2> QED
    BY <2>1 DEF InTwoParts
<1>8. 2^1 = 2 /\ 2^0 = 1
  <2>1. 2^(0 + 1) = 2 * 2^0 /\ 2^0 = 1 /\ 0 + 1 = 1
    BY Powers
  <2> QED
    BY <2>1
<1>9. Number(c, 1) = c[0]
  <2>1. AreBits(c, 0 + 1) /\ c[0] \in {0, 1} /\ 0 + 1 = 1
    BY <1>6 DEF AreBits
  <2>2. Number(c, 0 + 1) = Number(c, 0) + c[0] * 2^0
    BY <2>1, NumberNext
  <2> QED
    BY <1>8, <2>1, <2>2, NumberEmpty
<1>10. c[0] = b[i]
  BY <1>2
<1> QED
  BY <1>6, <1>7, <1>8, <1>9, <1>10 DEF BitOf

-----------------------------------------------------------------------------
\* Strings: a bit for each place of their bytes, and perhaps zeros behind the end.
IsString(x) ==
  /\ x = [size |-> x.size, bytes |-> x.bytes]
  /\ x.size \in Nat
  /\ x.bytes \in [Room(x.size) -> {0, 1}]

EndsBlank(x) == \A i \in DOMAIN x.bytes : i >= x.size => x.bytes[i] = 0

LEMMA RoomIs ==
  ASSUME NEW n \in Nat
  PROVE  /\ nBytes(n) \in Nat /\ nBytes(n) * Byte \in Nat
         /\ n <= nBytes(n) * Byte /\ nBytes(n) * Byte < n + Byte
         /\ Room(n) = 0..(nBytes(n) * Byte - 1)
         /\ \A i \in 0..(n - 1) : i \in Room(n)
<1>1. Byte \in Nat \ {0}
  BY BitStringAssumption
<1>2. PICK m \in Nat, p \in Nat : /\ m = nBytes(n) /\ p = m * Byte
                                  /\ p <= n + Byte - 1 /\ n + Byte - 1 < p + Byte
  <2>1. n + Byte - 1 \in Nat
    BY <1>1
  <2>2. PICK m \in Nat : m = (n + Byte - 1) \div Byte /\ Byte * m <= n + Byte - 1
                         /\ n + Byte - 1 < Byte * m + Byte
    BY <1>1, <2>1, Dividing
  <2>3. PICK p \in Nat : p = m * Byte /\ p = Byte * m
    BY <1>1
  <2> QED
    BY <2>2, <2>3 DEF nBytes
<1>3. n <= p /\ p < n + Byte
  BY <1>1, <1>2
<1> QED
  BY <1>2, <1>3 DEF Room, Below

LEMMA PlacesAre ==
  ASSUME NEW n \in Nat
  PROVE  /\ \A i \in Room(n) : i \in Nat
         /\ \A i \in 0..(n - 1) : i \in Room(n)
<1>1. PICK p \in Nat : p = nBytes(n) * Byte
  BY RoomIs
<1>2. Room(n) = 0..(p - 1)
  BY <1>1, RoomIs
<1>3. \A i \in 0..(n - 1) : i \in Room(n)
  BY RoomIs
<1> QED
  BY <1>2, <1>3

\* No place is behind the end of a string that fills its bytes, and all that are lie
\* in its last byte.
LEMMA RoomFull ==
  ASSUME NEW n \in Nat, n % Byte = 0
  PROVE  nBytes(n) * Byte = n
<1>1. Byte \in Nat \ {0}
  BY BitStringAssumption
<1>2. PICK m \in Nat : m = n \div Byte /\ n = m * Byte
  BY <1>1, Divided
<1>3. n + Byte - 1 = m * Byte + (Byte - 1) /\ Byte - 1 \in 0..(Byte - 1)
  BY <1>1, <1>2
<1>4. (n + Byte - 1) \div Byte = m
  <2>1. PICK a : a = n + Byte - 1 /\ a = m * Byte + (Byte - 1)
    BY <1>3
  <2>2. a \div Byte = m
    BY <1>1, <1>3, <2>1, DividesAs
  <2> QED
    BY <2>1, <2>2
<1> QED
  BY <1>2, <1>4 DEF nBytes

LEMMA BitOfIs ==
  ASSUME NEW v \in Nat, NEW i \in Nat
  PROVE  BitOf(v, i) \in {0, 1}
<1>1. PICK p \in Nat \ {0} : p = 2^i
  BY Powers
<1>2. v \div p \in Nat
  BY <1>1
<1> QED
  BY <1>1, <1>2 DEF BitOf

LEMMA BitOfSmall ==
  ASSUME NEW n \in Nat, NEW v \in Nat, v < 2^n, NEW i \in Nat, i >= n
  PROVE  BitOf(v, i) = 0
<1>1. PICK p \in Nat \ {0} : p = 2^i /\ v < p
  <2>1. 2^n <= 2^i
    BY PowersGrow
  <2>2. 2^n \in Nat /\ 2^i \in Nat \ {0}
    BY Powers
  <2> QED
    BY <2>1, <2>2
<1>2. v \div p = 0
  BY <1>1, SmallRemainder
<1> QED
  BY <1>1, <1>2 DEF BitOf

\* What the members of the class return.
LEMMA MadeOf ==
  ASSUME NEW n \in Nat, NEW f, f \in [Room(n) -> {0, 1}], NEW x, x = [size |-> n, bytes |-> f]
  PROVE  IsString(x) /\ x.size = n /\ x.bytes = f
BY DEF IsString

LEMMA SpareOf ==
  ASSUME NEW n \in Nat, NEW f, f \in [Room(n) -> {0, 1}], NEW x, x = [size |-> n, bytes |-> f],
         \A i \in Room(n) : i >= n => f[i] = 0
  PROVE  EndsBlank(x)
BY DEF EndsBlank

LEMMA FromNumber ==
  ASSUME NEW n \in Nat, NEW v \in Nat
  PROVE  /\ IsString(fromUInt(v, n))
         /\ v < 2^n => EndsBlank(fromUInt(v, n))
         /\ \A i \in 0..(n - 1) : fromUInt(v, n).bytes[i] = BitOf(v, i)
<1>0. n \in Nat /\ \A i \in Room(n) : i \in Nat
  <2>1. n \in Nat
    BY BitStringAssumption
  <2> QED
    BY <2>1, PlacesAre
<1>1. PICK f : f = [i \in Room(n) |-> BitOf(v, i)]
  OBVIOUS
<1>2. f \in [Room(n) -> {0, 1}]
  BY <1>0, <1>1, BitOfIs
<1>3. fromUInt(v, n) = [size |-> n, bytes |-> f]
  BY <1>1 DEF fromUInt
<1>4. ASSUME v < 2^n PROVE EndsBlank(fromUInt(v, n))
  <2>1. \A i \in Room(n) : i >= n => f[i] = 0
    BY <1>0, <1>1, <1>4, BitOfSmall
  <2> QED
    BY <1>0, <1>2, <1>3, <2>1, SpareOf
<1>5. \A i \in 0..(n - 1) : i \in Room(n)
  BY <1>0, PlacesAre
<1> QED
  BY <1>1, <1>2, <1>3, <1>4, <1>5, MadeOf

LEMMA EmptyIs == IsString(Empty) /\ EndsBlank(Empty)
<1>1. PICK f : f = [i \in Room(0) |-> IF i < 0 THEN 0 ELSE 0]
  OBVIOUS
<1>2. Empty = [size |-> 0, bytes |-> f]
  BY <1>1 DEF Empty, Set
<1>3. f \in [Room(0) -> {0, 1}] /\ 0 \in Nat /\ \A i \in Room(0) : i >= 0 => f[i] = 0
  BY <1>1, BitStringAssumption
<1> QED
  BY <1>2, <1>3, MadeOf, SpareOf

LEMMA CutString ==
  ASSUME NEW x, IsString(x), NEW from \in Nat, NEW to \in Nat, ~SliceThrows(x, from, to)
  PROVE  /\ IsString(Slice(x, from, to)) /\ EndsBlank(Slice(x, from, to))
         /\ from <= to /\ to <= x.size /\ Slice(x, from, to).size = to - from
         /\ \A i \in 0..(to - from - 1) : Slice(x, from, to).bytes[i] = x.bytes[from + i]
<1>0. x.size \in Nat /\ from < x.size /\ to <= x.size /\ from <= to 
  BY BitStringAssumption DEF SliceThrows, IsString
<1>1. PICK n \in Nat : n = to - from
  BY <1>0
<1>2. PICK f : f = [i \in Room(n) |-> IF i < n THEN x.bytes[from + i] ELSE 0]
  OBVIOUS
<1>3. Slice(x, from, to) = [size |-> n, bytes |-> f]
  BY <1>1, <1>2 DEF Slice, Set
<1>4. \A i \in Room(n) : i \in Nat
  BY <1>0, <1>1, PlacesAre
<1>5. ASSUME NEW i \in Room(n), i < n PROVE x.bytes[from + i] \in {0, 1}
  <2>1. from + i \in 0..(x.size - 1)
    BY <1>0, <1>1, <1>4, <1>5
  <2>2. from + i \in Room(x.size)
    BY <1>0, <2>1, PlacesAre
  <2> QED
    BY <2>2 DEF IsString
<1>6. f \in [Room(n) -> {0, 1}]
  BY <1>2, <1>5
<1>7. \A i \in Room(n) : i >= n => f[i] = 0
  BY <1>0, <1>1, <1>2, <1>4
<1>8. \A i \in 0..(n - 1) : i \in Room(n) /\ f[i] = x.bytes[from + i]
  BY <1>0, <1>1, <1>2, PlacesAre
<1>9. IsString(Slice(x, from, to)) /\ EndsBlank(Slice(x, from, to))
  BY <1>0, <1>1, <1>3, <1>6, <1>7, MadeOf, SpareOf
<1> QED
  BY <1>0, <1>1, <1>3, <1>8, <1>9

LEMMA ReversedString ==
  ASSUME NEW x, IsString(x)
  PROVE  /\ IsString(Reversed(x)) /\ EndsBlank(Reversed(x)) /\ Reversed(x).size = x.size
         /\ \A i \in 0..(x.size - 1) : Reversed(x).bytes[i] = x.bytes[x.size - 1 - i]
<1>1. PICK n \in Nat : n = x.size /\ n \in Nat
  BY BitStringAssumption DEF IsString
<1>2. PICK f : f = [i \in Room(n) |-> IF i < n THEN x.bytes[n - 1 - i] ELSE 0]
  OBVIOUS
<1>3. Reversed(x) = [size |-> n, bytes |-> f]
  BY <1>1, <1>2 DEF Reversed, Set
<1>4. \A i \in Room(n) : i \in Nat
  BY <1>1, PlacesAre
<1>5. ASSUME NEW i \in Room(n), i < n PROVE x.bytes[n - 1 - i] \in {0, 1}
  <2>1. n - 1 - i \in 0..(n - 1)
    BY <1>1, <1>4, <1>5
  <2>2. n - 1 - i \in Room(n)
    BY <1>1, <2>1, PlacesAre
  <2> QED
    BY <1>1, <2>2 DEF IsString
<1>6. f \in [Room(n) -> {0, 1}]
  BY <1>2, <1>5
<1>7. \A i \in Room(n) : i >= n => f[i] = 0
  BY <1>1, <1>2, <1>4
<1>8. \A i \in 0..(n - 1) : i \in Room(n) /\ f[i] = x.bytes[n - 1 - i]
  BY <1>1, <1>2, PlacesAre
<1>9. IsString(Reversed(x)) /\ EndsBlank(Reversed(x))
  BY <1>1, <1>3, <1>6, <1>7, MadeOf, SpareOf
<1> QED
  BY <1>1, <1>3, <1>8, <1>9

LEMMA ResizedString ==
  ASSUME NEW x, IsString(x), NEW n \in Nat
  PROVE  /\ IsString(Resized(x, n)) /\ Resized(x, n).size = n
         /\ EndsBlank(x) /\ (n >= x.size \/ n % Byte = 0) => EndsBlank(Resized(x, n))
         /\ Resized(x, n).bytes = [i \in Room(n) |-> IF i \in Room(x.size) THEN x.bytes[i] ELSE 0]
<1>1. PICK m \in Nat : m = x.size /\ m \in Nat /\ n \in Nat
  BY BitStringAssumption DEF IsString
<1>2. PICK f : f = [i \in Room(n) |-> IF i \in Room(m) THEN x.bytes[i] ELSE 0]
  OBVIOUS
<1>3. DOMAIN x.bytes = Room(m) /\ x.bytes \in [Room(m) -> {0, 1}]
  BY <1>1 DEF IsString
<1>4. Resized(x, n) = [size |-> n, bytes |-> f]
  BY <1>2, <1>3 DEF Resized
<1>5. f \in [Room(n) -> {0, 1}]
  BY <1>2, <1>3
<1>6. ASSUME EndsBlank(x), n >= m \/ n % Byte = 0 PROVE \A i \in Room(n) : i >= n => f[i] = 0
  <2> SUFFICES ASSUME NEW i \in Room(n), i >= n PROVE f[i] = 0
    OBVIOUS
  <2>1. i \in Nat
    BY <1>1, PlacesAre
  <2>2. CASE n >= m
    BY <1>1, <1>2, <1>3, <1>6, <2>1, <2>2 DEF EndsBlank
  <2>3. CASE n % Byte = 0
    <3>1. Room(n) = 0..(n - 1)
      BY <1>1, <2>3, RoomFull, RoomIs
    <3> QED
      BY <1>1, <2>1, <3>1
  <2> QED
    BY <1>6, <2>2, <2>3
<1>7. IsString(Resized(x, n)) /\ Resized(x, n).size = n /\ Resized(x, n).bytes = f
  BY <1>4, <1>5, MadeOf
<1>8. ASSUME EndsBlank(x), n >= m \/ n % Byte = 0 PROVE EndsBlank(Resized(x, n))
  BY <1>1, <1>4, <1>5, <1>6, <1>8, SpareOf
<1> QED
  BY <1>1, <1>2, <1>7, <1>8

Joined(x, y, z) ==
  \A i \in 0..(x.size + y.size - 1) : z.bytes[i] = IF i < x.size THEN x.bytes[i] ELSE y.bytes[i - x.size]

LEMMA AppendedString ==
  ASSUME NEW x, IsString(x), NEW y, IsString(y)
  PROVE  /\ IsString(Appended(x, y)) /\ (EndsBlank(x) => EndsBlank(Appended(x, y)))
         /\ Appended(x, y).size = x.size + y.size
         /\ Joined(x, y, Appended(x, y))
<1>1. PICK m \in Nat, p \in Nat : m = x.size /\ p = y.size /\ m + p \in Nat
  BY BitStringAssumption DEF IsString
<1>2. PICK g : g = [i \in Room(m + p) |-> IF i \in Room(m) THEN x.bytes[i] ELSE 0]
  OBVIOUS
<1>3. PICK r : r = Resized(x, m + p) /\ IsString(r) /\ r.size = m + p /\ r.bytes = g
  <2>1. PICK n \in Nat : n = m + p
    OBVIOUS
  <2>2. IsString(Resized(x, n)) /\ Resized(x, n).size = n
    BY ResizedString
  <2>3. Resized(x, n).bytes = [i \in Room(n) |-> IF i \in Room(x.size) THEN x.bytes[i] ELSE 0]
    BY ResizedString
  <2> QED
    BY <1>1, <1>2, <2>1, <2>2, <2>3
<1>4. PICK f : f = [i \in Room(m + p) |-> IF i - m \in 0..(p - 1) THEN y.bytes[i - m] ELSE g[i]]
  OBVIOUS
<1>5. /\ x.bytes \in [Room(m) -> {0, 1}] /\ y.bytes \in [Room(p) -> {0, 1}]
      /\ g \in [Room(m + p) -> {0, 1}]
  BY <1>1, <1>3 DEF IsString
<1>6. Appended(x, y) = [size |-> m + p, bytes |-> f]
  <2>1. Appended(x, y) = [r EXCEPT !.bytes = [i \in DOMAIN g |->
                            IF i - m \in Below(p) THEN y.bytes[i - m] ELSE g[i]]]
    BY <1>1, <1>3 DEF Appended
  <2>2. r = [size |-> m + p, bytes |-> g] /\ DOMAIN g = Room(m + p)
    BY <1>3, <1>5 DEF IsString
  <2> QED
    BY <1>4, <2>1, <2>2 DEF Below
<1>7. f \in [Room(m + p) -> {0, 1}]
  <2> SUFFICES ASSUME NEW i \in Room(m + p) PROVE f[i] \in {0, 1}
    BY <1>4
  <2>1. CASE i - m \in 0..(p - 1)
    <3>1. i - m \in Room(p)
      BY <1>1, <2>1, PlacesAre
    <3> QED
      BY <1>4, <1>5, <2>1, <3>1
  <2>2. CASE i - m \notin 0..(p - 1)
    BY <1>4, <1>5, <2>2
  <2> QED
    BY <2>1, <2>2
<1>8. ASSUME EndsBlank(x), NEW i \in Room(m + p), i >= m + p PROVE f[i] = 0
  <2>1. i \in Nat /\ i >= m /\ i - m \notin 0..(p - 1)
    BY <1>1, <1>8, PlacesAre
  <2>2. g[i] = 0
    BY <1>1, <1>2, <1>5, <1>8, <2>1 DEF EndsBlank
  <2> QED
    BY <1>4, <2>1, <2>2
<1>9. ASSUME NEW i \in 0..(m + p - 1) PROVE f[i] = IF i < m THEN x.bytes[i] ELSE y.bytes[i - m]
  <2>1. i \in Room(m + p)
    BY <1>1, PlacesAre
  <2>2. CASE i < m
    <3>1. i \in Room(m)
      BY <1>1, <2>2, PlacesAre
    <3> QED
      BY <1>1, <1>2, <1>4, <2>1, <2>2, <3>1
  <2>3. CASE ~(i < m)
    <3>1. i - m \in 0..(p - 1)
      BY <1>1, <2>3
    <3> QED
      BY <1>4, <2>1, <2>3, <3>1
  <2> QED
    BY <2>2, <2>3
<1>10. IsString(Appended(x, y)) /\ Appended(x, y).size = m + p /\ Appended(x, y).bytes = f
  BY <1>1, <1>6, <1>7, MadeOf
<1>11. ASSUME EndsBlank(x) PROVE EndsBlank(Appended(x, y))
  BY <1>1, <1>6, <1>7, <1>8, <1>11, SpareOf
<1>12. Joined(x, y, Appended(x, y))
  BY <1>1, <1>9, <1>10 DEF Joined
<1> QED
  BY <1>1, <1>10, <1>11, <1>12

LEMMA AppendedBitString ==
  ASSUME NEW x, IsString(x), NEW b \in {0, 1}
  PROVE  IsString(AppendedBit(x, b)) /\ (EndsBlank(x) => EndsBlank(AppendedBit(x, b)))
<1>1. PICK m \in Nat, n \in Nat : m = x.size /\ n = m + 1
  BY BitStringAssumption DEF IsString
<1>2. PICK r : r = Resized(x, n) /\ IsString(r) /\ r.size = n
               /\ (EndsBlank(x) => EndsBlank(r))
  <2>1. IsString(Resized(x, n)) /\ Resized(x, n).size = n
    BY ResizedString
  <2>2. n >= x.size
    BY <1>1
  <2>3. EndsBlank(x) => EndsBlank(Resized(x, n))
    BY <2>2, ResizedString
  <2> QED
    BY <2>1, <2>3
<1>3. PICK g : g = r.bytes /\ r = [size |-> n, bytes |-> g] /\ g \in [Room(n) -> {0, 1}]
  BY <1>2 DEF IsString
<1>4. PICK f : f = [g EXCEPT ![m] = b]
  OBVIOUS
<1>5. f \in [Room(n) -> {0, 1}]
  BY <1>3, <1>4
<1>6. AppendedBit(x, b) = [size |-> n, bytes |-> f]
  <2>1. AppendedBit(x, b) = [r EXCEPT !.bytes[m] = b]
    BY <1>1, <1>2 DEF AppendedBit
  <2>2. [r EXCEPT !.bytes[m] = b] = [r EXCEPT !.bytes = f]
    BY <1>3, <1>4
  <2> QED
    BY <1>3, <2>1, <2>2
<1>7. ASSUME EndsBlank(x), NEW i \in Room(n), i >= n PROVE f[i] = 0
  <2>1. g[i] = 0
    BY <1>2, <1>3, <1>7 DEF EndsBlank
  <2>2. i # m
    BY <1>1, <1>7, PlacesAre
  <2> QED
    BY <1>3, <1>4, <2>1, <2>2
<1>8. IsString(AppendedBit(x, b))
  BY <1>5, <1>6, MadeOf
<1>9. ASSUME EndsBlank(x) PROVE EndsBlank(AppendedBit(x, b))
  BY <1>1, <1>5, <1>6, <1>7, <1>9, SpareOf
<1> QED
  BY <1>8, <1>9

\* The operators on whole bytes.
LEMMA CombinedStrings ==
  ASSUME NEW x, IsString(x), NEW y, IsString(y), x.size = y.size
  PROVE  /\ IsString(Xored(x, y)) /\ (EndsBlank(x) /\ EndsBlank(y) => EndsBlank(Xored(x, y)))
         /\ IsString(Anded(x, y)) /\ (EndsBlank(x) \/ EndsBlank(y) => EndsBlank(Anded(x, y)))
         /\ IsString(Ored(x, y)) /\ (EndsBlank(x) /\ EndsBlank(y) => EndsBlank(Ored(x, y)))
         /\ Xored(x, y).size = x.size
         /\ \A i \in 0..(x.size - 1) : Xored(x, y).bytes[i] = xor(x.bytes[i], y.bytes[i])
<1>0. PICK n \in Nat : n = x.size
  BY DEF IsString
<1>1. PICK b, c : /\ n = x.size /\ b = x.bytes /\ c = y.bytes
                  /\ b \in [Room(n) -> {0, 1}] /\ c \in [Room(n) -> {0, 1}]
  BY <1>0 DEF IsString
<1>2. n \in Nat /\ x = [size |-> n, bytes |-> b] /\ DOMAIN b = Room(n)
  BY <1>1, BitStringAssumption DEF IsString
<1>3. PICK f, g, h : /\ f = [i \in Room(n) |-> xor(b[i], c[i])]
                     /\ g = [i \in Room(n) |-> and(b[i], c[i])]
                     /\ h = [i \in Room(n) |-> or(b[i], c[i])]
  OBVIOUS
<1>4. \A i \in Room(n) : b[i] \in {0, 1} /\ c[i] \in {0, 1}
  BY <1>1
<1>5. f \in [Room(n) -> {0, 1}] /\ g \in [Room(n) -> {0, 1}] /\ h \in [Room(n) -> {0, 1}]
  <2>1. \A u \in {0, 1}, w \in {0, 1} : xor(u, w) \in {0, 1} /\ and(u, w) \in {0, 1} /\ or(u, w) \in {0, 1}
    BY DEF xor, and, or
  <2>2. \A i \in Room(n) : xor(b[i], c[i]) \in {0, 1} /\ and(b[i], c[i]) \in {0, 1} /\ or(b[i], c[i]) \in {0, 1}
    BY <1>4, <2>1
  <2> QED
    BY <1>3, <2>2
<1>6. /\ Xored(x, y) = [size |-> n, bytes |-> f]
      /\ Anded(x, y) = [size |-> n, bytes |-> g]
      /\ Ored(x, y) = [size |-> n, bytes |-> h]
  <2>1. /\ Xored(x, y) = [x EXCEPT !.bytes = [i \in DOMAIN @ |-> xor(@[i], y.bytes[i])]]
        /\ Anded(x, y) = [x EXCEPT !.bytes = [i \in DOMAIN @ |-> and(@[i], y.bytes[i])]]
        /\ Ored(x, y) = [x EXCEPT !.bytes = [i \in DOMAIN @ |-> or(@[i], y.bytes[i])]]
    BY DEF Xored, Anded, Ored, Bytewise
  <2> QED
    BY <1>1, <1>2, <1>3, <2>1
<1>7. xor(0, 0) = 0 /\ or(0, 0) = 0 /\ \A u \in {0, 1} : and(u, 0) = 0 /\ and(0, u) = 0
  BY DEF xor, and, or
<1>8. ASSUME EndsBlank(x), EndsBlank(y) PROVE \A i \in Room(n) : i >= n => f[i] = 0 /\ h[i] = 0
  BY <1>1, <1>3, <1>7, <1>8 DEF EndsBlank
<1>9. ASSUME EndsBlank(x) \/ EndsBlank(y) PROVE \A i \in Room(n) : i >= n => g[i] = 0
  BY <1>1, <1>3, <1>4, <1>7, <1>9 DEF EndsBlank
<1>10. \A i \in 0..(n - 1) : i \in Room(n)
  BY <1>2, PlacesAre
<1>11. \A i \in 0..(n - 1) : f[i] = xor(b[i], c[i])
  BY <1>3, <1>10
<1>12. IsString(Xored(x, y)) /\ IsString(Anded(x, y)) /\ IsString(Ored(x, y))
  BY <1>5, <1>6, MadeOf
<1>13. ASSUME EndsBlank(x), EndsBlank(y) PROVE EndsBlank(Xored(x, y)) /\ EndsBlank(Ored(x, y))
  BY <1>2, <1>5, <1>6, <1>8, <1>13, SpareOf
<1>14. ASSUME EndsBlank(x) \/ EndsBlank(y) PROVE EndsBlank(Anded(x, y))
  BY <1>2, <1>5, <1>6, <1>9, <1>14, SpareOf
<1> QED
  BY <1>1, <1>6, <1>11, <1>12, <1>13, <1>14

LEMMA ComplementString ==
  ASSUME NEW x, IsString(x)
  PROVE  IsString(Not(x)) /\ (x.size % Byte = 0 => EndsBlank(Not(x)))
<1>0. PICK n \in Nat : n = x.size
  BY DEF IsString
<1>1. PICK b : /\ n = x.size /\ b = x.bytes /\ b \in [Room(n) -> {0, 1}]
  BY <1>0 DEF IsString
<1>2. n \in Nat /\ x = [size |-> n, bytes |-> b] /\ DOMAIN b = Room(n)
  BY <1>1, BitStringAssumption DEF IsString
<1>3. PICK f : f = [i \in Room(n) |-> 1 - b[i]]
  OBVIOUS
<1>4. f \in [Room(n) -> {0, 1}]
  BY <1>1, <1>3
<1>5. Not(x) = [size |-> n, bytes |-> f]
  BY <1>2, <1>3 DEF Not
<1>6. ASSUME n % Byte = 0 PROVE \A i \in Room(n) : i >= n => f[i] = 0
  <2>1. Room(n) = 0..(n - 1)
    BY <1>2, <1>6, RoomFull, RoomIs
  <2> QED
    BY <1>2, <2>1
<1> QED
  BY <1>1, <1>2, <1>4, <1>5, <1>6, MadeOf, SpareOf

LEMMA WrittenString ==
  ASSUME NEW x, IsString(x), NEW i \in Below(x.size), NEW b \in {0, 1}
  PROVE  /\ IsString([x EXCEPT !.bytes[i] = b])
         /\ EndsBlank(x) => EndsBlank([x EXCEPT !.bytes[i] = b])
<1>0. PICK n \in Nat : n = x.size
  BY DEF IsString
<1>1. PICK g : /\ n = x.size /\ g = x.bytes /\ g \in [Room(n) -> {0, 1}]
  BY <1>0 DEF IsString
<1>2. n \in Nat /\ x = [size |-> n, bytes |-> g] /\ DOMAIN g = Room(n) /\ i \in 0..(n - 1)
  BY <1>1, BitStringAssumption DEF IsString, Below
<1>3. PICK f : f = [g EXCEPT ![i] = b]
  OBVIOUS
<1>4. f \in [Room(n) -> {0, 1}]
  BY <1>1, <1>3
<1>5. [x EXCEPT !.bytes[i] = b] = [size |-> n, bytes |-> f]
  BY <1>2, <1>3
<1>6. ASSUME EndsBlank(x), NEW j \in Room(n), j >= n PROVE f[j] = 0
  <2>1. g[j] = 0 /\ j # i
    BY <1>1, <1>2, <1>6 DEF EndsBlank
  <2> QED
    BY <1>1, <1>3, <2>1
<1> QED
  BY <1>1, <1>2, <1>4, <1>5, <1>6, MadeOf, SpareOf

\* The bytes that sample uses.
UsedBytes(v, n, u) ==
  /\ u \in 0..nBytes(n) /\ 2^(u * Byte) > v
  /\ u = 0 \/ 2^((u - 1) * Byte) <= v

LEMMA BytesFit ==
  ASSUME NEW n \in Nat, NEW v \in Nat, v < 2^n
  PROVE  \E u \in 0..nBytes(n) : 2^(u * Byte) > v /\ (u = 0 \/ 2^((u - 1) * Byte) <= v)
<1>1. Byte \in Nat \ {0}
  BY BitStringAssumption
<1>2. PICK b \in Nat : b = nBytes(n) /\ n <= b * Byte /\ b * Byte \in Nat
  BY RoomIs
<1> DEFINE S == {u \in 0..b : 2^(u * Byte) > v}
<1>3. b \in S
  <2>1. PICK p \in Nat : p = b * Byte /\ n <= p
    BY <1>2
  <2>2. 2^n <= 2^p /\ 2^n \in Nat /\ 2^p \in Nat
    BY <2>1, Powers, PowersGrow
  <2>3. 2^(b * Byte) > v
    BY <2>1, <2>2
  <2> QED
    BY <1>2, <2>3
<1>4. S \in SUBSET Nat /\ S \subseteq 0..b
  OBVIOUS
<1>5. ASSUME NEW u \in S PROVE 2^(u * Byte) > v /\ u \in 0..b
  OBVIOUS
<1>6. ASSUME NEW u \in 0..b, 2^(u * Byte) > v PROVE u \in S
  BY <1>6
<1> HIDE DEF S
<1>7. PICK u \in S : \A w \in S : u <= w
  BY <1>3, <1>4, LeastExists
<1>8. ASSUME u # 0 PROVE 2^((u - 1) * Byte) <= v
  <2>1. u - 1 \in 0..b /\ u - 1 \in Nat /\ u - 1 < u
    BY <1>5, <1>8
  <2>2. u - 1 \notin S
    BY <1>5, <1>7, <2>1
  <2>3. ~(2^((u - 1) * Byte) > v)
    BY <1>6, <2>1, <2>2
  <2>4. (u - 1) * Byte \in Nat
    BY <1>1, <2>1
  <2>5. 2^((u - 1) * Byte) \in Nat
    BY <2>4, Powers
  <2> QED
    BY <2>3, <2>5
<1> QED
  BY <1>2, <1>5, <1>7, <1>8

LEMMA SampledString ==
  ASSUME NEW n \in Nat, NEW v \in Nat, v < 2^n
  PROVE  /\ IsString(Sampled(v, n))
         /\ n % Byte = 0 \/ n < Byte => EndsBlank(Sampled(v, n))
<1>0. n \in Nat /\ Byte \in Nat \ {0}
  BY BitStringAssumption
<1> DEFINE Fits(u) == 2^(u * Byte) > v /\ (u = 0 \/ 2^((u - 1) * Byte) <= v)
           used == CHOOSE u \in 0..nBytes(n) : Fits(u)
<1>1. used \in 0..nBytes(n)
  BY <1>0, BytesFit, Zenon
<1>2. PICK f : f = [i \in Room(n) |->
         IF i < used * Byte THEN BitOf(v, ((used - 1 - (i \div Byte)) * Byte) + (i % Byte)) ELSE 0]
  OBVIOUS
<1>3. Sampled(v, n) = [size |-> n, bytes |-> f]
  BY <1>2 DEF Sampled
<1> HIDE DEF used
<1>4. PICK u \in Nat : u = used /\ u <= nBytes(n)
  BY <1>0, <1>1, RoomIs
<1>5. \A i \in Room(n) : i \in Nat
  BY <1>0, PlacesAre
<1>6. ASSUME NEW i \in Room(n), i < u * Byte
      PROVE  ((u - 1 - (i \div Byte)) * Byte) + (i % Byte) \in Nat
  <2>1. PICK d \in Nat, r \in 0..(Byte - 1) : d = i \div Byte /\ r = i % Byte /\ i = d * Byte + r
    BY <1>0, <1>5, Divided
  <2>2. d < u
    <3> SUFFICES ASSUME u <= d PROVE FALSE
      BY <1>4, <2>1
    <3>1. u * Byte <= d * Byte
      BY <1>0, <1>4, <2>1
    <3> QED
      BY <1>0, <1>4, <1>6, <2>1, <3>1
  <2>3. PICK t \in Nat : t = u - 1 - d
    BY <1>4, <2>1, <2>2
  <2>4. t * Byte \in Nat /\ u - 1 - (i \div Byte) = t
    BY <1>0, <2>1, <2>3
  <2>5. t * Byte + r \in Nat
    BY <1>0, <2>1, <2>4
  <2> QED
    BY <2>1, <2>4, <2>5
<1>7. \A i \in Room(n) : f[i] \in {0, 1}
  BY <1>2, <1>4, <1>6, BitOfIs
<1>8. f \in [Room(n) -> {0, 1}]
  BY <1>2, <1>7
<1>9. ASSUME n % Byte = 0 \/ n < Byte, NEW i \in Room(n), i >= n PROVE f[i] = 0
  <2>1. CASE n % Byte = 0
    <3>1. Room(n) = 0..(n - 1)
      BY <1>0, <2>1, RoomFull, RoomIs
    <3> QED
      BY <1>0, <1>5, <1>9, <3>1
  <2>2. CASE n < Byte
    <3>1. PICK b \in Nat : b = nBytes(n) /\ b * Byte < n + Byte /\ Room(n) = 0..(b * Byte - 1)
      BY <1>0, RoomIs
    <3>2. b <= 1
      <4> SUFFICES ASSUME b >= 2 PROVE FALSE
        BY <3>1
      <4>1. b * Byte >= 2 * Byte
        BY <1>0, <3>1
      <4> QED
        BY <1>0, <2>2, <3>1, <4>1
    <3>3. u = 0 \/ u = 1
      BY <1>4, <3>1, <3>2
    <3>4. CASE u = 0
      <4>1. u * Byte = 0 /\ ~(i < 0)
        BY <1>0, <1>5, <3>4
      <4> QED
        BY <1>2, <1>4, <4>1
    <3>5. CASE u = 1
      <4>1. u * Byte = Byte
        BY <1>0, <3>5
      <4>2. CASE i < Byte
        <5>1. i \div Byte = 0 /\ i % Byte = i
          BY <1>0, <1>5, <4>2, SmallRemainder
        <5>2. ((u - 1 - (i \div Byte)) * Byte) + (i % Byte) = i
          BY <1>0, <1>5, <3>5, <5>1
        <5>3. f[i] = BitOf(v, i)
          BY <1>2, <1>4, <4>1, <4>2, <5>2
        <5> QED
          BY <1>0, <1>5, <1>9, <5>3, BitOfSmall
      <4>3. CASE ~(i < Byte)
        BY <1>2, <1>4, <4>1, <4>3
      <4> QED
        BY <4>2, <4>3
    <3> QED
      BY <3>3, <3>4, <3>5
  <2> QED
    BY <1>9, <2>1, <2>2
<1>10. IsString(Sampled(v, n))
  BY <1>3, <1>8, MadeOf
<1>11. ASSUME n % Byte = 0 \/ n < Byte PROVE EndsBlank(Sampled(v, n))
  BY <1>0, <1>3, <1>8, <1>9, <1>11, SpareOf
<1> QED
  BY <1>10, <1>11

\* The mask has no bit behind the end.
LEMMA MaskSmall ==
  ASSUME NEW a \in Nat, NEW s \in 0..a
  PROVE  (2^a - 1) \div 2^s \in Nat /\ (2^a - 1) \div 2^s < 2^(a - s)
<1>1. PICK t \in Nat : t = a - s /\ a = t + s /\ s \in Nat
  OBVIOUS
<1>2. PICK p \in Nat \ {0}, r \in Nat \ {0} : p = 2^s /\ r = 2^t
  BY <1>1, Powers
<1>3. 2^a = r * p
  BY <1>1, <1>2, PowersAdd
<1>4. PICK c \in Nat : c = r * p - 1
  <2>1. r * p >= 1 /\ r * p \in Nat
    BY <1>2
  <2> QED
    BY <2>1
<1>5. PICK d \in Nat, e \in 0..(p - 1) : d = c \div p /\ c = d * p + e
  <2>1. c \div p \in Nat /\ c % p \in 0..(p - 1) /\ c = (c \div p) * p + (c % p)
    BY Zenon, <1>2, <1>4, Divided
  <2> QED
    BY <2>1
<1>6. d < r
  <2> SUFFICES ASSUME r <= d PROVE FALSE
    BY <1>2, <1>5
  <2>1. r * p <= d * p
    BY <1>2, <1>5
  <2> QED
    BY <1>2, <1>4, <1>5, <2>1
<1> QED
  BY <1>1, <1>2, <1>3, <1>4, <1>5, <1>6

LEMMA ExpandedString ==
  ASSUME NEW n \in Nat \ {0}, NEW v \in Nat
  PROVE  IsString(Aes(v, n)) /\ EndsBlank(Aes(v, n))
<1>0. n \in Nat /\ n \in Nat /\ n # 0 /\ Byte \in Nat \ {0}
  BY BitStringAssumption
<1>1. PICK b \in Nat : /\ b = nBytes(n) /\ n <= b * Byte /\ b * Byte < n + Byte /\ b * Byte \in Nat
                       /\ Room(n) = 0..(b * Byte - 1)
  BY <1>0, RoomIs
<1>2. PICK last \in Nat : last = (b - 1) * Byte /\ last + Byte = b * Byte
  <2>1. b # 0
    <3> SUFFICES ASSUME b = 0 PROVE FALSE
      OBVIOUS
    <3>1. b * Byte = 0
      BY <1>0
    <3> QED
      BY <1>0, <1>1, <3>1
  <2>2. PICK d \in Nat : d = b - 1 /\ b = d + 1
    BY <1>1, <2>1
  <2>3. d * Byte \in Nat /\ (d + 1) * Byte = d * Byte + Byte
    BY <1>0, <2>2
  <2> QED
    BY <2>2, <2>3
<1>3. PICK s \in 0..Byte : s = b * Byte - n
  BY <1>0, <1>1
<1>4. PICK mask \in Nat : mask = (2^Byte - 1) \div 2^s /\ mask < 2^(Byte - s)
  BY <1>0, <1>3, MaskSmall
<1>5. PICK g : g = [i \in Room(n) |-> BitOf(v, i)]
  OBVIOUS
<1>6. \A i \in Room(n) : i \in Nat
  BY <1>0, PlacesAre
<1>7. fromUInt(v, n) = [size |-> n, bytes |-> g] /\ DOMAIN g = Room(n)
  BY <1>5 DEF fromUInt
<1>8. PICK f : f = [i \in Room(n) |-> IF i < last THEN g[i] ELSE and(g[i], BitOf(mask, i - last))]
  OBVIOUS
<1>9. Aes(v, n) = [size |-> n, bytes |-> f]
  <2>1. Aes(v, n) = [fromUInt(v, n) EXCEPT !.bytes = [i \in DOMAIN @ |->
                       IF i < last THEN @[i] ELSE and(@[i], BitOf(mask, i - last))]]
    BY <1>1, <1>2, <1>3, <1>4 DEF Aes
  <2> QED
    BY <1>7, <1>8, <2>1
<1>10. \A i \in Room(n) : g[i] \in {0, 1}
  BY <1>5, <1>6, BitOfIs
<1>11. \A u \in {0, 1}, w \in {0, 1} : and(u, w) \in {0, 1} /\ and(u, 0) = 0
  BY DEF and
<1>12. ASSUME NEW i \in Room(n) PROVE f[i] \in {0, 1} /\ (i >= n => f[i] = 0)
  <2>1. CASE i < last
    <3>1. ~(i >= n)
      BY <1>0, <1>1, <1>2, <1>6, <2>1
    <3> QED
      BY <1>8, <1>10, <2>1, <3>1
  <2>2. CASE ~(i < last)
    <3>1. PICK j \in Nat : j = i - last
      BY <1>6, <2>2
    <3>2. BitOf(mask, j) \in {0, 1}
      BY BitOfIs
    <3>3. f[i] = and(g[i], BitOf(mask, j))
      BY <1>8, <2>2, <3>1
    <3>4. ASSUME i >= n PROVE BitOf(mask, j) = 0
      <4>1. PICK m \in Nat : m = Byte - s /\ j >= m
        BY <1>0, <1>2, <1>3, <1>6, <3>1, <3>4
      <4> QED
        BY <1>4, <4>1, BitOfSmall
    <3> QED
      BY <1>10, <1>11, <3>2, <3>3, <3>4
  <2> QED
    BY <2>1, <2>2
<1>13. f \in [Room(n) -> {0, 1}]
  BY <1>8, <1>12
<1>14. \A i \in Room(n) : i >= n => f[i] = 0
  BY <1>12
<1>15. IsString(Aes(v, n))
  BY <1>0, <1>9, <1>13, MadeOf
<1>16. EndsBlank(Aes(v, n))
  BY <1>0, <1>9, <1>13, <1>14, SpareOf
<1> QED
  BY <1>15, <1>16

-----------------------------------------------------------------------------
(* Every object is a string, and one of which nothing was left in the spare *)
(* bits has none there.                                                     *)
BitStringInv ==
  /\ string = [o \in Objects |-> string[o]]
  /\ neat \in [Objects -> BOOLEAN]
  /\ \A o \in Objects : IsString(string[o]) /\ (neat[o] => EndsBlank(string[o]))

LEMMA BitStringStarts == BitStringInit => BitStringInv
<1> SUFFICES ASSUME BitStringInit PROVE BitStringInv
  OBVIOUS
<1>1. string = [o \in Objects |-> Empty] /\ neat = [o \in Objects |-> TRUE]
  BY DEF BitStringInit
<1>2. \A o \in Objects : string[o] = Empty
  BY <1>1
<1>3. string = [o \in Objects |-> string[o]] /\ neat \in [Objects -> BOOLEAN]
  BY <1>1
<1> QED
  BY <1>2, <1>3, EmptyIs DEF BitStringInv

LEMMA BecomesKeeps ==
  ASSUME BitStringInv, NEW o \in Objects, NEW x, IsString(x), NEW e \in BOOLEAN,
         e => EndsBlank(x), Becomes(o, x, e)
  PROVE  BitStringInv'
<1>1. string' = [string EXCEPT ![o] = x] /\ neat' = [neat EXCEPT ![o] = e]
  BY DEF Becomes
<1>2. string = [p \in Objects |-> string[p]] /\ neat \in [Objects -> BOOLEAN]
  BY DEF BitStringInv
<1>3. \A p \in Objects : string'[p] = IF p = o THEN x ELSE string[p]
  BY <1>1, <1>2
<1>4. \A p \in Objects : neat'[p] = IF p = o THEN e ELSE neat[p]
  BY <1>1, <1>2
<1>5. string' = [p \in Objects |-> string'[p]]
  BY <1>1, <1>2
<1>6. neat' \in [Objects -> BOOLEAN]
  BY <1>1, <1>2
<1>7. ASSUME NEW p \in Objects PROVE IsString(string'[p]) /\ (neat'[p] => EndsBlank(string'[p]))
  <2>1. CASE p = o
    <3>1. string'[p] = x /\ neat'[p] = e
      BY <1>3, <1>4, <2>1
    <3> QED
      BY <3>1
  <2>2. CASE p # o
    <3>1. string'[p] = string[p] /\ neat'[p] = neat[p]
      BY <1>3, <1>4, <2>2
    <3>2. IsString(string[p]) /\ (neat[p] => EndsBlank(string[p]))
      BY DEF BitStringInv
    <3> QED
      BY <3>1, <3>2
  <2> QED
    BY <2>1, <2>2
<1> QED
  BY <1>5, <1>6, <1>7 DEF BitStringInv

LEMMA BitStringKept ==
  ASSUME BitStringInv, [BitStringNext]_bitStringVars
  PROVE  BitStringInv'
<1>1. CASE UNCHANGED bitStringVars
  <2>1. string' = string /\ neat' = neat
    BY <1>1 DEF bitStringVars
  <2> QED
    BY <2>1 DEF BitStringInv
<1>2. CASE BitStringNext
  <2> PICK o \in Objects, p \in Objects :
        \/ FromUInt(o) \/ Sample(o) \/ Expand(o) \/ Cut(o, p) \/ Resize(o) \/ AppendTo(o, p)
        \/ AppendBit(o) \/ Combine(o, p) \/ Complement(o) \/ Mirror(o, p) \/ SetBit(o) \/ Clear(o) \/ Assign(o, p)
    BY <1>2 DEF BitStringNext
  <2>1. /\ IsString(string[o]) /\ (neat[o] => EndsBlank(string[o]))
        /\ IsString(string[p]) /\ (neat[p] => EndsBlank(string[p]))
        /\ neat[o] \in BOOLEAN /\ neat[p] \in BOOLEAN
    BY DEF BitStringInv
  <2>2. ASSUME NEW m \in Nat PROVE \A v \in Below(2^m) : v \in Nat
    <3>1. 2^m \in Nat
      BY Powers
    <3> QED
      BY <3>1 DEF Below
  <2>3. MaxBits \in Nat /\ nBytes(MaxBits) * Byte \in Nat
    BY BitStringAssumption, RoomIs
  <2>4. CASE FromUInt(o)
    <3>1. PICK n \in 0..MaxBits, v \in Below(2^(nBytes(MaxBits) * Byte)) : Becomes(o, fromUInt(v, n), v < 2^n)
      BY <2>4 DEF FromUInt
    <3>2. v \in Nat
      BY <2>2, <2>3, <3>1
    <3>3. IsString(fromUInt(v, n)) /\ (v < 2^n => EndsBlank(fromUInt(v, n)))
      BY <3>2, FromNumber
    <3>4. (v < 2^n) \in BOOLEAN
      OBVIOUS
    <3> QED
      BY Zenon, <3>1, <3>3, <3>4, BecomesKeeps
  <2>5. CASE Sample(o)
    <3>1. PICK n \in 0..MaxBits, v \in Below(2^MaxBits) :
            v < 2^n /\ Becomes(o, Sampled(v, n), n % Byte = 0 \/ n < Byte)
      BY <2>5 DEF Sample
    <3>2. v \in Nat
      BY <2>2, <2>3, <3>1
    <3>3. IsString(Sampled(v, n)) /\ (n % Byte = 0 \/ n < Byte => EndsBlank(Sampled(v, n)))
      BY <3>1, <3>2, SampledString
    <3>4. (n % Byte = 0 \/ n < Byte) \in BOOLEAN
      OBVIOUS
    <3> QED
      BY Zenon, <3>1, <3>3, <3>4, BecomesKeeps
  <2>6. CASE Expand(o)
    <3>1. PICK n \in 1..MaxBits, v \in Below(2^(nBytes(MaxBits) * Byte)) : Becomes(o, Aes(v, n), TRUE)
      BY <2>6 DEF Expand
    <3>2. v \in Nat
      BY <2>2, <2>3, <3>1
    <3>3. IsString(Aes(v, n)) /\ EndsBlank(Aes(v, n))
      BY <3>2, ExpandedString
    <3> QED
      BY Zenon, <3>1, <3>3, BecomesKeeps
  <2>7. CASE Cut(o, p)
    <3>1. PICK from \in 0..MaxBits, to \in 0..MaxBits :
            ~SliceThrows(string[p], from, to) /\ Becomes(o, Slice(string[p], from, to), TRUE)
      BY <2>7 DEF Cut
    <3>2. IsString(Slice(string[p], from, to)) /\ EndsBlank(Slice(string[p], from, to))
      BY <2>1, <3>1, CutString
    <3> QED
      BY Zenon, <3>1, <3>2, BecomesKeeps
  <2>8. CASE Resize(o)
    <3>1. PICK n \in 0..MaxBits :
            Becomes(o, Resized(string[o], n), neat[o] /\ (n >= string[o].size \/ n % Byte = 0))
      BY <2>8 DEF Resize
    <3>2. n \in Nat
      BY <2>3
    <3>3. /\ IsString(Resized(string[o], n))
          /\ EndsBlank(string[o]) /\ (n >= string[o].size \/ n % Byte = 0) => EndsBlank(Resized(string[o], n))
      BY Zenon, <2>1, <3>2, ResizedString
    <3>4. (neat[o] /\ (n >= string[o].size \/ n % Byte = 0)) \in BOOLEAN
      OBVIOUS
    <3> QED
      BY Zenon, <2>1, <3>1, <3>3, <3>4, BecomesKeeps
  <2>9. CASE AppendTo(o, p)
    <3>1. string[o].size + string[p].size <= MaxBits /\ Becomes(o, Appended(string[o], string[p]), neat[o])
      BY <2>9 DEF AppendTo
    <3>2. IsString(Appended(string[o], string[p]))
          /\ (EndsBlank(string[o]) => EndsBlank(Appended(string[o], string[p])))
      BY <2>1, <3>1, AppendedString
    <3> QED
      BY Zenon, <2>1, <3>1, <3>2, BecomesKeeps
  <2>10. CASE AppendBit(o)
    <3>1. PICK b \in {0, 1} : string[o].size < MaxBits /\ Becomes(o, AppendedBit(string[o], b), neat[o])
      BY <2>10 DEF AppendBit
    <3>2. IsString(AppendedBit(string[o], b)) /\ (EndsBlank(string[o]) => EndsBlank(AppendedBit(string[o], b)))
      BY <2>1, <3>1, AppendedBitString
    <3> QED
      BY Zenon, <2>1, <3>1, <3>2, BecomesKeeps
  <2>11. CASE Combine(o, p)
    <3>1. string[o].size = string[p].size
      BY <2>11 DEF Combine
    <3>2. PICK x, y : x = string[o] /\ y = string[p]
      OBVIOUS
    <3>3. /\ IsString(Xored(x, y)) /\ (EndsBlank(x) /\ EndsBlank(y) => EndsBlank(Xored(x, y)))
          /\ IsString(Anded(x, y)) /\ (EndsBlank(x) \/ EndsBlank(y) => EndsBlank(Anded(x, y)))
          /\ IsString(Ored(x, y)) /\ (EndsBlank(x) /\ EndsBlank(y) => EndsBlank(Ored(x, y)))
      BY <2>1, <3>1, <3>2, CombinedStrings
    <3>4. \/ Becomes(o, Xored(x, y), neat[o] /\ neat[p])
          \/ Becomes(o, Anded(x, y), neat[o] \/ neat[p])
          \/ Becomes(o, Ored(x, y), neat[o] /\ neat[p])
      BY <2>11, <3>2 DEF Combine
    <3>5. (neat[o] /\ neat[p]) \in BOOLEAN /\ (neat[o] \/ neat[p]) \in BOOLEAN
      OBVIOUS
    <3>6. ASSUME Becomes(o, Xored(x, y), neat[o] /\ neat[p]) PROVE BitStringInv'
      BY Zenon, <2>1, <3>2, <3>3, <3>5, <3>6, BecomesKeeps
    <3>7. ASSUME Becomes(o, Anded(x, y), neat[o] \/ neat[p]) PROVE BitStringInv'
      BY Zenon, <2>1, <3>2, <3>3, <3>5, <3>7, BecomesKeeps
    <3>8. ASSUME Becomes(o, Ored(x, y), neat[o] /\ neat[p]) PROVE BitStringInv'
      BY Zenon, <2>1, <3>2, <3>3, <3>5, <3>8, BecomesKeeps
    <3> QED
      BY <3>4, <3>6, <3>7, <3>8
  <2>12. CASE Complement(o)
    <3>1. Becomes(o, Not(string[o]), neat[o] /\ string[o].size % Byte = 0)
      BY <2>12 DEF Complement
    <3>2. IsString(Not(string[o])) /\ (string[o].size % Byte = 0 => EndsBlank(Not(string[o])))
      BY <2>1, ComplementString
    <3>3. (neat[o] /\ string[o].size % Byte = 0) \in BOOLEAN
      OBVIOUS
    <3> QED
      BY Zenon, <3>1, <3>2, <3>3, BecomesKeeps
  <2>13. CASE Mirror(o, p)
    <3>1. Becomes(o, Reversed(string[p]), TRUE)
      BY <2>13 DEF Mirror
    <3>2. IsString(Reversed(string[p])) /\ EndsBlank(Reversed(string[p]))
      BY <2>1, ReversedString
    <3> QED
      BY Zenon, <3>1, <3>2, BecomesKeeps
  <2>14. CASE SetBit(o)
    <3>1. PICK i \in Below(string[o].size), b \in {0, 1} :
            Becomes(o, [string[o] EXCEPT !.bytes[i] = b], neat[o])
      BY <2>14 DEF SetBit
    <3>2. IsString([string[o] EXCEPT !.bytes[i] = b])
          /\ (EndsBlank(string[o]) => EndsBlank([string[o] EXCEPT !.bytes[i] = b]))
      BY <2>1, WrittenString
    <3> QED
      BY Zenon, <2>1, <3>1, <3>2, BecomesKeeps
  <2>15. CASE Clear(o)
    <3>1. Becomes(o, Empty, TRUE)
      BY <2>15 DEF Clear
    <3> QED
      BY Zenon, <3>1, EmptyIs, BecomesKeeps
  <2>16. CASE Assign(o, p)
    <3>1. Becomes(o, string[p], neat[p])
      BY <2>16 DEF Assign
    <3> QED
      BY Zenon, <2>1, <3>1, BecomesKeeps
  <2> QED
    BY <2>4, <2>5, <2>6, <2>7, <2>8, <2>9, <2>10, <2>11, <2>12, <2>13, <2>14, <2>15, <2>16
<1> QED
  BY <1>1, <1>2

LEMMA BitStringInvariance == BitStringSpec => []BitStringInv
<1>1. BitStringInv /\ [BitStringNext]_bitStringVars => BitStringInv'
  BY BitStringKept
<1> QED
  BY <1>1, BitStringStarts, PTL DEF BitStringSpec

-----------------------------------------------------------------------------
(* The order of strings, a byte at a time from the first. *)
LEMMA NumberBlank ==
  ASSUME NEW n \in Nat, NEW b, \A i \in 0..(n - 1) : b[i] = 0
  PROVE  Number(b, n) = 0
<1> DEFINE S == {j \in 0..n : Number(b, j) = 0}
<1>1. 0 \in S
  BY NumberEmpty
<1>2. ASSUME NEW j \in 0..(n - 1), j \in S PROVE j + 1 \in S
  <2>1. j + 1 \in 0..n /\ j \in Nat /\ Number(b, j) = 0
    BY <1>2
  <2>2. AreBits(b, j + 1) /\ b[j] = 0
    BY DEF AreBits
  <2>3. 2^j \in Nat
    BY <2>1, Powers
  <2>4. Number(b, j + 1) = 0 + 0 * 2^j
    BY <2>1, <2>2, NumberNext
  <2>5. Number(b, j + 1) = 0
    BY <2>3, <2>4
  <2> QED
    BY <2>1, <2>5
<1> HIDE DEF S
<1>3. 0..n \subseteq S
  BY Zenon, <1>1, <1>2, IntervalInduction
<1>4. n \in S
  BY <1>3
<1> QED
  BY <1>4 DEF S

\* With nothing in the spare bits, a string has the number of its bytes.
LEMMA NumberOfBytes ==
  ASSUME NEW x, IsString(x), EndsBlank(x)
  PROVE  toUInt(x) = Number(x.bytes, nBytes(x.size) * Byte)
<1>0. PICK n \in Nat : n = x.size
  BY DEF IsString
<1>1. PICK b : n = x.size /\ b = x.bytes /\ b \in [Room(n) -> {0, 1}]
  BY <1>0 DEF IsString
<1>2. PICK a \in Nat : a = nBytes(n) * Byte /\ n <= a /\ Room(n) = 0..(a - 1)
  BY RoomIs
<1>3. PICK r \in Nat : a = n + r
  <2>1. a - n \in Nat /\ a = n + (a - n)
    BY <1>2
  <2> QED
    BY <2>1
<1>4. PICK c : c = [i \in 0..(r - 1) |-> b[n + i]]
  OBVIOUS
<1>5. Shifted(b, n, r, c) /\ AreBits(b, n + r)
  BY <1>1, <1>2, <1>3, <1>4 DEF Shifted, AreBits
<1>6. \A i \in 0..(r - 1) : c[i] = 0
  <2> SUFFICES ASSUME NEW i \in 0..(r - 1) PROVE b[n + i] = 0
    BY <1>4
  <2>1. n + i \in Room(n) /\ n + i >= n
    BY <1>2, <1>3
  <2> QED
    BY <1>1, <2>1 DEF EndsBlank
<1>7. Number(b, n + r) = Number(b, n) + 2^n * Number(c, r)
  BY <1>5, NumberParts
<1>8. Number(c, r) = 0
  BY <1>6, NumberBlank
<1>9. Number(b, n) \in Int /\ 2^n \in Nat
  <2>1. AreBits(b, n)
    BY <1>5 DEF AreBits
  <2>2. 2^n \in Nat
    BY Powers
  <2>3. Number(b, n) \in 0..(2^n - 1)
    BY <2>1, NumberSmall
  <2> QED
    BY <2>2, <2>3
<1>10. Number(b, n + r) = Number(b, n)
  BY <1>7, <1>8, <1>9
<1> QED
  BY <1>1, <1>2, <1>3, <1>10 DEF toUInt

ByteNumber(b, m) == Number([i \in Below(Byte) |-> b[m * Byte + i]], Byte)

Precedes(b, d, n) ==
  \E m \in 0..(n - 1) : /\ ByteNumber(b, m) < ByteNumber(d, m)
                        /\ \A i \in 0..(n - 1) : i > m => ByteNumber(b, i) = ByteNumber(d, i)

LEMMA OneMoreByte ==
  ASSUME NEW n \in Nat, NEW b, AreBits(b, (n + 1) * Byte)
  PROVE  /\ AreBits(b, n * Byte) /\ n * Byte \in Nat /\ ByteNumber(b, n) \in Nat
         /\ Number(b, (n + 1) * Byte) = Number(b, n * Byte) + 2^(n * Byte) * ByteNumber(b, n)
<1>1. PICK a \in Nat, w \in Nat : a = n * Byte /\ w = Byte /\ (n + 1) * Byte = a + w
  BY BitStringAssumption
<1>2. PICK c : c = [i \in Below(Byte) |-> b[n * Byte + i]]
  OBVIOUS
<1>3. Shifted(b, a, w, c)
  BY <1>1, <1>2 DEF Shifted, Below
<1>4. AreBits(b, a) /\ AreBits(c, w) /\ Number(b, a + w) = Number(b, a) + 2^a * Number(c, w)
  BY <1>1, <1>3, NumberParts
<1>5. Number(c, w) \in Nat
  <2>1. Number(c, w) \in 0..(2^w - 1) /\ 2^w \in Nat
    BY <1>4, NumberSmall, Powers
  <2> QED
    BY <2>1
<1>6. ByteNumber(b, n) = Number(c, w)
  BY <1>1, <1>2 DEF ByteNumber
<1> QED
  BY <1>1, <1>4, <1>5, <1>6

LEMMA FirstPartsDecide ==
  ASSUME NEW p \in Nat, NEW u \in 0..(p - 1), NEW v \in 0..(p - 1), NEW y \in Nat, NEW z \in Nat
  PROVE  u + p * y < v + p * z <=> y < z \/ (y = z /\ u < v)
<1>1. CASE y = z
  BY <1>1
<1>2. CASE y < z
  <2>1. PICK t \in Nat : z = y + 1 + t
    <3>1. z - y - 1 \in Nat /\ z = y + 1 + (z - y - 1)
      BY <1>2
    <3> QED
      BY <3>1
  <2>2. p * z = p * y + p + p * t /\ p * t \in Nat /\ p * y \in Nat
    BY <2>1
  <2> QED
    BY <1>2, <2>2
<1>3. CASE z < y
  <2>1. PICK t \in Nat : y = z + 1 + t
    <3>1. y - z - 1 \in Nat /\ y = z + 1 + (y - z - 1)
      BY <1>3
    <3> QED
      BY <3>1
  <2>2. p * y = p * z + p + p * t /\ p * t \in Nat /\ p * z \in Nat
    BY <2>1
  <2> QED
    BY <1>3, <2>2
<1> QED
  BY <1>1, <1>2, <1>3

LEMMA OrderOfBytes ==
  ASSUME NEW len \in Nat, NEW b, NEW d, AreBits(b, len * Byte), AreBits(d, len * Byte)
  PROVE  Precedes(b, d, len) <=> Number(b, len * Byte) < Number(d, len * Byte)
<1> DEFINE S == {n \in 0..len : Precedes(b, d, n) <=> Number(b, n * Byte) < Number(d, n * Byte)}
<1>1. 0 \in S
  <2>1. ~Precedes(b, d, 0)
    BY DEF Precedes
  <2>2. 0 * Byte = 0 /\ Number(b, 0) = 0 /\ Number(d, 0) = 0
    BY NumberEmpty, BitStringAssumption
  <2> QED
    BY <2>1, <2>2
<1>2. ASSUME NEW n \in 0..(len - 1), n \in S PROVE n + 1 \in S
  <2>1. n + 1 \in 0..len /\ n \in Nat
    OBVIOUS
  <2>2. AreBits(b, (n + 1) * Byte) /\ AreBits(d, (n + 1) * Byte)
    <3>1. PICK e \in Nat, g \in Nat : e = (n + 1) * Byte /\ g = len * Byte /\ e <= g
      <4>1. len * Byte = (n + 1) * Byte + (len - (n + 1)) * Byte
        BY BitStringAssumption
      <4>2. (len - (n + 1)) * Byte \in Nat /\ (n + 1) * Byte \in Nat /\ len * Byte \in Nat
        BY BitStringAssumption, <2>1
      <4> QED
        BY <4>1, <4>2
    <3> QED
      BY <3>1 DEF AreBits
  <2>3. PICK a \in Nat, p \in Nat : a = n * Byte /\ p = 2^a
    BY <2>1, <2>2, OneMoreByte, Powers
  <2>4. PICK u \in 0..(p - 1), v \in 0..(p - 1) : u = Number(b, a) /\ v = Number(d, a)
    BY <2>1, <2>2, <2>3, OneMoreByte, NumberSmall
  <2>5. PICK y \in Nat, z \in Nat : y = ByteNumber(b, n) /\ z = ByteNumber(d, n)
    BY <2>1, <2>2, OneMoreByte
  <2>6. Number(b, (n + 1) * Byte) = u + p * y
    BY <2>1, <2>2, <2>3, <2>4, <2>5, OneMoreByte
  <2>7. Number(d, (n + 1) * Byte) = v + p * z
    BY <2>1, <2>2, <2>3, <2>4, <2>5, OneMoreByte
  <2>8. Precedes(b, d, n) <=> u < v
    BY <1>2, <2>3, <2>4
  <2>9. Precedes(b, d, n + 1) <=> y < z \/ (y = z /\ Precedes(b, d, n))
    <3>1. ASSUME Precedes(b, d, n + 1) PROVE y < z \/ (y = z /\ Precedes(b, d, n))
      <4>1. PICK m \in 0..n : /\ ByteNumber(b, m) < ByteNumber(d, m)
                              /\ \A i \in 0..n : i > m => ByteNumber(b, i) = ByteNumber(d, i)
        BY <3>1, <2>1 DEF Precedes
      <4>2. CASE m = n
        BY <2>5, <4>1, <4>2
      <4>3. CASE m # n
        <5>1. m \in 0..(n - 1) /\ y = z
          BY <2>1, <2>5, <4>1, <4>3
        <5>2. \A i \in 0..(n - 1) : i > m => ByteNumber(b, i) = ByteNumber(d, i)
          BY <4>1
        <5>3. Precedes(b, d, n)
          BY <4>1, <5>1, <5>2 DEF Precedes
        <5> QED
          BY <5>1, <5>3
      <4> QED
        BY <4>2, <4>3
    <3>2. ASSUME y < z PROVE Precedes(b, d, n + 1)
      <4>1. \A i \in 0..((n + 1) - 1) : ~(i > n)
        BY <2>1
      <4>2. n \in 0..((n + 1) - 1)
        BY <2>1
      <4> QED
        BY <2>5, <3>2, <4>1, <4>2 DEF Precedes
    <3>3. ASSUME y = z, Precedes(b, d, n) PROVE Precedes(b, d, n + 1)
      <4>1. PICK m \in 0..(n - 1) : /\ ByteNumber(b, m) < ByteNumber(d, m)
                                    /\ \A i \in 0..(n - 1) : i > m => ByteNumber(b, i) = ByteNumber(d, i)
        BY <3>3 DEF Precedes
      <4>2. \A i \in 0..((n + 1) - 1) : i = n \/ i \in 0..(n - 1)
        BY <2>1
      <4>3. \A i \in 0..((n + 1) - 1) : i > m => ByteNumber(b, i) = ByteNumber(d, i)
        BY <2>5, <3>3, <4>1, <4>2
      <4>4. m \in 0..((n + 1) - 1)
        BY <2>1
      <4> QED
        BY <4>1, <4>3, <4>4 DEF Precedes
    <3> QED
      BY <3>1, <3>2, <3>3
  <2>10. u + p * y < v + p * z <=> y < z \/ (y = z /\ u < v)
    BY FirstPartsDecide
  <2>11. Precedes(b, d, n + 1) <=> Number(b, (n + 1) * Byte) < Number(d, (n + 1) * Byte)
    BY <2>6, <2>7, <2>8, <2>9, <2>10
  <2> QED
    BY <2>1, <2>11
<1> HIDE DEF S
<1>3. 0..len \subseteq S
  BY Zenon, <1>1, <1>2, IntervalInduction
<1>4. len \in S
  BY <1>3
<1> QED
  BY <1>4 DEF S

(* Strings that no call has left spare bits in are in the order of their    *)
(* numbers, which the Gaussian sampler compares with.                       *)
THEOREM OrderIsOfNumbers == BitStringSpec => []OrderAgrees
<1>1. BitStringInv => OrderAgrees
  <2> SUFFICES ASSUME BitStringInv, NEW o \in Objects, NEW p \in Objects
               PROVE  /\ neat[o] => \A i \in DOMAIN string[o].bytes : i >= string[o].size => string[o].bytes[i] = 0
                      /\ neat[o] /\ neat[p] /\ string[o].size = string[p].size =>
                           (Less(string[o], string[p]) <=> toUInt(string[o]) < toUInt(string[p]))
    BY DEF OrderAgrees
  <2>1. PICK x, y : x = string[o] /\ y = string[p]
    OBVIOUS
  <2>2. /\ IsString(x) /\ (neat[o] => EndsBlank(x))
        /\ IsString(y) /\ (neat[p] => EndsBlank(y))
    BY <2>1 DEF BitStringInv
  <2>3. neat[o] => \A i \in DOMAIN x.bytes : i >= x.size => x.bytes[i] = 0
    BY <2>2 DEF EndsBlank
  <2>4. ASSUME neat[o], neat[p], x.size = y.size PROVE Less(x, y) <=> toUInt(x) < toUInt(y)
    <3>1. PICK len \in Nat : len = nBytes(x.size) /\ len = nBytes(y.size)
      BY <2>2, <2>4, RoomIs, BitStringAssumption DEF IsString
    <3>2. toUInt(x) = Number(x.bytes, len * Byte) /\ toUInt(y) = Number(y.bytes, len * Byte)
      BY <2>2, <2>4, <3>1, NumberOfBytes
    <3>3. AreBits(x.bytes, len * Byte) /\ AreBits(y.bytes, len * Byte)
      <4>1. x.bytes \in [Room(x.size) -> {0, 1}] /\ y.bytes \in [Room(x.size) -> {0, 1}]
        BY <2>2, <2>4 DEF IsString
      <4>2. Room(x.size) = 0..(len * Byte - 1)
        BY <3>1 DEF Room, Below
      <4> QED
        BY <4>1, <4>2 DEF AreBits
    <3>4. Less(x, y) <=> Precedes(x.bytes, y.bytes, len)
      <4>1. \A c \in 0..(len - 1) : ByteAt(x, c) = ByteNumber(x.bytes, c) /\ ByteAt(y, c) = ByteNumber(y.bytes, c)
        BY DEF ByteAt, ByteNumber
      <4> QED
        BY <3>1, <4>1 DEF Less, Precedes, Below
    <3> QED
      BY <3>2, <3>3, <3>4, OrderOfBytes
  <2> QED
    BY <2>1, <2>3, <2>4
<1> QED
  BY <1>1, BitStringInvariance, PTL

-----------------------------------------------------------------------------
(* What the operations give of the bits of their operands alone. *)
LEMMA BitsAre ==
  ASSUME NEW x, IsString(x)
  PROVE  /\ x.size \in Nat /\ AreBits(x.bytes, x.size)
         /\ \A i \in 0..(x.size - 1) : x.bytes[i] \in {0, 1}
<1>0. PICK n \in Nat : n = x.size
  BY DEF IsString
<1>1. PICK b : n = x.size /\ b = x.bytes /\ b \in [Room(n) -> {0, 1}]
  BY <1>0 DEF IsString
<1>2. \A i \in 0..(n - 1) : b[i] \in {0, 1}
  BY <1>1, PlacesAre
<1> QED
  BY <1>1, <1>2 DEF AreBits

LEMMA AppendedBits ==
  ASSUME NEW x, IsString(x), NEW y, IsString(y)
  PROVE  Bits(Appended(x, y)) = [i \in Below(x.size + y.size) |->
           IF i < x.size THEN x.bytes[i] ELSE y.bytes[i - x.size]]
<1>1. Appended(x, y).size = x.size + y.size
  BY AppendedString
<1>2. Joined(x, y, Appended(x, y))
  BY AppendedString
<1>3. PICK r : r = Appended(x, y)
  OBVIOUS
<1>4. PICK n \in Nat : n = x.size + y.size
  BY BitsAre
<1>5. PICK f : f = [i \in 0..(n - 1) |-> IF i < x.size THEN x.bytes[i] ELSE y.bytes[i - x.size]]
  OBVIOUS
<1>6. ASSUME NEW i \in 0..(n - 1) PROVE r.bytes[i] = f[i]
  <2>1. r.bytes[i] = IF i < x.size THEN x.bytes[i] ELSE y.bytes[i - x.size]
    <3>1. x.size \in Nat /\ y.size \in Nat
      BY BitsAre
    <3> QED
      BY <1>2, <1>3, <1>4, <3>1 DEF Joined
  <2> QED
    BY <1>5, <2>1
<1>7. Bits(r) = [i \in 0..(n - 1) |-> r.bytes[i]]
  BY <1>1, <1>3, <1>4 DEF Bits, Below
<1>8. Bits(r) = f
  BY <1>5, <1>6, <1>7
<1> QED
  BY <1>3, <1>4, <1>5, <1>8 DEF Below

LEMMA ReversedTwice ==
  ASSUME NEW x, IsString(x)
  PROVE  Bits(Reversed(Reversed(x))) = Bits(x)
<1>1. PICK n \in Nat : n = x.size
  BY BitsAre
<1>2. PICK r : r = Reversed(x) /\ IsString(r) /\ r.size = n
  BY <1>1, ReversedString
<1>3. \A i \in 0..(n - 1) : r.bytes[i] = x.bytes[n - 1 - i]
  BY <1>1, <1>2, ReversedString
<1>4. PICK d : d = Reversed(r) /\ d.size = n
  BY <1>2, ReversedString
<1>5. \A i \in 0..(n - 1) : d.bytes[i] = r.bytes[n - 1 - i]
  BY <1>2, <1>4, ReversedString
<1>6. \A i \in 0..(n - 1) : n - 1 - i \in 0..(n - 1) /\ n - 1 - (n - 1 - i) = i
  OBVIOUS
<1>7. \A i \in 0..(n - 1) : d.bytes[i] = x.bytes[i]
  BY <1>3, <1>5, <1>6
<1>8. Bits(d) = [i \in 0..(n - 1) |-> d.bytes[i]] /\ Bits(x) = [i \in 0..(n - 1) |-> x.bytes[i]]
  BY <1>1, <1>4 DEF Bits, Below
<1> QED
  BY <1>2, <1>4, <1>7, <1>8

LEMMA NumberAndBack ==
  ASSUME NEW x, IsString(x)
  PROVE  toUInt(x) \in Nat /\ Equal(fromUInt(toUInt(x), x.size), x)
<1>0. PICK n \in Nat : n = x.size
  BY BitsAre
<1>1. PICK b : n = x.size /\ b = x.bytes /\ AreBits(b, n)
  BY <1>0, BitsAre
<1>2. PICK v \in Nat : v = Number(b, n) /\ v = toUInt(x)
  <2>1. Number(b, n) \in 0..(2^n - 1) /\ 2^n \in Nat
    BY <1>1, NumberSmall, Powers
  <2> QED
    BY <1>1, <2>1 DEF toUInt
<1>3. ASSUME NEW i \in 0..(n - 1) PROVE BitOf(v, i) = b[i]
  <2>1. BitOf(Number(b, n), i) = b[i]
    BY <1>1, NumberBit
  <2> QED
    BY <1>2, <2>1
<1>4. PICK r : r = fromUInt(v, n) /\ r.size = n
  <2>1. fromUInt(v, n).size = n
    BY DEF fromUInt
  <2> QED
    BY <2>1
<1>5. \A i \in 0..(n - 1) : r.bytes[i] = BitOf(v, i)
  BY <1>4, FromNumber
<1>6. Equal(r, x)
  BY <1>1, <1>3, <1>4, <1>5 DEF Equal, Below
<1> QED
  BY <1>1, <1>2, <1>4, <1>6

LEMMA CutNumber ==
  ASSUME NEW x, IsString(x), NEW from \in Nat, NEW to \in Nat, ~SliceThrows(x, from, to)
  PROVE  toUInt(Slice(x, from, to)) = (toUInt(x) \div 2^from) % 2^(to - from)
<1>0. PICK n \in Nat : n = x.size
  BY BitsAre, CutString
<1>1. PICK b : n = x.size /\ b = x.bytes /\ AreBits(b, n) /\ from <= to /\ to <= n
  BY <1>0, BitsAre, CutString
<1>2. PICK w \in Nat, t \in Nat, behind \in Nat : w = to - from /\ behind = w + t /\ n = from + behind
  <2>1. /\ to - from \in Nat /\ n - to \in Nat
        /\ n - from \in Nat /\ n - from = (to - from) + (n - to) /\ n = from + (n - from)
    BY <1>1
  <2> QED
    BY <2>1
<1>3. PICK c : c = [i \in 0..(behind - 1) |-> b[from + i]]
  OBVIOUS
<1>4. PICK d : d = [i \in 0..(t - 1) |-> c[w + i]]
  OBVIOUS
<1>5. Shifted(b, from, behind, c) /\ Shifted(c, w, t, d)
  BY <1>3, <1>4 DEF Shifted
<1>6. AreBits(b, from + behind)
  BY <1>1, <1>2
<1>7. Number(b, from + behind) \div 2^from = Number(c, behind)
  <2>1. InTwoParts(b, from, behind, c)
    BY Zenon, <1>2, <1>5, <1>6, NumberDivided
  <2> QED
    BY <2>1 DEF InTwoParts
<1>8. AreBits(c, behind)
  BY Zenon, <1>2, <1>5, <1>6, NumberParts
<1>9. Number(c, behind) % 2^w = Number(c, w)
  <2>1. InTwoParts(c, w, t, d)
    BY <1>2, <1>5, <1>8, NumberDivided
  <2> QED
    BY <1>2, <2>1 DEF InTwoParts
<1>10. PICK r : r = Slice(x, from, to) /\ r.size = w
  <2>1. Slice(x, from, to).size = to - from
    BY CutString
  <2> QED
    BY <1>2, <2>1
<1>11. \A i \in 0..(w - 1) : r.bytes[i] = c[i]
  <2> SUFFICES ASSUME NEW i \in 0..(w - 1) PROVE r.bytes[i] = c[i]
    OBVIOUS
  <2>1. r.bytes[i] = b[from + i]
    BY <1>1, <1>2, <1>10, CutString
  <2>2. i \in 0..(behind - 1)
    BY <1>2
  <2> QED
    BY <1>3, <2>1, <2>2
<1>12. Number(r.bytes, w) = Number(c, w)
  BY <1>11, NumberAgrees
<1>13. toUInt(r) = Number(c, w) /\ toUInt(x) = Number(b, from + behind)
  BY <1>1, <1>2, <1>10, <1>12 DEF toUInt
<1> QED
  BY <1>2, <1>7, <1>9, <1>10, <1>13

LEMMA CutInNumbers ==
  ASSUME NEW x, IsString(x), NEW width \in Nat \ {0}, x.size % width = 0, NEW c \in DOMAIN toUInts(x, width)
  PROVE  toUInts(x, width)[c] = toUInt(Slice(x, c * width, (c + 1) * width))
<1>0. PICK n \in Nat : n = x.size
  BY BitsAre
<1>1. PICK b : n = x.size /\ b = x.bytes
  BY <1>0, BitsAre
<1>2. PICK m \in Nat : m = n \div width /\ n = m * width
  <2>1. n % width = 0 /\ n \div width \in Nat /\ n = (n \div width) * width + (n % width)
    BY <1>1, Divided
  <2> QED
    BY <2>1
<1>3. c \in 0..(m - 1) /\ c \in Nat
  BY <1>1, <1>2 DEF toUInts, Below
<1>4. PICK g : g = [i \in Below(width) |-> b[c * width + i]]
  OBVIOUS
<1>5. toUInts(x, width)[c] = Number(g, width)
  BY <1>1, <1>2, <1>3, <1>4 DEF toUInts, Below
<1>6. PICK from \in Nat, to \in Nat : from = c * width /\ to = (c + 1) * width /\ to = from + width
  <2>1. c * width \in Nat /\ (c + 1) * width = c * width + width
    BY <1>3
  <2> QED
    BY <2>1
<1>7. from < n /\ to <= n
  <2>1. PICK t \in Nat : m = (c + 1) + t
    <3>1. m - (c + 1) \in Nat /\ m = (c + 1) + (m - (c + 1))
      BY <1>3
    <3> QED
      BY <3>1
  <2>2. t * width \in Nat /\ m * width = (c + 1) * width + t * width
    BY <1>3, <2>1
  <2> QED
    BY <1>2, <1>6, <2>2
<1>8. ~SliceThrows(x, from, to)
  BY <1>1, <1>6, <1>7 DEF SliceThrows
<1>9. PICK r : r = Slice(x, from, to) /\ r.size = width
  BY <1>6, <1>8, CutString
<1>10. \A i \in 0..(width - 1) : r.bytes[i] = g[i]
  <2> SUFFICES ASSUME NEW i \in 0..(width - 1) PROVE r.bytes[i] = g[i]
    OBVIOUS
  <2>1. i \in 0..(to - from - 1)
    BY <1>6
  <2>2. r.bytes[i] = b[from + i]
    BY <1>1, <1>8, <1>9, <2>1, CutString
  <2> QED
    BY <1>4, <1>6, <2>2 DEF Below
<1>11. Number(r.bytes, width) = Number(g, width)
  BY <1>10, NumberAgrees
<1> QED
  BY <1>5, <1>6, <1>9, <1>11 DEF toUInt

LEMMA XoredTwice ==
  ASSUME NEW x, IsString(x), NEW y, IsString(y), x.size = y.size
  PROVE  Bits(Xored(Xored(x, y), y)) = Bits(x)
<1>1. PICK n \in Nat : n = x.size /\ n = y.size
  BY BitsAre
<1>2. PICK r : r = Xored(x, y) /\ IsString(r) /\ r.size = n
  BY <1>1, CombinedStrings
<1>3. \A i \in 0..(n - 1) : r.bytes[i] = xor(x.bytes[i], y.bytes[i])
  BY <1>1, <1>2, CombinedStrings
<1>4. PICK d : d = Xored(r, y) /\ d.size = n
  BY <1>1, <1>2, CombinedStrings
<1>5. \A i \in 0..(n - 1) : d.bytes[i] = xor(r.bytes[i], y.bytes[i])
  BY <1>1, <1>2, <1>4, CombinedStrings
<1>6. \A u \in {0, 1}, w \in {0, 1} : xor(xor(u, w), w) = u
  BY DEF xor
<1>7. \A i \in 0..(n - 1) : x.bytes[i] \in {0, 1} /\ y.bytes[i] \in {0, 1}
  BY <1>1, BitsAre
<1>8. \A i \in 0..(n - 1) : d.bytes[i] = x.bytes[i]
  BY <1>3, <1>5, <1>6, <1>7
<1>9. Bits(d) = [i \in 0..(n - 1) |-> d.bytes[i]] /\ Bits(x) = [i \in 0..(n - 1) |-> x.bytes[i]]
  BY <1>1, <1>4 DEF Bits, Below
<1> QED
  BY <1>2, <1>4, <1>8, <1>9

OnesBelow(f, n) == {i \in 0..(n - 1) : f[i] = 1}

LEMMA OnesCounted ==
  ASSUME NEW n \in Nat, NEW f, AreBits(f, n)
  PROVE  SumOf(f, n) = Cardinality(OnesBelow(f, n)) /\ SumOf(f, n) \in Nat
<1> DEFINE S == {j \in 0..n : /\ IsFiniteSet(OnesBelow(f, j))
                              /\ SumOf(f, j) = Cardinality(OnesBelow(f, j)) /\ SumOf(f, j) \in Nat}
<1>1. 0 \in S
  <2>1. OnesBelow(f, 0) = {}
    BY DEF OnesBelow
  <2>2. IsFiniteSet({}) /\ Cardinality({}) = 0
    BY FS_EmptySet
  <2> QED
    BY <2>1, <2>2, SumEmpty
<1>2. ASSUME NEW j \in 0..(n - 1), j \in S PROVE j + 1 \in S
  <2>1. j + 1 \in 0..n /\ j \in Nat
    OBVIOUS
  <2>2. PICK T : T = OnesBelow(f, j) /\ IsFiniteSet(T) /\ SumOf(f, j) = Cardinality(T)
                 /\ Cardinality(T) \in Nat /\ j \notin T
    BY <1>2, <2>1 DEF OnesBelow
  <2>3. AreNumbers(f, j + 1) /\ f[j] \in {0, 1}
    <3>1. \A i \in 0..((j + 1) - 1) : i \in 0..(n - 1)
      BY <2>1
    <3> QED
      BY <2>1, <3>1 DEF AreNumbers, AreBits
  <2>4. SumOf(f, j + 1) = SumOf(f, j) + f[j]
    BY <2>1, <2>3, SumNext
  <2>5. CASE f[j] = 0
    <3>1. OnesBelow(f, j + 1) = T
      BY <2>1, <2>2, <2>5 DEF OnesBelow
    <3> QED
      BY <2>1, <2>2, <2>4, <2>5, <3>1
  <2>6. CASE f[j] = 1
    <3>1. OnesBelow(f, j + 1) = T \cup {j}
      BY <2>1, <2>2, <2>6 DEF OnesBelow
    <3>2. IsFiniteSet(T \cup {j}) /\ Cardinality(T \cup {j}) = Cardinality(T) + 1
      BY <2>2, FS_AddElement
    <3> QED
      BY <2>1, <2>2, <2>4, <2>6, <3>1, <3>2
  <2> QED
    BY <2>3, <2>5, <2>6
<1> HIDE DEF S
<1>3. 0..n \subseteq S
  BY Zenon, <1>1, <1>2, IntervalInduction
<1>4. n \in S
  BY <1>3
<1> QED
  BY <1>4 DEF S

LEMMA InnerProductCounts ==
  ASSUME NEW x, IsString(x), NEW y, IsString(y), x.size = y.size
  PROVE  InnerProduct(x, y) = Cardinality({i \in Below(x.size) : x.bytes[i] = 1 /\ y.bytes[i] = 1}) % 2
<1>1. PICK n \in Nat : n = x.size /\ n = y.size
  BY BitsAre
<1>2. PICK f : f = [i \in 0..(n - 1) |-> and(x.bytes[i], y.bytes[i])]
  OBVIOUS
<1>3. \A i \in 0..(n - 1) : x.bytes[i] \in {0, 1} /\ y.bytes[i] \in {0, 1}
  BY <1>1, BitsAre
<1>4. \A u \in {0, 1}, w \in {0, 1} : and(u, w) \in {0, 1} /\ (and(u, w) = 1 <=> u = 1 /\ w = 1)
  BY DEF and
<1>5. \A i \in 0..(n - 1) : f[i] \in {0, 1} /\ (f[i] = 1 <=> x.bytes[i] = 1 /\ y.bytes[i] = 1)
  BY <1>2, <1>3, <1>4
<1>6. OnesBelow(f, n) = {i \in Below(x.size) : x.bytes[i] = 1 /\ y.bytes[i] = 1}
  BY <1>1, <1>5 DEF OnesBelow, Below
<1>7. AreBits(f, n)
  BY <1>5 DEF AreBits
<1>8. SumOf(f, n) = Cardinality(OnesBelow(f, n))
  BY <1>7, OnesCounted
<1>9. SumFunction(f) = SumOf(f, n)
  BY <1>2, SumFold DEF SumOf
<1>10. InnerProduct(x, y) = SumFunction(f) % 2
  BY <1>1, <1>2 DEF InnerProduct, Below
<1> QED
  BY <1>6, <1>8, <1>9, <1>10

LEMMA EqualNumbers ==
  ASSUME NEW x, IsString(x), NEW y, IsString(y), x.size = y.size
  PROVE  Equal(x, y) <=> toUInt(x) = toUInt(y)
<1>0. PICK n \in Nat : n = x.size
  BY BitsAre
<1>1. PICK b, c : n = x.size /\ n = y.size /\ b = x.bytes /\ c = y.bytes
  BY <1>0, BitsAre
<1>2. AreBits(b, n) /\ AreBits(c, n)
  BY <1>1, BitsAre
<1>3. toUInt(x) = Number(b, n) /\ toUInt(y) = Number(c, n)
  BY <1>1 DEF toUInt
<1>4. Equal(x, y) <=> \A i \in 0..(n - 1) : b[i] = c[i]
  BY <1>1 DEF Equal, Below
<1>5. ASSUME \A i \in 0..(n - 1) : b[i] = c[i] PROVE Number(b, n) = Number(c, n)
  BY <1>5, NumberAgrees
<1>6. ASSUME Number(b, n) = Number(c, n), NEW i \in 0..(n - 1) PROVE b[i] = c[i]
  <2>1. BitOf(Number(b, n), i) = b[i] /\ BitOf(Number(c, n), i) = c[i]
    BY <1>2, NumberBit
  <2> QED
    BY <1>6, <2>1
<1> QED
  BY <1>3, <1>4, <1>5, <1>6

(* Whatever calls have left in the spare bits, every operation on two       *)
(* strings gives the bits that it should give of their bits alone.          *)
THEOREM SpareBitsNeverShow == BitStringSpec => []SpareBitsHidden
<1>1. BitStringInv => SpareBitsHidden
  <2> SUFFICES ASSUME BitStringInv, NEW o \in Objects, NEW p \in Objects,
                      NEW x, x = string[o], NEW y, y = string[p]
               PROVE  /\ Bits(Appended(x, y)) = [i \in Below(x.size + y.size) |->
                           IF i < x.size THEN x.bytes[i] ELSE y.bytes[i - x.size]]
                      /\ Bits(Reversed(Reversed(x))) = Bits(x) /\ Equal(fromUInt(toUInt(x), x.size), x)
                      /\ \A from, to \in 0..MaxBits : ~SliceThrows(x, from, to) =>
                           toUInt(Slice(x, from, to)) = (toUInt(x) \div 2^from) % 2^(to - from)
                      /\ \A width \in 1..MaxBits : x.size % width = 0 =>
                           \A c \in DOMAIN toUInts(x, width) :
                             toUInts(x, width)[c] = toUInt(Slice(x, c * width, (c + 1) * width))
                      /\ x.size = y.size =>
                           /\ Bits(Xored(Xored(x, y), y)) = Bits(x)
                           /\ InnerProduct(x, y)
                                = Cardinality({i \in Below(x.size) : x.bytes[i] = 1 /\ y.bytes[i] = 1}) % 2
                           /\ Equal(x, y) <=> toUInt(x) = toUInt(y)
    BY Zenon DEF SpareBitsHidden
  <2>1. IsString(x) /\ IsString(y)
    BY DEF BitStringInv
  <2>2. (\A from \in 0..MaxBits : from \in Nat) /\ (\A width \in 1..MaxBits : width \in Nat \ {0})
    BY BitStringAssumption
  <2>3. \A from, to \in 0..MaxBits : ~SliceThrows(x, from, to) =>
          toUInt(Slice(x, from, to)) = (toUInt(x) \div 2^from) % 2^(to - from)
    BY Zenon, <2>1, <2>2, CutNumber
  <2>4. \A width \in 1..MaxBits : x.size % width = 0 =>
          \A c \in DOMAIN toUInts(x, width) :
            toUInts(x, width)[c] = toUInt(Slice(x, c * width, (c + 1) * width))
    BY Zenon, <2>1, <2>2, CutInNumbers
  <2>5. Bits(Appended(x, y)) = [i \in Below(x.size + y.size) |->
          IF i < x.size THEN x.bytes[i] ELSE y.bytes[i - x.size]]
    BY <2>1, AppendedBits
  <2>6. Bits(Reversed(Reversed(x))) = Bits(x) /\ Equal(fromUInt(toUInt(x), x.size), x)
    BY <2>1, ReversedTwice, NumberAndBack
  <2>7. ASSUME x.size = y.size
        PROVE  /\ Bits(Xored(Xored(x, y), y)) = Bits(x)
               /\ InnerProduct(x, y)
                    = Cardinality({i \in Below(x.size) : x.bytes[i] = 1 /\ y.bytes[i] = 1}) % 2
               /\ Equal(x, y) <=> toUInt(x) = toUInt(y)
    <3>1. Bits(Xored(Xored(x, y), y)) = Bits(x)
      BY <2>1, <2>7, XoredTwice
    <3>2. InnerProduct(x, y) = Cardinality({i \in Below(x.size) : x.bytes[i] = 1 /\ y.bytes[i] = 1}) % 2
      BY <2>1, <2>7, InnerProductCounts
    <3>3. Equal(x, y) <=> toUInt(x) = toUInt(y)
      BY <2>1, <2>7, EqualNumbers
    <3> QED
      BY <3>1, <3>2, <3>3
  <2> QED
    BY Zenon, <2>3, <2>4, <2>5, <2>6, <2>7
<1> QED
  BY <1>1, BitStringInvariance, PTL

-----------------------------------------------------------------------------
(* The code: a codeword of four bits for two bits of the string. *)
Padded(b, n, j) == IF j < n THEN b[j] ELSE 0
PlaceOf(g, r) == 2 * g + (IF r = 3 THEN 1 ELSE 0)

LEMMA CodewordsFit ==
  ASSUME NEW n \in Nat
  PROVE  \E h \in Nat : /\ CODEWORD_SIZE(n) = 4 * h /\ CODEWORD_SIZE(n) \div 4 = h
                        /\ CODEWORD_SIZE(n) \div 2 = 2 * h
<1>1. PICK h \in Nat : n = 2 * h \/ n + 1 = 2 * h
  <2>1. n \div 2 \in Nat /\ n % 2 \in 0..1 /\ n = (n \div 2) * 2 + (n % 2)
    BY Divided
  <2>2. CASE n % 2 = 0
    BY <2>1, <2>2
  <2>3. CASE n % 2 = 1
    <3>1. n \div 2 + 1 \in Nat /\ n + 1 = 2 * (n \div 2 + 1)
      BY <2>1, <2>3
    <3> QED
      BY <3>1
  <2> QED
    BY <2>1, <2>2, <2>3
<1>2. CODEWORD_SIZE(n) = 4 * h
  <2>1. CASE n = 2 * h
    <3>1. n % 2 = 0
      BY <2>1
    <3> QED
      BY <2>1, <3>1 DEF CODEWORD_SIZE
  <2>2. CASE n + 1 = 2 * h
    <3>1. n % 2 = 1
      BY <2>2
    <3> QED
      BY <2>2, <3>1 DEF CODEWORD_SIZE
  <2> QED
    BY <1>1, <2>1, <2>2
<1>3. (4 * h) \div 4 = h /\ (4 * h) \div 2 = 2 * h
  OBVIOUS
<1> QED
  BY <1>2, <1>3

LEMMA EncodeBit ==
  ASSUME NEW n \in Nat, NEW h \in Nat, CODEWORD_SIZE(n) = 4 * h, NEW b, NEW g \in 0..(h - 1), NEW r \in 0..3
  PROVE  4 * g + r \in Below(CODEWORD_SIZE(n)) /\ Encode(b, n)[4 * g + r] = Padded(b, n, PlaceOf(g, r))
<1>1. PICK d \in 0..(4 * h - 1) : d = 4 * g + r
  OBVIOUS
<1>2. d \div 4 = g /\ d % 4 = r
  BY <1>1
<1>3. d \in Below(CODEWORD_SIZE(n))
  BY <1>1 DEF Below
<1>4. Encode(b, n)[d] = LET i == 2 * (d \div 4) + (IF d % 4 = 3 THEN 1 ELSE 0) IN IF i < n THEN b[i] ELSE 0
  BY <1>3 DEF Encode
<1>5. Encode(b, n)[d] = Padded(b, n, PlaceOf(g, r))
  BY <1>2, <1>4 DEF Padded, PlaceOf
<1> QED
  BY <1>1, <1>3, <1>5

Flipped(e, r) == IF e = r THEN 1 ELSE 0

\* Four bits of which one is in error.
Majority(a, b, c) == IF a + b + c >= 2 THEN 1 ELSE 0
Fourth(a, b, c, d) == IF a + b + c \in {0, 3} THEN 1 - d ELSE d

LEMMA CodewordDecoded ==
  ASSUME NEW u \in {0, 1}, NEW v \in {0, 1}, NEW e \in 0..3
  PROVE  /\ Majority(xor(u, Flipped(e, 0)), xor(u, Flipped(e, 1)), xor(u, Flipped(e, 2))) = u
         /\ Fourth(xor(u, Flipped(e, 0)), xor(u, Flipped(e, 1)), xor(u, Flipped(e, 2)), xor(v, Flipped(e, 3))) = v
<1>1. \A a \in {0, 1} : xor(a, 0) = a /\ xor(a, 1) = 1 - a
  BY DEF xor
<1>2. CASE e = 0
  <2>1. Flipped(e, 0) = 1 /\ Flipped(e, 1) = 0 /\ Flipped(e, 2) = 0 /\ Flipped(e, 3) = 0
    BY <1>2 DEF Flipped
  <2> QED
    BY <1>1, <2>1 DEF Majority, Fourth
<1>3. CASE e = 1
  <2>1. Flipped(e, 0) = 0 /\ Flipped(e, 1) = 1 /\ Flipped(e, 2) = 0 /\ Flipped(e, 3) = 0
    BY <1>3 DEF Flipped
  <2> QED
    BY <1>1, <2>1 DEF Majority, Fourth
<1>4. CASE e = 2
  <2>1. Flipped(e, 0) = 0 /\ Flipped(e, 1) = 0 /\ Flipped(e, 2) = 1 /\ Flipped(e, 3) = 0
    BY <1>4 DEF Flipped
  <2> QED
    BY <1>1, <2>1 DEF Majority, Fourth
<1>5. CASE e = 3
  <2>1. Flipped(e, 0) = 0 /\ Flipped(e, 1) = 0 /\ Flipped(e, 2) = 0 /\ Flipped(e, 3) = 1
    BY <1>5 DEF Flipped
  <2> QED
    BY <1>1, <2>1 DEF Majority, Fourth
<1> QED
  BY <1>2, <1>3, <1>4, <1>5

\* What is decoded at i, and what should be.
DecodedAt(w, i) ==
  LET o == 4 * (i \div 2)  ones == w[o] + w[o + 1] + w[o + 2]
  IN  IF i % 2 = 0 THEN (IF ones >= 2 THEN 1 ELSE 0) ELSE IF ones \in {0, 3} THEN 1 - w[o + 3] ELSE w[o + 3]
SumAt(a, b, n, i) == IF i < n THEN xor(a[i], b[i]) ELSE 0
PaddedSum(a, b, n, j) == xor(Padded(a, n, j), Padded(b, n, j))

WordOf(a, b, n, h, error, w) ==
  w = [d \in 0..(4 * h - 1) |->
         xor(xor(Encode(a, n)[d], Encode(b, n)[d]), IF error[d \div 4] = d % 4 THEN 1 ELSE 0)]

LEMMA PaddedSums ==
  ASSUME NEW n \in Nat, NEW a, AreBits(a, n), NEW b, AreBits(b, n), NEW j \in Nat
  PROVE  PaddedSum(a, b, n, j) = SumAt(a, b, n, j) /\ PaddedSum(a, b, n, j) \in {0, 1}
<1>1. \A y \in {0, 1}, z \in {0, 1} : xor(y, z) \in {0, 1} /\ xor(0, 0) = 0
  BY DEF xor
<1>2. CASE j < n
  <2>1. a[j] \in {0, 1} /\ b[j] \in {0, 1}
    BY <1>2 DEF AreBits
  <2> QED
    BY <1>1, <1>2, <2>1 DEF Padded, PaddedSum, SumAt
<1>3. CASE ~(j < n)
  BY <1>1, <1>3 DEF Padded, PaddedSum, SumAt
<1> QED
  BY <1>2, <1>3

WordHolds(a, b, n, h, error, w) ==
  \A g \in 0..(h - 1), r \in 0..3 :
    w[4 * g + r] = xor(PaddedSum(a, b, n, PlaceOf(g, r)), Flipped(error[g], r))

LEMMA WordAt ==
  ASSUME NEW n \in Nat, NEW h \in Nat, CODEWORD_SIZE(n) = 4 * h, NEW a, NEW b, NEW error,
         NEW w, WordOf(a, b, n, h, error, w)
  PROVE  WordHolds(a, b, n, h, error, w)
<1> SUFFICES ASSUME NEW g \in 0..(h - 1), NEW r \in 0..3
             PROVE  w[4 * g + r] = xor(PaddedSum(a, b, n, PlaceOf(g, r)), Flipped(error[g], r))
  BY DEF WordHolds
<1>1. PICK d \in 0..(4 * h - 1) : d = 4 * g + r
  OBVIOUS
<1>2. d \div 4 = g /\ d % 4 = r
  BY <1>1
<1>3. Encode(a, n)[d] = Padded(a, n, PlaceOf(g, r))
  BY <1>1, EncodeBit
<1>4. Encode(b, n)[d] = Padded(b, n, PlaceOf(g, r))
  BY <1>1, EncodeBit
<1>5. w[d] = xor(xor(Encode(a, n)[d], Encode(b, n)[d]), IF error[d \div 4] = d % 4 THEN 1 ELSE 0)
  BY DEF WordOf
<1> QED
  BY <1>1, <1>2, <1>3, <1>4, <1>5 DEF Flipped, PaddedSum

LEMMA SumDecoded ==
  ASSUME NEW n \in Nat, NEW h \in Nat, CODEWORD_SIZE(n) = 4 * h,
         NEW a, AreBits(a, n), NEW b, AreBits(b, n), NEW error \in [0..(h - 1) -> 0..3],
         NEW w, WordOf(a, b, n, h, error, w), NEW i \in 0..(2 * h - 1)
  PROVE  DecodedAt(w, i) = SumAt(a, b, n, i)
<1>1. PICK g \in 0..(h - 1), t \in 0..1 : g = i \div 2 /\ t = i % 2 /\ i = 2 * g + t
  <2>1. i \div 2 \in 0..(h - 1) /\ i % 2 \in 0..1 /\ i = 2 * (i \div 2) + (i % 2)
    OBVIOUS
  <2> QED
    BY <2>1
<1>2. PICK e \in 0..3 : e = error[g]
  OBVIOUS
<1>3. 2 * g \in Nat /\ 2 * g + 1 \in Nat
  OBVIOUS
<1>4. PICK u \in {0, 1} : u = PaddedSum(a, b, n, 2 * g) /\ u = SumAt(a, b, n, 2 * g)
  BY <1>3, PaddedSums
<1>5. PICK v \in {0, 1} : v = PaddedSum(a, b, n, 2 * g + 1) /\ v = SumAt(a, b, n, 2 * g + 1)
  BY <1>3, PaddedSums
<1>6. PlaceOf(g, 0) = 2 * g /\ PlaceOf(g, 1) = 2 * g /\ PlaceOf(g, 2) = 2 * g /\ PlaceOf(g, 3) = 2 * g + 1
  BY DEF PlaceOf
<1>7. PICK o \in Nat : o = 4 * (i \div 2) /\ o = 4 * g
  BY <1>1
<1>8. PICK p, z, r, s : p = w[o] /\ z = w[o + 1] /\ r = w[o + 2] /\ s = w[o + 3]
  OBVIOUS
<1>9. /\ p = xor(u, Flipped(e, 0)) /\ z = xor(u, Flipped(e, 1))
      /\ r = xor(u, Flipped(e, 2)) /\ s = xor(v, Flipped(e, 3))
  <2>0. WordHolds(a, b, n, h, error, w)
    BY WordAt
  <2>1. o = 4 * g + 0 /\ 0 \in 0..3 /\ 1 \in 0..3 /\ 2 \in 0..3 /\ 3 \in 0..3
    BY <1>7
  <2>2. w[4 * g + 0] = xor(PaddedSum(a, b, n, PlaceOf(g, 0)), Flipped(error[g], 0))
    BY <2>0, <2>1 DEF WordHolds
  <2>3. w[4 * g + 0] = xor(u, Flipped(e, 0))
    BY <1>2, <1>4, <1>6, <2>2
  <2>4. w[4 * g + 1] = xor(PaddedSum(a, b, n, PlaceOf(g, 1)), Flipped(error[g], 1))
    BY <2>0, <2>1 DEF WordHolds
  <2>5. w[4 * g + 1] = xor(u, Flipped(e, 1))
    BY <1>2, <1>4, <1>6, <2>4
  <2>6. w[4 * g + 2] = xor(PaddedSum(a, b, n, PlaceOf(g, 2)), Flipped(error[g], 2))
    BY <2>0, <2>1 DEF WordHolds
  <2>7. w[4 * g + 2] = xor(u, Flipped(e, 2))
    BY <1>2, <1>4, <1>6, <2>6
  <2>8. w[4 * g + 3] = xor(PaddedSum(a, b, n, PlaceOf(g, 3)), Flipped(error[g], 3))
    BY <2>0, <2>1 DEF WordHolds
  <2>9. w[4 * g + 3] = xor(v, Flipped(e, 3))
    BY <1>2, <1>5, <1>6, <2>8
  <2> QED
    BY <1>7, <1>8, <2>1, <2>3, <2>5, <2>7, <2>9
<1>10. Majority(p, z, r) = u /\ Fourth(p, z, r, s) = v
  <2>1. /\ Majority(xor(u, Flipped(e, 0)), xor(u, Flipped(e, 1)), xor(u, Flipped(e, 2))) = u
        /\ Fourth(xor(u, Flipped(e, 0)), xor(u, Flipped(e, 1)), xor(u, Flipped(e, 2)), xor(v, Flipped(e, 3))) = v
    BY CodewordDecoded
  <2> QED
    BY <1>9, <2>1
<1>11. DecodedAt(w, i) = IF i % 2 = 0 THEN Majority(p, z, r) ELSE Fourth(p, z, r, s)
  BY <1>7, <1>8 DEF DecodedAt, Majority, Fourth
<1>12. CASE t = 0
  BY <1>1, <1>4, <1>10, <1>11, <1>12
<1>13. CASE t = 1
  BY <1>1, <1>5, <1>10, <1>11, <1>13
<1> QED
  BY <1>12, <1>13

SumsCorrected(x, y) ==
  LET n == x.size  size == CODEWORD_SIZE(n) IN
  x.size = y.size =>
    \A error \in [Below(size \div 4) -> 0..3] :
      Decode([d \in Below(size) |->
                xor(xor(Encode(x.bytes, n)[d], Encode(y.bytes, n)[d]),
                    IF error[d \div 4] = d % 4 THEN 1 ELSE 0)], size)
        = [i \in Below(size \div 2) |-> IF i < n THEN xor(x.bytes[i], y.bytes[i]) ELSE 0]

LEMMA SumCorrected ==
  ASSUME NEW x, IsString(x), NEW y, IsString(y)
  PROVE  SumsCorrected(x, y)
<1> DEFINE size == CODEWORD_SIZE(x.size)
           word(error) == [d \in Below(size) |->
             xor(xor(Encode(x.bytes, x.size)[d], Encode(y.bytes, x.size)[d]),
                 IF error[d \div 4] = d % 4 THEN 1 ELSE 0)]
<1> SUFFICES ASSUME x.size = y.size, NEW error \in [Below(size \div 4) -> 0..3]
             PROVE  Decode(word(error), size)
                      = [i \in Below(size \div 2) |-> IF i < x.size THEN xor(x.bytes[i], y.bytes[i]) ELSE 0]
  BY Zenon DEF SumsCorrected
<1>0. PICK n \in Nat : n = x.size
  BY BitsAre
<1>1. PICK a, b : /\ n = x.size /\ a = x.bytes /\ b = y.bytes
                  /\ AreBits(a, n) /\ AreBits(b, n)
  BY <1>0, BitsAre
<1>2. PICK h \in Nat : size = 4 * h /\ CODEWORD_SIZE(n) = 4 * h /\ size \div 4 = h /\ size \div 2 = 2 * h
  BY <1>1, CodewordsFit
<1>3. PICK w : w = word(error)
  OBVIOUS
<1>4. WordOf(a, b, n, h, error, w)
  BY <1>1, <1>2, <1>3 DEF WordOf, Below
<1>5. error \in [0..(h - 1) -> 0..3]
  BY <1>2 DEF Below
<1> HIDE DEF word, size
<1>6. \A i \in 0..(2 * h - 1) : DecodedAt(w, i) = SumAt(a, b, n, i)
  BY <1>1, <1>2, <1>4, <1>5, SumDecoded
<1>7. Decode(w, size) = [i \in 0..(2 * h - 1) |-> DecodedAt(w, i)]
  BY <1>2 DEF Decode, DecodedAt, Below
<1>8. [i \in 0..(2 * h - 1) |-> DecodedAt(w, i)] = [i \in 0..(2 * h - 1) |-> SumAt(a, b, n, i)]
  BY <1>6
<1>9. [i \in 0..(2 * h - 1) |-> SumAt(a, b, n, i)]
        = [i \in Below(size \div 2) |-> IF i < x.size THEN xor(x.bytes[i], y.bytes[i]) ELSE 0]
  BY <1>1, <1>2 DEF SumAt, Below
<1> QED
  BY <1>3, <1>7, <1>8, <1>9

(* The sum of two encoded strings, with one error in every codeword, is    *)
(* decoded to the sum of the strings.                                       *)
THEOREM ErrorsCorrected == BitStringSpec => []OneErrorCorrected
<1>1. BitStringInv => OneErrorCorrected
  <2> SUFFICES ASSUME BitStringInv, NEW o \in Objects, NEW p \in Objects
               PROVE  SumsCorrected(string[o], string[p])
    BY Zenon DEF OneErrorCorrected, SumsCorrected
  <2>1. IsString(string[o]) /\ IsString(string[p])
    BY DEF BitStringInv
  <2> QED
    BY <2>1, SumCorrected
<1> QED
  BY <1>1, BitStringInvariance, PTL
=============================================================================
