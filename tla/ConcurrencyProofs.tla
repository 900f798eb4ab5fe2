------------------------- MODULE ConcurrencyProofs -------------------------
(***************************************************************************)
(* Proofs about the parallel loops of module Concurrency and their use in  *)
(* module Transpose, for every number of threads and items: the ranges cut *)
(* the items into parts, every item is worked on once, the results come in *)
(* order, and from (T - 1)^2 items on no range is reversed; the transpose  *)
(* puts every bit in its place, and no two threads write to one byte.      *)
(***************************************************************************)
EXTENDS Transpose, Induction, FiniteSetTheorems, SequenceTheorems

\* What the caller of a parallel loop passes.
CallOK ==
  /\ call.kind \in {"MULTI", "REDUCE"} /\ call.bits \in BOOLEAN
  /\ call.threads \in Nat \ {0} /\ call.n \in Nat

\* The number of threads that are started.
W ==
  IF Inline THEN 1
  ELSE IF call.kind = "MULTI" /\ n < THREAD_COUNT THEN n
  ELSE THREAD_COUNT

LEMMA WorkersCount ==
  ASSUME CallOK
  PROVE  W \in Nat /\ Workers = 0..(W - 1) /\ Cardinality(Workers) = W
<1>1. W \in Nat /\ Workers = 0..(W - 1)
  <2>1. n \in Nat /\ THREAD_COUNT \in Nat
    BY DEF CallOK, n, THREAD_COUNT
  <2>2. CASE Inline
    <3>1. 0..(1 - 1) = {0}
      OBVIOUS
    <3> QED
      BY <2>2, <3>1 DEF W, Workers
  <2>3. CASE ~Inline
    BY <2>1, <2>3 DEF W, Workers
  <2> QED
    BY <2>2, <2>3
<1>2. Cardinality(0..(W - 1)) = W
  BY <1>1, FS_Interval
<1> QED
  BY <1>1, <1>2

-----------------------------------------------------------------------------
\* m items in T ranges of the size C = m / T, rounded up, one after the other:
\* they reach the end, do not overlap and leave no item out.
LEMMA Ranges ==
  ASSUME NEW T \in Nat \ {0}, NEW m \in Nat, NEW C, C = (m + T - 1) \div T
  PROVE  /\ C \in Nat /\ m <= T * C /\ T * C <= m + T - 1
         /\ \A t \in 0..T : t * C \in Nat /\ t * C <= T * C
         /\ \A t, u \in 0..T : t < u => t * C + C <= u * C
         /\ \A i \in 0..(m - 1) : \E t \in 0..(T - 1) : t * C <= i /\ i < t * C + C
<1>1. C \in Nat /\ T * C <= m + T - 1 /\ m + T - 1 < T * C + T
  BY Dividing
<1>2. m <= T * C
  BY <1>1
<1>3. \A t, u \in 0..T : t < u => t * C + C <= u * C
  BY <1>1, Stretch
<1>4. ASSUME NEW t \in 0..T PROVE t * C \in Nat /\ t * C <= T * C
  BY <1>1, Stretch
<1>5. ASSUME NEW i \in 0..(m - 1)
      PROVE  \E t \in 0..(T - 1) : t * C <= i /\ i < t * C + C
  <2>1. C # 0
    BY <1>1, <1>2
  <2> DEFINE t == i \div C
  <2>2. t \in Nat /\ C * t <= i /\ i < C * t + C
    BY <1>1, <2>1, Dividing
  <2>3. C * t = t * C
    BY <1>1, <2>2
  <2>4. t < T
    <3> SUFFICES ASSUME T <= t PROVE FALSE
      BY <2>2
    <3>1. T * C <= t * C
      BY <1>1, <2>2
    <3> QED
      BY <1>1, <1>2, <2>2, <2>3, <3>1
  <2> QED
    BY <2>2, <2>3, <2>4
<1> QED
  BY <1>1, <1>2, <1>3, <1>4, <1>5

\* The ranges of a call begin and end at items, do not overlap, and hold all.
LEMMA RangesOfCall ==
  ASSUME CallOK
  PROVE  /\ \A t \in Workers : first(t) \in Nat /\ last(t) \in Nat /\ last(t) <= n
         /\ \A t, u \in Workers : t # u => ItemsOf(t) \cap ItemsOf(u) = {}
         /\ \A i \in Items : \E t \in Workers : i \in ItemsOf(t)
<1>1. n \in Nat /\ THREAD_COUNT \in Nat \ {0}
  BY DEF CallOK, n, THREAD_COUNT
<1>2. CASE Inline
  <2>1. /\ Workers = {0} /\ first(0) = 0 * Chunk /\ last(0) = n
    BY <1>2 DEF Inline, Workers, first, last
  <2>2. Chunk \in Nat
    BY <1>1, Ranges DEF Chunk
  <2>3. first(0) = 0
    BY <2>1, <2>2
  <2> QED
    BY <1>1, <2>1, <2>3 DEF ItemsOf, Items
<1>3. CASE call.kind = "MULTI" /\ n < THREAD_COUNT
  <2>1. Workers = 0..(n - 1) /\ \A t \in Workers : first(t) = t /\ last(t) = t + 1
    BY <1>3 DEF Inline, Workers, first, last
  <2>2. \A t \in Workers : ItemsOf(t) = {t}
    BY <1>1, <2>1 DEF ItemsOf
  <2> QED
    BY <1>1, <2>1, <2>2 DEF Items
<1>4. CASE ~Inline /\ ~(call.kind = "MULTI" /\ n < THREAD_COUNT)
  <2>1. /\ Workers = 0..(THREAD_COUNT - 1)
        /\ \A t \in Workers : first(t) = t * Chunk /\ last(t) = SmallerOf(t * Chunk + Chunk, n)
    BY <1>4 DEF Workers, first, last
  <2>2. /\ Chunk \in Nat
        /\ \A t \in Workers : t * Chunk \in Nat
        /\ \A t, u \in Workers : t < u => t * Chunk + Chunk <= u * Chunk
        /\ \A i \in Items : \E t \in Workers : t * Chunk <= i /\ i < t * Chunk + Chunk
    <3> PICK T \in Nat \ {0}, m \in Nat : T = THREAD_COUNT /\ m = n
      BY <1>1
    <3> PICK C : C = (m + T - 1) \div T
      OBVIOUS
    <3>1. Chunk = C /\ Items = 0..(m - 1) /\ Workers = 0..(T - 1)
      BY <2>1 DEF Chunk, Items
    <3>2. C \in Nat /\ \A t \in 0..T : t * C \in Nat
      BY Ranges
    <3>3. \A t, u \in 0..T : t < u => t * C + C <= u * C
      BY Ranges
    <3>4. \A i \in 0..(m - 1) : \E t \in 0..(T - 1) : t * C <= i /\ i < t * C + C
      BY Ranges
    <3>5. 0..(T - 1) \subseteq 0..T
      OBVIOUS
    <3> QED
      BY <3>1, <3>2, <3>3, <3>4, <3>5
  <2>3. \A t \in Workers : first(t) \in Nat /\ last(t) \in Nat /\ last(t) <= n
    BY <1>1, <2>1, <2>2 DEF SmallerOf
  <2>4. \A t \in Workers : \A i : i \in ItemsOf(t) <=> i \in Nat /\ i < n /\ t * Chunk <= i /\ i < t * Chunk + Chunk
    <3> SUFFICES ASSUME NEW t \in Workers, NEW i
                 PROVE  i \in ItemsOf(t) <=> i \in Nat /\ i < n /\ t * Chunk <= i /\ i < t * Chunk + Chunk
      OBVIOUS
    <3> PICK f \in Nat, m \in Nat, C \in Nat : f = t * Chunk /\ m = n /\ C = Chunk
      BY <1>1, <2>2
    <3>1. ItemsOf(t) = f..(SmallerOf(f + C, m) - 1)
      BY <2>1 DEF ItemsOf
    <3>2. i \in f..(SmallerOf(f + C, m) - 1) <=> i \in Nat /\ i < m /\ f <= i /\ i < f + C
      BY DEF SmallerOf
    <3> QED
      BY <3>1, <3>2
  <2>5. ASSUME NEW t \in Workers, NEW u \in Workers, t < u
        PROVE  ItemsOf(t) \cap ItemsOf(u) = {}
    BY <2>2, <2>4, <2>5
  <2>6. \A t, u \in Workers : t # u => t < u \/ u < t
    BY <1>1, <2>1
  <2>7. \A i \in Items : i \in Nat /\ i < n
    BY <1>1 DEF Items
  <2> QED
    BY <2>2, <2>3, <2>4, <2>5, <2>6, <2>7
<1> QED
  BY <1>2, <1>3, <1>4

\* A reversed range takes less than (T - 1)^2 items: n < t * C with t < T, and
\* T * C is below n + T.
LEMMA ReversedIsSmall ==
  ASSUME CallOK, NEW t \in Workers, Wraps(t)
  PROVE  n < (THREAD_COUNT - 1) * (THREAD_COUNT - 1)
<1> PICK m \in Nat, T \in Nat \ {0} : m = n /\ T = THREAD_COUNT
  BY DEF CallOK, n, THREAD_COUNT
<1> PICK C : C = (m + T - 1) \div T
  OBVIOUS
<1>1. ~Inline /\ call.kind = "REDUCE"
  <2>1. call.kind = "REDUCE" /\ last(t) < first(t)
    BY DEF Wraps
  <2>2. ASSUME Inline PROVE FALSE
    <3>1. t = 0 /\ last(t) = m /\ first(t) = 0 * C
      BY <2>1, <2>2 DEF Workers, first, last, Chunk
    <3>2. 0 * C = 0
      BY Ranges
    <3> QED
      BY <2>1, <3>1, <3>2
  <2> QED
    BY <2>1, <2>2
<1>2. t \in 0..(T - 1) /\ first(t) = t * C /\ last(t) = SmallerOf(t * C + C, m)
  BY <1>1 DEF Workers, first, last, Chunk
<1>3. C \in Nat /\ T * C <= m + T - 1 /\ t * C \in Nat
  <2>1. C \in Nat /\ T * C <= m + T - 1
    BY Ranges
  <2> QED
    BY <1>2, <2>1
<1>4. m < t * C
  BY <1>2, <1>3 DEF Wraps, SmallerOf
<1>5. t * C <= (T - 1) * C
  BY <1>2, <1>3
<1>6. m < (T - 1) * C
  BY <1>2, <1>3, <1>4, <1>5
<1>7. (T - 1) * C = T * C - C /\ C < T
  BY <1>2, <1>3, <1>6
<1>8. C <= T - 1 /\ (T - 1) * C <= (T - 1) * (T - 1)
  BY <1>3, <1>7
<1> QED
  BY <1>3, <1>6, <1>8

-----------------------------------------------------------------------------
\* The fold that combines the results of the threads.
AppendTo(r, all) == all \o r

Joined == INSTANCE FoldFacts WITH op <- AppendTo, base <- <<>>, choose <- Max

LEMMA JoinedNone ==
  ASSUME NEW f
  PROVE  Joined!Fold(f, 1..0) = <<>>
<1>1. Joined!Fold(f, {}) = <<>>
  BY Joined!FoldEmpty
<1>2. 1..0 = {}
  OBVIOUS
<1> QED
  BY <1>1, <1>2

LEMMA JoinedNext ==
  ASSUME NEW f, NEW m \in Nat, NEW k, k = m + 1
  PROVE  Joined!Fold(f, 1..k) = Joined!Fold(f, 1..m) \o f[k]
<1>1. Joined!ChoosesLargest(m + 1)
  <2>1. m + 1 \in Nat
    OBVIOUS
  <2> QED
    BY Zenon, <2>1, MaxIsLargest DEF Joined!ChoosesLargest
<1>2. Joined!Fold(f, 1..(m + 1)) = AppendTo(f[m + 1], Joined!Fold(f, 1..m))
  BY <1>1, Joined!FoldInterval
<1> QED
  BY <1>2 DEF AppendTo

\* The items 0..j-1 in order, and how a range continues them.
Upto(j) == [i \in 1..j |-> i - 1]

LEMMA UptoContinues ==
  ASSUME NEW a \in Nat, NEW b \in Nat, a <= b
  PROVE  Upto(a) \o [k \in 1..(b - a) |-> a + k - 1] = Upto(b)
<1> DEFINE s == Upto(a)
           r == [k \in 1..(b - a) |-> a + k - 1]
<1>1. s \in Seq(Int) /\ Len(s) = a
  BY DEF Upto
<1>2. r \in Seq(Int) /\ Len(r) = b - a
  OBVIOUS
<1>3. s \o r \in Seq(Int) /\ Len(s \o r) = b
  BY <1>1, <1>2
<1>4. /\ \A i \in 1..a : s[i] = i - 1
      /\ \A i \in 1..(b - a) : r[i] = a + i - 1
  BY DEF Upto
<1>5. Upto(b) \in Seq(Int) /\ Len(Upto(b)) = b /\ \A i \in 1..b : Upto(b)[i] = i - 1
  BY DEF Upto
<1> HIDE DEF s, r
<1>6. ASSUME NEW i \in 1..b PROVE (s \o r)[i] = i - 1
  <2>1. CASE i <= a
    <3>1. (s \o r)[i] = s[i]
      BY <1>1, <1>2, <2>1, ConcatProperties
    <3> QED
      BY <1>4, <2>1, <3>1
  <2>2. CASE i > a
    <3>1. (s \o r)[i] = r[i - a] /\ i - a \in 1..(b - a)
      BY <1>1, <1>2, <2>2, ConcatProperties
    <3> QED
      BY <1>4, <3>1
  <2>3. i <= a \/ i > a
    OBVIOUS
  <2> QED
    BY <2>1, <2>2, <2>3
<1>7. s \o r = Upto(b)
  BY <1>3, <1>5, <1>6, SeqEqual
<1> QED
  BY <1>7 DEF s, r

\* The result that a thread has when it is done.
Part(t) == [k \in 1..Cardinality(ItemsOf(t)) |-> first(t) + k - 1]

\* The results of all threads, combined in the order of the threads, are the
\* items in their order.
LEMMA CombinedInOrder ==
  ASSUME CallOK, call.kind = "REDUCE", \A t \in Workers : results[t] = Part(t)
  PROVE  Combined = [i \in 1..n |-> i - 1]
<1> PICK f : f = [t \in 1..Cardinality(Workers) |-> results[t - 1]]
  OBVIOUS
<1> PICK m \in Nat, T \in Nat \ {0} : m = n /\ T = THREAD_COUNT
  BY DEF CallOK, n, THREAD_COUNT
<1> PICK C : C = (m + T - 1) \div T
  OBVIOUS
<1>1. Combined = Joined!Fold(f, 1..W)
  <2>1. DOMAIN f = 1..W
    BY WorkersCount
  <2>2. Combined = FoldLeft(\o, <<>>, f)
    BY DEF Combined, FoldLeft, MapThenFoldSet
  <2>3. FoldLeft(\o, <<>>, f) = Joined!Fold(f, DOMAIN f)
    BY DEF FoldLeft, MapThenFoldSet, Joined!Fold, AppendTo
  <2> QED
    BY <2>1, <2>2, <2>3
<1>2. W \in Nat /\ \A t \in 0..(W - 1) : f[t + 1] = Part(t)
  <2>1. W \in Nat /\ Workers = 0..(W - 1) /\ Cardinality(Workers) = W
    BY WorkersCount
  <2> QED
    BY <2>1
<1>3. CASE Inline
  <2>1. W = 1 /\ first(0) = 0 * C /\ last(0) = m /\ 0 \in 0..(W - 1)
    BY <1>3 DEF W, first, last, Chunk
  <2>2. first(0) = 0 /\ ItemsOf(0) = 0..(m - 1)
    BY <2>1, Ranges DEF ItemsOf
  <2>3. Cardinality(ItemsOf(0)) = m
    BY <2>2, FS_Interval
  <2>4. Part(0) = [k \in 1..(m - 0) |-> 0 + k - 1]
    BY <2>2, <2>3 DEF Part
  <2>5. Joined!Fold(f, 1..W) = <<>> \o Part(0)
    <3>1. Joined!Fold(f, 1..1) = Joined!Fold(f, 1..0) \o f[1]
      <4>1. 0 \in Nat /\ 1 = 0 + 1
        OBVIOUS
      <4> QED
        BY Zenon, <4>1, JoinedNext
    <3>2. f[1] = Part(0)
      BY <1>2, <2>1
    <3> QED
      BY <2>1, <3>1, <3>2, JoinedNone
  <2>6. Upto(0) = <<>> /\ Upto(0) \o Part(0) = Upto(m)
    BY <2>4, UptoContinues DEF Upto
  <2> QED
    BY <1>1, <2>1, <2>5, <2>6 DEF Upto
<1>4. CASE ~Inline
  <2>1. /\ W = T
        /\ \A t \in 0..(T - 1) : first(t) = t * C /\ last(t) = SmallerOf(t * C + C, m)
    BY <1>4 DEF W, first, last, Chunk
  <2>2. C \in Nat /\ m <= T * C /\ \A t \in 0..T : t * C \in Nat
    BY Ranges
  <2> DEFINE S == {t \in 0..T : Joined!Fold(f, 1..t) = Upto(SmallerOf(t * C, m))}
  <2>3. 0 \in S
    <3>1. SmallerOf(0 * C, m) = 0 /\ Upto(0) = <<>>
      BY <2>2 DEF SmallerOf, Upto
    <3> QED
      BY <3>1, JoinedNone
  <2>4. ASSUME NEW t \in 0..(T - 1), t \in S PROVE t + 1 \in S
    <3> PICK p \in Nat : p = t * C
      BY <2>2
    <3>1. Joined!Fold(f, 1..(t + 1)) = Upto(SmallerOf(p, m)) \o Part(t)
      <4>1. Joined!Fold(f, 1..(t + 1)) = Joined!Fold(f, 1..t) \o f[t + 1]
        <5>1. t \in Nat /\ t + 1 = t + 1
          OBVIOUS
        <5> QED
          BY ZenonT(40), <5>1, JoinedNext
      <4>2. Joined!Fold(f, 1..t) = Upto(SmallerOf(p, m)) /\ f[t + 1] = Part(t)
        BY <1>2, <2>1, <2>4
      <4> QED
        BY <4>1, <4>2
    <3>2. (t + 1) * C = p + C
      BY <2>2
    <3>3. first(t) = p /\ ItemsOf(t) = p..(SmallerOf(p + C, m) - 1)
      BY <2>1 DEF ItemsOf
    <3>4. Upto(SmallerOf(p, m)) \o Part(t) = Upto(SmallerOf(p + C, m))
      <4>1. CASE p <= m
        <5> DEFINE e == SmallerOf(p + C, m)
        <5>1. e \in Nat /\ p <= e /\ SmallerOf(p, m) = p
          BY <2>2, <4>1 DEF SmallerOf
        <5> HIDE DEF e
        <5>2. Cardinality(p..(e - 1)) = e - p
          BY <5>1, FS_Interval
        <5>3. Part(t) = [k \in 1..(e - p) |-> p + k - 1]
          BY <3>3, <5>2 DEF Part, e
        <5>4. Upto(p) \o [k \in 1..(e - p) |-> p + k - 1] = Upto(e)
          BY <5>1, UptoContinues
        <5> QED
          BY <5>1, <5>3, <5>4 DEF e
      <4>2. CASE p > m
        <5>1. SmallerOf(p + C, m) = m /\ SmallerOf(p, m) = m
          BY <2>2, <4>2 DEF SmallerOf
        <5>2. ItemsOf(t) = {}
          BY <3>3, <4>2, <5>1
        <5>3. Part(t) = [k \in 1..(m - m) |-> m + k - 1]
          <6>1. Cardinality(ItemsOf(t)) = 0 /\ 1..0 = {}
            BY <5>2, FS_EmptySet
          <6> QED
            BY <6>1 DEF Part
        <5> QED
          BY <5>1, <5>3, UptoContinues
      <4> QED
        BY <4>1, <4>2
    <3>5. t + 1 \in 0..T
      OBVIOUS
    <3> QED
      BY <3>1, <3>2, <3>4, <3>5
  <2> HIDE DEF S
  <2>5. T \in S
    BY <2>3, <2>4, IntervalInduction
  <2>6. SmallerOf(T * C, m) = m
    BY <2>2 DEF SmallerOf
  <2> QED
    BY <1>1, <2>1, <2>5, <2>6 DEF S, Upto
<1> QED
  BY <1>3, <1>4

-----------------------------------------------------------------------------
Over == {"done", "threw"}

\* Where the caller is, and what it has started and joined.
CallerInv ==
  /\ pc \in {"start", "wait", "returned", "failed"}
  /\ started \in 0..W /\ joined \in 0..W
  /\ pc = "start" => joined = 0
  /\ pc # "start" => started = W
  /\ pc \in {"returned", "failed"} => joined = W

\* What the threads are at: only those that were started run, those that were
\* joined are over, and one throws only for a size that wraps around.
ThreadInv ==
  /\ thread \in [Workers -> {"none", "running"} \cup Over]
  /\ \A t \in Workers : t >= started => thread[t] = "none"
  /\ \A t \in Workers : t < joined => thread[t] \in Over
  /\ \A t \in Workers : thread[t] = "threw" => Wraps(t)

\* What was worked on: the items of the threads that are over.
WorkInv ==
  /\ count \in [Items -> Nat]
  /\ \A t \in Workers : \A i \in ItemsOf(t) : count[i] = IF thread[t] \in Over THEN 1 ELSE 0
  /\ DOMAIN results = Workers
  /\ \A t \in Workers : thread[t] \in Over => results[t] = Part(t)

\* What the caller returns with.
ReturnInv ==
  /\ pc = "returned" => \A t \in Workers : thread[t] = "done"
  /\ pc = "returned" /\ call.kind = "REDUCE" => out = Combined
  /\ pc = "failed" => \E t \in Workers : thread[t] = "threw"

CallInv == CallOK /\ CallerInv /\ ThreadInv /\ WorkInv /\ ReturnInv

\* The definitions that are made of the call alone.
LEMMA SameCall ==
  ASSUME call' = call
  PROVE  /\ CallOK' = CallOK /\ W' = W /\ Workers' = Workers /\ Items' = Items
         /\ \A t : ItemsOf(t)' = ItemsOf(t) /\ Wraps(t)' = Wraps(t) /\ Part(t)' = Part(t)
<1>1. n' = n /\ THREAD_COUNT' = THREAD_COUNT
  BY DEF n, THREAD_COUNT
<1>2. Inline' = Inline /\ Chunk' = Chunk
  BY <1>1 DEF Inline, Chunk
<1>3. \A t : first(t)' = first(t) /\ last(t)' = last(t)
  BY <1>1, <1>2 DEF first, last
<1>4. \A t : ItemsOf(t)' = ItemsOf(t) /\ Wraps(t)' = Wraps(t)
  BY <1>3 DEF ItemsOf, Wraps
<1>5. CallOK' = CallOK /\ W' = W /\ Workers' = Workers /\ Items' = Items
  BY <1>1, <1>2 DEF CallOK, W, Workers, Items
<1>6. \A t : Part(t)' = Part(t)
  BY <1>3, <1>4 DEF Part
<1> QED
  BY <1>4, <1>5, <1>6

\* The items of a worker are items.
LEMMA OwnItems ==
  ASSUME CallOK, NEW t \in Workers
  PROVE  ItemsOf(t) \subseteq Items /\ n \in Nat
<1>1. first(t) \in Nat /\ last(t) \in Nat /\ last(t) <= n
  BY RangesOfCall
<1>2. n \in Nat
  BY DEF CallOK, n
<1> QED
  BY <1>1, <1>2 DEF ItemsOf, Items

\* The caller of a new call.
LEMMA CallBegins ==
  ASSUME CallOK, pc = "start", started = 0, joined = 0,
         thread = [t \in Workers |-> "none"], count = [i \in Items |-> 0],
         results = [t \in Workers |-> <<>>]
  PROVE  CallInv
<1>1. W \in Nat
  BY WorkersCount
<1>2. CallerInv
  BY <1>1 DEF CallerInv
<1>3. ThreadInv
  BY <1>1, WorkersCount DEF ThreadInv, Over
<1>4. WorkInv
  BY OwnItems DEF WorkInv, Over
<1>5. ReturnInv
  BY DEF ReturnInv
<1> QED
  BY <1>2, <1>3, <1>4, <1>5 DEF CallInv

LEMMA StartKeeps ==
  ASSUME CallInv, StartThread
  PROVE  CallInv'
<1>1. /\ W \in Nat /\ Workers = 0..(W - 1) /\ Cardinality(Workers) = W
      /\ started \in 0..W /\ joined = 0
  BY WorkersCount DEF CallInv, CallerInv, StartThread
<1>2. /\ call' = call /\ joined' = joined /\ count' = count /\ results' = results
      /\ pc = "start" /\ pc' \in {"start", "wait"}
  BY DEF StartThread
<1>3. CASE started < W
  <2>1. thread' = [thread EXCEPT ![started] = "running"] /\ started' = started + 1 /\ pc' = pc
    BY <1>1, <1>3 DEF StartThread
  <2>2. started \in Workers /\ thread[started] = "none"
    BY <1>1, <1>3 DEF CallInv, ThreadInv
  <2>3. CallerInv'
    BY <1>1, <1>2, <1>3, <2>1, SameCall DEF CallInv, CallerInv
  <2>4. \A t \in Workers : thread'[t] = IF t = started THEN "running" ELSE thread[t]
    BY <2>1, <2>2 DEF CallInv, ThreadInv
  <2>5. ThreadInv'
    <3>1. thread' \in [Workers -> {"none", "running"} \cup Over]
      BY <2>1 DEF CallInv, ThreadInv
    <3>2. \A t \in Workers : t >= started + 1 => thread'[t] = "none"
      BY <1>1, <2>4 DEF CallInv, ThreadInv
    <3>3. \A t \in Workers : ~(t < joined)
      BY <1>1
    <3>4. \A t \in Workers : thread'[t] = "threw" => Wraps(t)
      BY <2>4 DEF CallInv, ThreadInv
    <3> QED
      BY <1>2, <2>1, <3>1, <3>2, <3>3, <3>4, SameCall DEF ThreadInv
  <2>6. WorkInv'
    <3>1. \A t \in Workers : thread'[t] \in Over <=> thread[t] \in Over
      BY <2>2, <2>4 DEF Over
    <3> QED
      BY <1>2, <3>1, SameCall DEF CallInv, WorkInv
  <2>7. ReturnInv'
    BY <1>2 DEF ReturnInv
  <2> QED
    BY <1>2, <2>3, <2>5, <2>6, <2>7, SameCall DEF CallInv
<1>4. CASE ~(started < W)
  <2>1. thread' = thread /\ started' = started /\ pc' = "wait" /\ started = W
    BY <1>1, <1>4 DEF StartThread
  <2>2. CallerInv'
    BY <1>1, <1>2, <2>1, SameCall DEF CallInv, CallerInv
  <2>3. ThreadInv' /\ WorkInv'
    BY <1>2, <2>1, SameCall DEF CallInv, ThreadInv, WorkInv
  <2>4. ReturnInv'
    BY <2>1 DEF ReturnInv
  <2> QED
    BY <1>2, <2>2, <2>3, <2>4, SameCall DEF CallInv
<1> QED
  BY <1>3, <1>4

LEMMA FinishKeeps ==
  ASSUME CallInv, NEW t \in Workers, FinishThread(t)
  PROVE  CallInv'
<1>1. /\ call' = call /\ pc' = pc /\ started' = started /\ joined' = joined /\ out' = out
      /\ thread[t] = "running"
      /\ thread' = [thread EXCEPT ![t] = IF Wraps(t) THEN "threw" ELSE "done"]
      /\ count' = [i \in Items |-> IF i \in ItemsOf(t) THEN count[i] + 1 ELSE count[i]]
      /\ results' = [results EXCEPT ![t] = Part(t)]
  BY DEF FinishThread, Part
<1>2. /\ W \in Nat /\ Workers = 0..(W - 1)
      /\ started \in 0..W /\ joined \in 0..W
      /\ thread \in [Workers -> {"none", "running"} \cup Over]
      /\ count \in [Items -> Nat] /\ DOMAIN results = Workers
  BY WorkersCount DEF CallInv, CallerInv, ThreadInv, WorkInv
<1>3. /\ thread'[t] \in Over
      /\ thread'[t] = "threw" => Wraps(t)
      /\ \A u \in Workers : u # t => thread'[u] = thread[u]
      /\ \A u \in Workers : u = t => u < started /\ ~(u < joined)
  BY <1>1, <1>2 DEF CallInv, ThreadInv, Over
<1>4. ThreadInv'
  <2>1. thread' \in [Workers -> {"none", "running"} \cup Over]
    BY <1>1, <1>2 DEF Over
  <2>2. \A u \in Workers : u >= started => thread'[u] = "none"
    BY <1>2, <1>3 DEF CallInv, ThreadInv
  <2>3. \A u \in Workers : u < joined => thread'[u] \in Over
    BY <1>3 DEF CallInv, ThreadInv
  <2>4. \A u \in Workers : thread'[u] = "threw" => Wraps(u)
    BY <1>3 DEF CallInv, ThreadInv
  <2> QED
    BY <1>1, <2>1, <2>2, <2>3, <2>4, SameCall DEF ThreadInv
<1>5. WorkInv'
  <2>1. count' \in [Items -> Nat]
    BY <1>1, <1>2
  <2>2. ASSUME NEW u \in Workers, NEW i \in ItemsOf(u)
        PROVE  count'[i] = IF thread'[u] \in Over THEN 1 ELSE 0
    <3>1. i \in Items /\ count[i] = IF thread[u] \in Over THEN 1 ELSE 0
      BY OwnItems DEF CallInv, WorkInv
    <3>2. CASE u = t
      BY <1>1, <1>3, <3>1, <3>2 DEF Over
    <3>3. CASE u # t
      <4>1. i \notin ItemsOf(t)
        BY <3>3, RangesOfCall DEF CallInv
      <4> QED
        BY <1>1, <1>3, <3>1, <3>3, <4>1
    <3> QED
      BY <3>2, <3>3
  <2>3. /\ DOMAIN results' = Workers
        /\ \A u \in Workers : thread'[u] \in Over => results'[u] = Part(u)
    BY <1>1, <1>2, <1>3 DEF CallInv, WorkInv
  <2> QED
    BY <1>1, <2>1, <2>2, <2>3, SameCall DEF WorkInv
<1>6. CallerInv'
  BY <1>1, SameCall DEF CallInv, CallerInv
<1>7. ReturnInv'
  <2>1. pc # "returned"
    BY <1>1 DEF CallInv, ReturnInv
  <2>2. pc = "failed" => \E u \in Workers : thread'[u] = "threw"
    BY <1>1, <1>3 DEF CallInv, ReturnInv
  <2> QED
    BY <1>1, <2>1, <2>2, SameCall DEF ReturnInv
<1> QED
  BY <1>1, <1>4, <1>5, <1>6, <1>7, SameCall DEF CallInv

LEMMA JoinKeeps ==
  ASSUME CallInv, JoinThread
  PROVE  CallInv'
<1>1. /\ pc = "wait" /\ joined < W /\ thread[joined] \in Over /\ joined' = joined + 1
      /\ call' = call /\ pc' = pc /\ started' = started /\ thread' = thread
      /\ count' = count /\ results' = results /\ out' = out
  BY WorkersCount DEF CallInv, JoinThread, Over
<1>2. W \in Nat /\ Workers = 0..(W - 1) /\ joined \in 0..W
  BY WorkersCount DEF CallInv, CallerInv
<1>3. CallerInv'
  BY <1>1, <1>2, SameCall DEF CallInv, CallerInv
<1>4. ThreadInv'
  <2>1. \A t \in Workers : t < joined + 1 => thread[t] \in Over
    BY <1>1, <1>2 DEF CallInv, ThreadInv
  <2> QED
    BY <1>1, <2>1, SameCall DEF CallInv, ThreadInv
<1>5. WorkInv' /\ ReturnInv'
  BY <1>1, SameCall DEF CallInv, WorkInv, ReturnInv
<1> QED
  BY <1>1, <1>3, <1>4, <1>5, SameCall DEF CallInv

LEMMA ReturnKeeps ==
  ASSUME CallInv, Return
  PROVE  CallInv'
<1>1. /\ pc = "wait" /\ joined = W /\ pc' \in {"returned", "failed"}
      /\ call' = call /\ started' = started /\ thread' = thread /\ joined' = joined
      /\ count' = count /\ results' = results
  BY WorkersCount DEF CallInv, Return
<1>2. W \in Nat /\ Workers = 0..(W - 1) /\ started = W
  BY <1>1, WorkersCount DEF CallInv, CallerInv
<1>3. CallerInv'
  BY <1>1, <1>2, SameCall DEF CallInv, CallerInv
<1>4. ThreadInv' /\ WorkInv'
  BY <1>1, SameCall DEF CallInv, ThreadInv, WorkInv
<1>5. ReturnInv'
  <2>1. \A t \in Workers : thread[t] \in Over
    BY <1>1, <1>2 DEF CallInv, ThreadInv
  <2>2. Combined' = Combined
    BY <1>1, SameCall DEF Combined, FoldLeft, MapThenFoldSet
  <2>3. CASE \E t \in Workers : thread[t] = "threw"
    BY <1>1, <2>3, SameCall DEF Return, ReturnInv
  <2>4. CASE ~ \E t \in Workers : thread[t] = "threw"
    BY <1>1, <2>1, <2>2, <2>4, SameCall DEF Return, ReturnInv, Over
  <2> QED
    BY <2>3, <2>4
<1> QED
  BY <1>1, <1>3, <1>4, <1>5, SameCall DEF CallInv

\* A step that does not touch the call keeps what it has.
LEMMA IdleKeeps ==
  ASSUME CallInv, UNCHANGED vars
  PROVE  CallInv'
<1>1. /\ call' = call /\ pc' = pc /\ started' = started /\ thread' = thread
      /\ joined' = joined /\ count' = count /\ results' = results /\ out' = out
  BY DEF vars
<1>2. Combined' = Combined
  BY <1>1, SameCall DEF Combined, FoldLeft, MapThenFoldSet
<1> QED
  BY <1>1, <1>2, SameCall DEF CallInv, CallerInv, ThreadInv, WorkInv, ReturnInv

\* What a call in such a state can say of its end.
LEMMA CallEnds ==
  ASSUME CallInv
  PROVE  AllDone /\ InOrder /\ NeverReversed
<1>1. AllDone
  <2>1. ASSUME pc = "returned", NEW i \in Items PROVE count[i] = 1
    <3>1. PICK t \in Workers : i \in ItemsOf(t)
      BY RangesOfCall DEF CallInv
    <3> QED
      BY <2>1, <3>1 DEF CallInv, WorkInv, ReturnInv, Over
  <2> QED
    BY <2>1 DEF AllDone, CallInv, ReturnInv
<1>2. InOrder
  <2> SUFFICES ASSUME pc = "returned", call.kind = "REDUCE"
               PROVE  out = [i \in 1..n |-> i - 1]
    BY DEF InOrder
  <2>1. \A t \in Workers : results[t] = Part(t)
    BY DEF CallInv, WorkInv, ReturnInv, Over
  <2>2. Combined = [i \in 1..n |-> i - 1]
    BY <2>1, CombinedInOrder DEF CallInv
  <2> QED
    BY <2>2 DEF CallInv, ReturnInv
<1>3. NeverReversed
  BY ReversedIsSmall DEF CallInv, ThreadInv, ReturnInv, NeverReversed
<1> QED
  BY <1>1, <1>2, <1>3

-----------------------------------------------------------------------------
\* A parallel loop on its own: when it returns each item was worked on once and
\* no thread is left, its results are in order, and it fails only for few items.
THEOREM LoopCorrect == Spec => [](AllDone /\ InOrder /\ NeverReversed)
<1>1. Init => CallInv
  <2> SUFFICES ASSUME Init PROVE CallInv
    OBVIOUS
  <2>1. CallOK
    BY ConcurrencyAssumption DEF Init, CallOK
  <2> QED
    BY <2>1, CallBegins DEF Init
<1>2. CallInv /\ [Next]_vars => CallInv'
  BY StartKeeps, FinishKeeps, JoinKeeps, ReturnKeeps, IdleKeeps DEF Next, Stop
<1> QED
  BY <1>1, <1>2, CallEnds, PTL DEF Spec

-----------------------------------------------------------------------------
\* What transpose() is called with.
LEMMA JobSizes ==
  ASSUME job \in Jobs
  PROVE  /\ job.threads \in Nat \ {0} /\ job.N \in Nat \ {0} /\ job.k \in Nat \ {0}
         /\ job.td \in Nat \ {0} /\ Byte \in Nat \ {0}
         /\ domain \in Nat \ {0} /\ job.N <= job.td * domain
         /\ job # NoJob
<1>1. /\ job.threads \in Nat \ {0} /\ job.N \in Nat \ {0} /\ job.k \in Nat \ {0}
      /\ job.td \in Nat \ {0} /\ Byte \in Nat \ {0}
  BY TransposeAssumption
<1>2. domain \in Nat /\ job.N <= job.td * domain
  <2> PICK T \in Nat \ {0}, m \in Nat : T = job.td /\ m = job.N
    BY <1>1
  <2> PICK d : d = (m + T - 1) \div T
    OBVIOUS
  <2>1. d \in Nat /\ m <= T * d
    BY Ranges
  <2> QED
    BY <2>1 DEF domain
<1>3. domain # 0
  BY <1>1, <1>2
<1>4. job # NoJob
  BY <1>1 DEF NoJob
<1> QED
  BY <1>1, <1>2, <1>3, <1>4

-----------------------------------------------------------------------------
\* The loop that deals the rows, as a fold over the PPRFs.
Leaves(pushed) == IF pushed >= job.N THEN 1 ELSE SmallerOf(domain, job.N - pushed)

DealOn(p, rows) == rows \o [i \in 1..Leaves(Len(rows)) |-> <<p, i - 1>>]

Dealing == INSTANCE FoldFacts WITH op <- DealOn, base <- <<>>, choose <- Max

\* Row b of the matrix, by PPRF and leaf.
Leaf(b) == <<(b - 1) \div domain, (b - 1) % domain>>

RowNames == Nat \X Nat

\* What was dealt from the first m PPRFs: rows up to N are the leaves in their
\* order, and every PPRF gave its first leaf.
DealtFrom(m, rows) ==
  /\ rows \in Seq(RowNames)
  /\ \A p \in 0..(m - 1) : \E i \in 1..Len(rows) : rows[i] = <<p, 0>>
  /\ Len(rows) <= job.N =>
       /\ Len(rows) = SmallerOf(m * domain, job.N)
       /\ \A b \in 1..Len(rows) : rows[b] = Leaf(b)

LEMMA LeafIs ==
  ASSUME domain \in Nat \ {0}, NEW m \in Nat, NEW r \in Nat, r < domain
  PROVE  Leaf(m * domain + r + 1) = <<m, r>>
<1> PICK d \in Nat \ {0} : d = domain
  OBVIOUS
<1> PICK a : a = m * d + r
  OBVIOUS
<1>1. a \div d = m /\ a % d = r
  BY DividesAs
<1>2. m * d + r + 1 - 1 = a
  <2>1. m * d \in Nat
    OBVIOUS
  <2> QED
    BY <2>1
<1> QED
  BY <1>1, <1>2 DEF Leaf

LEMMA MoreRows ==
  ASSUME NEW m \in Nat, NEW L \in Nat, NEW rows \in Seq(RowNames), NEW more,
         more = [i \in 1..L |-> <<m, i - 1>>]
  PROVE  /\ rows \o more \in Seq(RowNames) /\ Len(rows \o more) = Len(rows) + L
         /\ \A i \in 1..Len(rows) : (rows \o more)[i] = rows[i]
         /\ \A i \in 1..L : (rows \o more)[Len(rows) + i] = <<m, i - 1>>
<1>1. more \in [1..L -> RowNames] /\ \A i \in 1..L : more[i] = <<m, i - 1>>
  BY DEF RowNames
<1>2. rows \o more \in Seq(RowNames) /\ Len(rows \o more) = Len(rows) + L
  BY <1>1, Lengthened
<1>3. \A i \in 1..Len(rows) : (rows \o more)[i] = rows[i]
  BY <1>1, Lengthened
<1>4. \A i \in 1..L : (rows \o more)[Len(rows) + i] = more[i]
  BY <1>1, Lengthened
<1> QED
  BY <1>1, <1>2, <1>3, <1>4

LEMMA DealOnKeeps ==
  ASSUME job \in Jobs, NEW m \in Nat, NEW rows, DealtFrom(m, rows)
  PROVE  DealtFrom(m + 1, DealOn(m, rows))
<1> PICK d \in Nat \ {0}, N \in Nat \ {0} : d = domain /\ N = job.N
  BY JobSizes
<1> PICK M \in Nat : M = m + 1
  OBVIOUS
<1> PICK L : L = Leaves(Len(rows))
  OBVIOUS
<1> PICK more : more = [i \in 1..L |-> <<m, i - 1>>]
  OBVIOUS
<1> PICK all : all = rows \o more
  OBVIOUS
<1> PICK h : h = Len(rows)
  OBVIOUS
<1>1. rows \in Seq(RowNames) /\ h \in Nat
  BY DEF DealtFrom
<1>2. L \in Nat \ {0}
  BY <1>1 DEF Leaves, SmallerOf
<1>4. /\ all \in Seq(RowNames) /\ Len(all) = h + L
      /\ \A i \in 1..h : all[i] = rows[i]
      /\ \A i \in 1..L : all[h + i] = <<m, i - 1>>
  <2>1. Len(rows \o more) = Len(rows) + L
    BY <1>1, <1>2, MoreRows
  <2>4. rows \o more \in Seq(RowNames)
    BY <1>1, <1>2, MoreRows
  <2>2. \A i \in 1..h : all[i] = rows[i]
    BY <1>1, <1>2, MoreRows
  <2>3. \A i \in 1..L : all[h + i] = <<m, i - 1>>
    BY SMTT(30), <1>1, <1>2, MoreRows
  <2> QED
    BY <2>1, <2>2, <2>3, <2>4
<1>5. \A i \in 1..Len(all) : i \in 1..h \/ \E x \in 1..L : i = h + x
  <2> SUFFICES ASSUME NEW i \in 1..(h + L), i \notin 1..h PROVE \E x \in 1..L : i = h + x
    BY <1>4
  <2>1. i - h \in 1..L /\ i = h + (i - h)
    BY <1>1, <1>2
  <2> QED
    BY <2>1
<1>6. ASSUME NEW p \in 0..m PROVE \E i \in 1..Len(all) : all[i] = <<p, 0>>
  <2>1. CASE p = m
    <3>1. h + 1 \in 1..Len(all) /\ 1 \in 1..L /\ <<m, 1 - 1>> = <<m, 0>>
      BY <1>1, <1>2, <1>4
    <3>2. all[h + 1] = <<m, 1 - 1>>
      BY <1>4, <3>1
    <3> QED
      BY <2>1, <3>1, <3>2
  <2>2. CASE p # m
    <3>1. p \in 0..(m - 1)
      BY <2>2
    <3>2. PICK i \in 1..h : rows[i] = <<p, 0>>
      BY <3>1 DEF DealtFrom
    <3>3. i \in 1..Len(all)
      BY <1>1, <1>2, <1>4
    <3> QED
      BY <1>4, <3>2, <3>3
  <2> QED
    BY <2>1, <2>2
<1>7. ASSUME Len(all) <= N
      PROVE  /\ Len(all) = SmallerOf(M * d, N)
             /\ \A b \in 1..Len(all) : all[b] = Leaf(b)
  <2>1. h < N
    BY <1>1, <1>2, <1>4, <1>7
  <2>2. m * d \in Nat /\ M * d = m * d + d
    OBVIOUS
  <2> PICK g \in Nat : g = m * d
    BY <2>2
  <2>3. h = g /\ \A b \in 1..h : rows[b] = Leaf(b)
    BY <1>1, <2>1 DEF DealtFrom, SmallerOf
  <2>4. L = SmallerOf(d, N - g)
    BY <1>1, <2>1, <2>3 DEF Leaves
  <2>5. Len(all) = SmallerOf(g + d, N) /\ L <= d
    <3>1. Len(all) = g + L /\ g < N /\ L = IF d < N - g THEN d ELSE N - g
      BY <1>4, <2>1, <2>3, <2>4 DEF SmallerOf
    <3> QED
      BY SMTT(30), <3>1 DEF SmallerOf
  <2>6. ASSUME NEW x \in 1..L PROVE all[h + x] = Leaf(h + x)
    <3> PICK r, b : r = x - 1 /\ b = h + x
      OBVIOUS
    <3>1. r \in Nat /\ r < d /\ b = m * d + r + 1
      BY <1>2, <2>3, <2>5
    <3>2. Leaf(m * domain + r + 1) = <<m, r>>
      BY <3>1, LeafIs
    <3>3. Leaf(b) = <<m, r>>
      BY <3>1, <3>2 DEF Leaf
    <3> QED
      BY <1>4, <3>3
  <2>7. ASSUME NEW b \in 1..h PROVE all[b] = Leaf(b)
    BY <1>4, <2>3
  <2>8. ASSUME NEW b \in 1..Len(all) PROVE all[b] = Leaf(b)
    <3>1. CASE b \in 1..h
      BY <2>7, <3>1
    <3>2. CASE b \notin 1..h
      <4>1. PICK x \in 1..L : b = h + x
        BY <1>5, <3>2
      <4> QED
        BY <2>6, <4>1
    <3> QED
      BY <3>1, <3>2
  <2> QED
    BY <2>2, <2>5, <2>8
<1>8. DealtFrom(M, all)
  <2>1. 0..(M - 1) = 0..m
    OBVIOUS
  <2>2. all \in Seq(RowNames)
    BY <1>4
  <2> QED
    BY <1>6, <1>7, <2>1, <2>2 DEF DealtFrom
<1> QED
  BY <1>8 DEF DealOn

\* The whole loop.
LEMMA DealtRows ==
  ASSUME job \in Jobs
  PROVE  DealtFrom(job.td, Dealt)
<1> PICK T \in Nat : T = job.td
  BY JobSizes
<1> PICK f : f = [p \in 1..T |-> p - 1]
  OBVIOUS
<1>1. Dealt = Dealing!Fold(f, 1..T)
  <2>1. DOMAIN f = 1..T
    OBVIOUS
  <2>2. Dealt = Dealing!Fold(f, DOMAIN f)
    BY DEF Dealt, FoldLeft, MapThenFoldSet, Dealing!Fold, DealOn, Leaves
  <2> QED
    BY <2>1, <2>2
<1> PICK S : S = {m \in 0..T : DealtFrom(m, Dealing!Fold(f, 1..m))}
  OBVIOUS
<1>2. 0 \in S
  <2>1. Dealing!Fold(f, {}) = <<>> /\ 1..0 = {}
    BY Dealing!FoldEmpty
  <2>2. DealtFrom(0, <<>>)
    <3>1. domain \in Nat /\ job.N \in Nat
      BY JobSizes
    <3>2. 0 * domain = 0
      BY <3>1
    <3> QED
      BY <3>1, <3>2 DEF DealtFrom, SmallerOf
  <2> QED
    BY <2>1, <2>2
<1>3. ASSUME NEW m \in 0..(T - 1), m \in S PROVE m + 1 \in S
  <2>1. Dealing!ChoosesLargest(m + 1)
    <3>1. m + 1 \in Nat
      OBVIOUS
    <3> QED
      BY Zenon, <3>1, MaxIsLargest DEF Dealing!ChoosesLargest
  <2>2. Dealing!Fold(f, 1..(m + 1)) = DealOn(f[m + 1], Dealing!Fold(f, 1..m))
    <3>1. m \in Nat
      OBVIOUS
    <3> QED
      BY Zenon, <2>1, <3>1, Dealing!FoldInterval
  <2>3. f[m + 1] = m
    OBVIOUS
  <2> PICK rows : rows = Dealing!Fold(f, 1..m)
    OBVIOUS
  <2>4. DealtFrom(m + 1, DealOn(m, rows))
    BY <1>3, DealOnKeeps
  <2>5. m + 1 \in 0..T
    OBVIOUS
  <2> QED
    BY <2>2, <2>3, <2>4, <2>5
<1>4. T \in S
  <2>1. 0..T \subseteq S
    BY Zenon, <1>2, <1>3, IntervalInduction
  <2> QED
    BY <2>1
<1> QED
  BY <1>1, <1>4

-----------------------------------------------------------------------------
\* A number below p * D lies in one of p slots of the size D.
LEMMA SlotOf ==
  ASSUME NEW D \in Nat \ {0}, NEW p \in Nat, NEW x \in Nat, x < p * D
  PROVE  \E r \in 0..(p - 1) : r * D \in Nat /\ x - r * D \in 0..(D - 1)
<1> PICK r : r = x \div D
  OBVIOUS
<1>1. r \in Nat /\ D * r <= x /\ x < D * r + D /\ D * r = r * D
  BY Dividing
<1>2. ~(p <= r)
  <2> SUFFICES ASSUME p <= r PROVE FALSE
    OBVIOUS
  <2>1. p * D <= r * D
    BY <1>1
  <2> QED
    BY <1>1, <2>1
<1>3. r \in 0..(p - 1)
  BY <1>1, <1>2
<1> PICK g : g = r * D
  OBVIOUS
<1>4. g \in Nat /\ x - g \in 0..(D - 1)
  BY <1>1
<1> QED
  BY <1>3, <1>4

\* Whole bytes are pairs of bytes, and perhaps one more.
LEMMA PairsOf ==
  ASSUME NEW B \in Nat \ {0}, NEW m \in Nat, m % B = 0
  PROVE  /\ m \div (2 * B) \in Nat /\ m \div B \in Nat /\ m = (m \div B) * B
         /\ \/ m = (m \div (2 * B)) * (2 * B)
            \/ m = (m \div (2 * B)) * (2 * B) + B
<1> PICK D \in Nat \ {0} : D = 2 * B
  OBVIOUS
<1> PICK q, p : q = m \div B /\ p = m \div D
  OBVIOUS
<1>1. q \in Nat /\ m = q * B
  BY Divided
<1>2. p \in Nat /\ D * p <= m /\ m < D * p + D
  BY Dividing
<1>3. p \in Nat /\ D * p <= m /\ m < D * p + D /\ D * p = p * D
  <2>1. \A e \in Nat : e * p = p * e
    BY <1>2
  <2> QED
    BY <1>2, <2>1
<1> PICK u \in Int : u = q - 2 * p
  BY <1>1, <1>3
<1>4. m = p * D + u * B
  BY <1>1, <1>3
<1>5. u = 0 \/ u = 1
  <2>1. ~(u >= 2)
    <3> SUFFICES ASSUME u >= 2 PROVE FALSE
      OBVIOUS
    <3>1. u * B >= 2 * B
      OBVIOUS
    <3> QED
      BY <1>3, <1>4, <3>1
  <2>2. ~(u < 0)
    <3> SUFFICES ASSUME u < 0 PROVE FALSE
      OBVIOUS
    <3>1. u * B < 0
      OBVIOUS
    <3> QED
      BY <1>3, <1>4, <3>1
  <2> QED
    BY <2>1, <2>2
<1>6. m = p * D \/ m = p * D + B
  <2>1. 0 * B = 0 /\ 1 * B = B
    OBVIOUS
  <2> QED
    BY <1>4, <1>5, <2>1, <1>3
<1> QED
  BY <1>1, <1>3, <1>6

\* sse_trans moves every bit of a matrix of whole bytes: its body, the rows that
\* remain, and the corner leave nothing out.
LEMMA MovesAll ==
  ASSUME Byte \in Nat \ {0}, NEW nrows \in Nat, NEW ncols \in Nat,
         nrows % Byte = 0, ncols % Byte = 0,
         NEW x \in 0..(nrows - 1), NEW y \in 0..(ncols - 1)
  PROVE  Moves(nrows, ncols, x, y)
<1> PICK B \in Nat \ {0} : B = Byte
  OBVIOUS
<1> PICK D \in Nat \ {0} : D = 2 * B
  OBVIOUS
<1> PICK p, v, w : p = nrows \div D /\ v = ncols \div B /\ w = ncols \div D
  OBVIOUS
<1>1. /\ p \in Nat /\ v \in Nat /\ w \in Nat /\ ncols = v * B
      /\ nrows = p * D \/ nrows = p * D + B
      /\ ncols = w * D \/ ncols = w * D + B
  BY PairsOf
<1>2. \A r \in Nat : r * 2 * Byte = r * D /\ r * D \in Nat /\ r * B \in Nat
  OBVIOUS
<1> DEFINE Pair(r, c) == [rr |-> r * 2 * Byte, cc |-> c * Byte, rows |-> 2 * Byte, cols |-> Byte]
           Body == {Pair(r, c) : r \in 0..(p - 1), c \in 0..(v - 1)}
           Row == {[rr |-> p * 2 * Byte, cc |-> c * 2 * Byte, rows |-> Byte, cols |-> 2 * Byte] :
                      c \in 0..(w - 1)}
           Corner == [rr |-> p * 2 * Byte, cc |-> w * 2 * Byte, rows |-> Byte, cols |-> Byte]
<1>3. /\ Body \subseteq Blocks(nrows, ncols)
      /\ p * 2 * Byte # nrows => Row \subseteq Blocks(nrows, ncols)
      /\ p * 2 * Byte # nrows /\ w * 2 * Byte # ncols => Corner \in Blocks(nrows, ncols)
  <2> PICK rr, cc : rr = p * 2 * Byte /\ cc = w * 2 * Byte
    OBVIOUS
  <2> DEFINE Rest == Row \cup IF cc = ncols THEN {} ELSE {Corner}
  <2>1. Blocks(nrows, ncols) = Body \cup IF rr = nrows THEN {} ELSE Rest
    BY DEF Blocks
  <2> HIDE DEF Body, Row, Corner
  <2>2. Corner \in {Corner}
    OBVIOUS
  <2> QED
    BY <2>1, <2>2
<1>4. SUFFICES \E b \in Blocks(nrows, ncols) : x - b.rr \in 0..(b.rows - 1) /\ y - b.cc \in 0..(b.cols - 1)
  BY DEF Moves
<1>5. CASE x < p * D
  <2>1. PICK r \in 0..(p - 1) : r * D \in Nat /\ x - r * D \in 0..(D - 1)
    <3>1. x \in Nat /\ p \in Nat
      BY <1>1
    <3> QED
      BY <3>1, <1>5, SlotOf
  <2>2. PICK c \in 0..(v - 1) : c * B \in Nat /\ y - c * B \in 0..(B - 1)
    <3>1. y \in Nat /\ v \in Nat /\ y < v * B
      BY <1>1
    <3> QED
      BY <3>1, SlotOf
  <2> DEFINE b == Pair(r, c)
  <2>3. b \in Blocks(nrows, ncols)
    <3>1. b \in Body
      <4> HIDE DEF Pair
      <4> QED
        OBVIOUS
    <3> HIDE DEF b, Body, Row, Corner
    <3> QED
      BY <1>3, <3>1
  <2>4. x - b.rr \in 0..(b.rows - 1) /\ y - b.cc \in 0..(b.cols - 1)
    BY <1>1, <1>2, <2>1, <2>2
  <2> HIDE DEF b
  <2> QED
    BY <2>3, <2>4
<1>6. CASE ~(x < p * D)
  <2>1. nrows = p * D + B /\ p * 2 * Byte = p * D /\ p * D \in Nat
    <3>1. p * 2 * Byte = p * D /\ p * D \in Nat
      BY <1>1, <1>2
    <3> PICK g \in Nat : g = p * D
      BY <3>1
    <3>2. nrows = g \/ nrows = g + B
      BY <1>1
    <3>3. nrows = g + B
      BY <1>6, <3>2
    <3> QED
      BY <3>1, <3>3
  <2>2. p * 2 * Byte # nrows /\ x - p * D \in 0..(B - 1)
    BY <1>6, <2>1
  <2>3. CASE y < w * D
    <3>1. PICK c \in 0..(w - 1) : c * D \in Nat /\ y - c * D \in 0..(D - 1)
      <4>1. y \in Nat /\ w \in Nat
        BY <1>1
      <4> QED
        BY <4>1, <2>3, SlotOf
    <3> DEFINE b == [rr |-> p * 2 * Byte, cc |-> c * 2 * Byte, rows |-> Byte, cols |-> 2 * Byte]
    <3>2. b \in Blocks(nrows, ncols)
      <4>1. b \in Row
        OBVIOUS
      <4> HIDE DEF b, Body, Row, Corner
      <4> QED
        BY <1>3, <2>2, <4>1
    <3>3. x - b.rr \in 0..(b.rows - 1) /\ y - b.cc \in 0..(b.cols - 1)
      BY <1>1, <1>2, <2>1, <2>2, <3>1
    <3> HIDE DEF b
    <3> QED
      BY <3>2, <3>3
  <2>4. CASE ~(y < w * D)
    <3> PICK h \in Nat : h = w * D /\ w * 2 * Byte = h
      BY <1>1, <1>2
    <3>1. ncols = h + B /\ y >= h
      <4>1. ncols = h \/ ncols = h + B
        BY <1>1
      <4>2. y >= h
        BY <2>4
      <4> QED
        BY <4>1, <4>2
    <3>2. Corner \in Blocks(nrows, ncols) /\ y - h \in 0..(B - 1)
      <4>1. w * 2 * Byte # ncols
        BY <3>1
      <4>2. y - h \in 0..(B - 1)
        BY <3>1
      <4> HIDE DEF Corner
      <4> QED
        BY <1>3, <2>2, <4>1, <4>2
    <3>3. x - Corner.rr \in 0..(Corner.rows - 1) /\ y - Corner.cc \in 0..(Corner.cols - 1)
      BY <2>1, <2>2, <3>1, <3>2
    <3> HIDE DEF Corner
    <3> QED
      BY <3>2, <3>3
  <2> QED
    BY <2>3, <2>4
<1> QED
  BY <1>5, <1>6

\* The chunks write to bytes of their own in an output row.
LEMMA ChunksApart ==
  ASSUME NEW B \in Nat \ {0}, NEW size \in Nat \ {0}, NEW R, R = (size + B - 1) \div B,
         NEW i \in Nat, NEW j \in Nat, i < j
  PROVE  (i * R * B + size - 1) \div B < (j * R * B) \div B
<1>1. R \in Nat /\ size <= B * R
  BY Ranges
<1> PICK f, g : f = i * R /\ g = j * R
  OBVIOUS
<1>2. f \in Nat /\ g \in Nat /\ f + R <= g
  BY <1>1, Stretch
<1>3. (g * B) \div B = g
  <2>1. g * B = g * B + 0 /\ 0 \in 0..(B - 1)
    BY <1>2
  <2> QED
    BY <1>2, <2>1, DividesAs
<1> PICK a : a = f * B + size - 1
  OBVIOUS
<1>4. a \in Nat /\ a < f * B + R * B
  BY <1>1, <1>2
<1>5. f * B + R * B <= g * B
  <2>1. (f + R) * B <= g * B /\ (f + R) * B = f * B + R * B
    BY <1>1, <1>2
  <2> QED
    BY <2>1
<1>6. a < g * B
  BY <1>1, <1>2, <1>4, <1>5
<1>7. a \div B < g
  <2>1. a \div B \in Nat /\ B * (a \div B) <= a /\ B * (a \div B) = (a \div B) * B
    BY <1>4, Dividing
  <2> SUFFICES ASSUME g <= a \div B PROVE FALSE
    BY <1>2, <2>1
  <2>2. g * B <= (a \div B) * B
    BY <1>2, <2>1
  <2> QED
    BY <1>2, <1>4, <1>6, <2>1, <2>2
<1> QED
  BY <1>3, <1>7
-----------------------------------------------------------------------------
\* A transpose is one of the jobs; a call from elsewhere has none.
JobInv ==
  \/ job = NoJob /\ phase = "other"
  \/ job \in Jobs /\ phase \in {"deal", "resize", "chunks", "done", "undefined"}

\* What the rows look like once they are dealt without harm: the chunks have the
\* same size, and take up the leaves in their order.
ChunksInv ==
  phase \in {"resize", "chunks"} =>
    /\ CHUNK_SIZE \in Nat \ {0} /\ job.N = job.threads * CHUNKS * CHUNK_SIZE
    /\ in_ptrs = [i \in Chunks |-> [x \in 1..CHUNK_SIZE |-> Leaf(i * CHUNK_SIZE + x)]]

DealInv ==
  phase = "deal" => call = MultiTask(job.k) /\ \A t \in Workers : thread[t] = "none"

\* The first call: the rows of the threads that are over have their size.
ResizeInv ==
  phase = "resize" =>
    /\ call = MultiTask(job.k)
    /\ output = [c \in Columns |-> output[c]]
    /\ \A t \in Workers : thread[t] \in Over =>
         \A c \in ItemsOf(t) : output[c] = [b \in 1..job.N |-> <<>>]

\* The second call: the chunks of the threads that are over are transposed.
FillInv ==
  phase = "chunks" =>
    /\ call = MultiTask(job.threads * CHUNKS)
    /\ output = [c \in Columns |-> output[c]]
    /\ \A c \in Columns : output[c] = [b \in 1..job.N |-> output[c][b]]
    /\ \A t \in Workers : thread[t] \in Over =>
         \A i \in ItemsOf(t), c \in Columns, x \in 1..CHUNK_SIZE :
           output[c][i * CHUNK_SIZE + x] = <<Leaf(i * CHUNK_SIZE + x), c>>

TransposeInv ==
  JobInv /\ CallInv /\ ChunksInv /\ DealInv /\ ResizeInv /\ FillInv /\ Transposed

-----------------------------------------------------------------------------
\* A place among C chunks of the size S is one in one of the chunks.
LEMMA PlaceOf ==
  ASSUME NEW S \in Nat \ {0}, NEW C \in Nat, NEW b \in 1..(C * S)
  PROVE  \E i \in 0..(C - 1) : \E x \in 1..S : b = i * S + x
<1> PICK a \in Nat : a = b - 1
  OBVIOUS
<1>1. a < C * S
  <2> PICK g \in Nat : g = C * S
    OBVIOUS
  <2> QED
    OBVIOUS
<1>2. PICK i \in 0..(C - 1) : i * S \in Nat /\ a - i * S \in 0..(S - 1)
  BY <1>1, SlotOf
<1> PICK g \in Nat : g = i * S
  BY <1>2
<1>3. b - g \in 1..S /\ b = g + (b - g)
  BY <1>2
<1>4. \E x \in 1..S : b = g + x
  BY <1>3
<1> QED
  BY <1>4

LEMMA OnePlace ==
  ASSUME NEW S \in Nat \ {0}, NEW i \in Nat, NEW j \in Nat, NEW x \in 1..S, NEW y \in 1..S,
         i * S + x = j * S + y
  PROVE  i = j /\ x = y
<1> PICK f \in Nat, g \in Nat : f = i * S /\ g = j * S
  OBVIOUS
<1>1. ~(i < j)
  <2> SUFFICES ASSUME i < j PROVE FALSE
    OBVIOUS
  <2>1. f + S <= g
    BY Stretch
  <2> QED
    BY <2>1
<1>2. ~(j < i)
  <2> SUFFICES ASSUME j < i PROVE FALSE
    OBVIOUS
  <2>1. g + S <= f
    BY Stretch
  <2> QED
    BY <2>1
<1>3. i = j
  BY <1>1, <1>2
<1> QED
  BY <1>3

LEMMA PlaceIn ==
  ASSUME NEW S \in Nat \ {0}, NEW C \in Nat, NEW i \in 0..(C - 1)
  PROVE  i * S \in Nat /\ i * S + S <= C * S /\ \A x \in 1..S : i * S + x \in 1..(C * S)
<1> PICK f \in Nat, g \in Nat : f = i * S /\ g = C * S
  OBVIOUS
<1>1. f + S <= g
  BY Stretch
<1> QED
  BY <1>1

LEMMA DealtCount ==
  ASSUME NEW N \in Nat, NEW C \in Nat \ {0}, NEW S \in Nat \ {0}, NEW L \in Nat \ {0},
         C * S <= N, (L - 1) \div S <= C - 1
  PROVE  L <= C * S /\ L <= N
<1> PICK a \in Nat : a = L - 1
  OBVIOUS
<1> PICK q : q = a \div S
  OBVIOUS
<1>1. q \in Nat /\ a < S * q + S /\ q < C
  BY Dividing
<1>2. q * S + S <= C * S /\ S * q = q * S
  BY <1>1, Stretch
<1> QED
  BY <1>1, <1>2

\* When the division does no harm, the rows are the leaves in their order, as many
\* as there are to be, and the chunks take up all of them.
LEMMA DealtWell ==
  ASSUME job \in Jobs, CHUNK_SIZE # 0, (Len(Dealt) - 1) \div CHUNK_SIZE \in Chunks
  PROVE  /\ CHUNK_SIZE \in Nat \ {0} /\ job.N = job.threads * CHUNKS * CHUNK_SIZE
         /\ Dealt \in Seq(RowNames) /\ Len(Dealt) = job.N
         /\ \A b \in 1..job.N : Dealt[b] = Leaf(b)
         /\ \A p \in 0..(job.td - 1) : \E i \in 1..job.N : Dealt[i] = <<p, 0>>
<1>0. job.threads * CHUNKS \in Nat \ {0}
  <2>1. job.threads \in Nat \ {0} /\ CHUNKS = 4
    BY JobSizes DEF CHUNKS
  <2> QED
    BY <2>1
<1> PICK N \in Nat \ {0}, T \in Nat \ {0}, d \in Nat \ {0} : N = job.N /\ T = job.td /\ d = domain
  BY JobSizes
<1> PICK C \in Nat \ {0} : C = job.threads * CHUNKS
  BY <1>0
<1> PICK S : S = CHUNK_SIZE
  OBVIOUS
<1> PICK rows : rows = Dealt
  OBVIOUS
<1> PICK L : L = Len(rows)
  OBVIOUS
<1>1. S \in Nat \ {0} /\ C * S <= N
  <2>1. S = N \div C
    BY DEF CHUNK_SIZE
  <2> QED
    BY <2>1, Dividing
<1>2. DealtFrom(T, rows)
  BY DealtRows
<1>3. L \in Nat \ {0}
  <2>0. 0 \in 0..(T - 1)
    OBVIOUS
  <2>1. PICK i \in 1..Len(rows) : rows[i] = <<0, 0>>
    BY <1>2, <2>0 DEF DealtFrom
  <2>2. Len(rows) \in Nat
    BY <1>2 DEF DealtFrom
  <2> QED
    BY <2>1, <2>2
<1>4. (L - 1) \div S <= C - 1
  <2>1. (L - 1) \div S \in 0..(C - 1)
    BY DEF Chunks
  <2> QED
    BY <2>1
<1>5. L <= C * S /\ L <= N
  BY <1>1, <1>3, <1>4, DealtCount
<1>6. L = SmallerOf(T * d, N) /\ \A b \in 1..L : rows[b] = Leaf(b)
  BY <1>2, <1>5 DEF DealtFrom
<1>7. L = N
  <2>1. N <= T * d
    BY JobSizes
  <2> QED
    BY <1>6, <2>1 DEF SmallerOf
<1>8. N = C * S
  <2>1. C * S \in Nat
    BY <1>1, Stretch
  <2> QED
    BY <1>1, <1>5, <1>7, <2>1
<1> QED
  BY <1>1, <1>2, <1>6, <1>7, <1>8 DEF DealtFrom

LEMMA ChunkRows ==
  ASSUME NEW rows \in Seq(RowNames), NEW S \in Nat \ {0}, NEW i \in Nat,
         i * S + S <= Len(rows)
  PROVE  SubSeq(rows, i * S + 1, SmallerOf((i + 1) * S, Len(rows))) = [x \in 1..S |-> rows[i * S + x]]
<1> PICK f \in Nat, g \in Nat : f = i * S /\ g = Len(rows)
  OBVIOUS
<1>1. f + S <= g /\ (i + 1) * S = f + S
  OBVIOUS
<1>2. SmallerOf((i + 1) * S, Len(rows)) = f + S
  BY <1>1 DEF SmallerOf
<1> PICK a \in Int, b \in Int : a = f + 1 /\ b = f + S
  OBVIOUS
<1>3. \A y \in a..b : rows[y] \in RowNames
  BY <1>1
<1> PICK s : s = SubSeq(rows, a, b)
  OBVIOUS
<1>4. s \in Seq(RowNames) /\ Len(s) = IF a <= b THEN b - a + 1 ELSE 0
  BY <1>3, SubSeqProperties
<1>5. \A x \in 1..(b - a + 1) : s[x] = rows[a + x - 1]
  BY <1>3, SubSeqProperties
<1>6. Len(s) = S
  BY <1>4
<1>8. s = [x \in 1..S |-> s[x]]
  <2>1. s \in [1..Len(s) -> RowNames]
    BY <1>4, LenProperties
  <2>2. s \in [1..S -> RowNames]
    BY <1>6, <2>1
  <2> QED
    BY <2>2
<1>7. \A x \in 1..S : s[x] = rows[f + x]
  BY <1>5
<1> QED
  BY <1>2, <1>7, <1>8

-----------------------------------------------------------------------------
\* The definitions that are made of the job alone.
LEMMA SameJob ==
  ASSUME job' = job
  PROVE  /\ domain' = domain /\ CHUNK_SIZE' = CHUNK_SIZE /\ Chunks' = Chunks /\ Columns' = Columns
         /\ Wanted' = Wanted
         /\ \A b : Leaf(b)' = Leaf(b)
         /\ \A m : MultiTask(m)' = MultiTask(m)
<1>1. domain' = domain
  BY DEF domain
<1>2. \A b : Leaf(b)' = Leaf(b)
  BY <1>1 DEF Leaf
<1>3. CHUNK_SIZE' = CHUNK_SIZE /\ Chunks' = Chunks /\ Columns' = Columns
  BY DEF CHUNK_SIZE, Chunks, Columns
<1>4. Wanted' = Wanted
  BY <1>1, <1>3 DEF Wanted
<1>5. \A m : MultiTask(m)' = MultiTask(m)
  BY DEF MultiTask
<1> QED
  BY <1>1, <1>2, <1>3, <1>4, <1>5

\* The two calls of transpose() are calls as they should be.
LEMMA CallsOfJob ==
  ASSUME job \in Jobs, call = MultiTask(job.k) \/ call = MultiTask(job.threads * CHUNKS)
  PROVE  CallOK /\ n = call.n /\ call.kind = "MULTI"
<1>1. job.threads \in Nat \ {0} /\ job.k \in Nat
  BY JobSizes
<1>2. job.threads * CHUNKS \in Nat
  BY <1>1 DEF CHUNKS
<1>3. PICK m \in Nat : call = MultiTask(m)
  BY <1>1, <1>2
<1> QED
  BY <1>1, <1>3 DEF CallOK, MultiTask, n

LEMMA TransposeBegins ==
  ASSUME TransposeInit
  PROVE  TransposeInv
<1>1. CASE job = NoJob /\ phase = "other" /\ Init
  <2>1. CallOK
    BY <1>1, ConcurrencyAssumption DEF Init, CallOK
  <2>2. CallInv
    BY <1>1, <2>1, CallBegins DEF Init
  <2> QED
    BY <1>1, <2>2 DEF TransposeInv, JobInv, ChunksInv, DealInv, ResizeInv, FillInv, Transposed
<1>2. CASE job \in Jobs /\ phase = "deal" /\ Idle(MultiTask(job.k))
  <2>1. call = MultiTask(job.k) /\ thread = [t \in Workers |-> "none"]
    BY <1>2 DEF Idle
  <2>2. CallInv
    BY <1>2, <2>1, CallsOfJob, CallBegins DEF Idle
  <2> QED
    BY <1>2, <2>1, <2>2 DEF TransposeInv, JobInv, ChunksInv, DealInv, ResizeInv, FillInv, Transposed
<1> QED
  BY <1>1, <1>2 DEF TransposeInit

LEMMA DealKeeps ==
  ASSUME TransposeInv, Deal
  PROVE  TransposeInv'
<1>1. /\ phase = "deal" /\ job \in Jobs /\ call = MultiTask(job.k)
      /\ \A t \in Workers : thread[t] = "none"
      /\ job' = job /\ UNCHANGED vars
  BY DEF TransposeInv, JobInv, DealInv, Deal
<1>2. call' = call /\ thread' = thread /\ Workers' = Workers
  BY <1>1, SameCall DEF vars
<1>3. CallInv'
  BY <1>1, IdleKeeps DEF TransposeInv
<1>4. CASE CHUNK_SIZE = 0 \/ (Len(Dealt) - 1) \div CHUNK_SIZE \notin Chunks
  <2>1. phase' = "undefined"
    BY <1>4 DEF Deal
  <2> QED
    BY <1>1, <1>3, <2>1 DEF TransposeInv, JobInv, ChunksInv, DealInv, ResizeInv, FillInv, Transposed
<1>5. CASE ~(CHUNK_SIZE = 0 \/ (Len(Dealt) - 1) \div CHUNK_SIZE \notin Chunks)
  <2>1. /\ phase' = "resize" /\ output' = [c \in Columns |-> <<>>]
        /\ in_ptrs' = [i \in Chunks |->
             SubSeq(Dealt, i * CHUNK_SIZE + 1, SmallerOf((i + 1) * CHUNK_SIZE, Len(Dealt)))]
    BY <1>5 DEF Deal
  <2>2. /\ CHUNK_SIZE \in Nat \ {0} /\ job.N = job.threads * CHUNKS * CHUNK_SIZE
        /\ Dealt \in Seq(RowNames) /\ Len(Dealt) = job.N
        /\ \A b \in 1..job.N : Dealt[b] = Leaf(b)
    BY <1>1, <1>5, DealtWell
  <2>3. ASSUME NEW i \in Chunks
        PROVE  SubSeq(Dealt, i * CHUNK_SIZE + 1, SmallerOf((i + 1) * CHUNK_SIZE, Len(Dealt)))
                 = [x \in 1..CHUNK_SIZE |-> Leaf(i * CHUNK_SIZE + x)]
    <3>1. job.threads * CHUNKS \in Nat /\ job.N \in Nat \ {0}
      <4>1. job.threads \in Nat /\ CHUNKS = 4
        BY <1>1, JobSizes DEF CHUNKS
      <4> QED
        BY <1>1, <4>1, JobSizes
    <3> PICK N \in Nat \ {0}, C \in Nat, S \in Nat \ {0}, rows \in Seq(RowNames) :
          N = job.N /\ C = job.threads * CHUNKS /\ S = CHUNK_SIZE /\ rows = Dealt
      BY <2>2, <3>1
    <3>2. i \in 0..(C - 1) /\ N = C * S /\ Len(rows) = N
      BY <2>2 DEF Chunks
    <3>3. SubSeq(rows, i * S + 1, SmallerOf((i + 1) * S, N)) = [x \in 1..S |-> rows[i * S + x]]
      <4>1. i * S + S <= Len(rows) /\ i \in Nat
        BY <3>2, PlaceIn
      <4>2. i \in Nat
        BY <4>1
      <4>3. SubSeq(rows, i * S + 1, SmallerOf((i + 1) * S, Len(rows)))
              = [x \in 1..S |-> rows[i * S + x]]
        BY ZenonT(40), <4>1, <4>2, ChunkRows
      <4> QED
        BY <3>2, <4>3
    <3>4. ASSUME NEW x \in 1..S PROVE rows[i * S + x] = Leaf(i * S + x)
      <4>1. i * S + x \in 1..N
        BY <3>2, PlaceIn
      <4> QED
        BY <2>2, <4>1
    <3> QED
      BY <3>2, <3>3, <3>4
  <2>4. ChunksInv'
    BY <1>1, <2>1, <2>2, <2>3, SameJob DEF ChunksInv
  <2>5. ResizeInv'
    BY <1>1, <1>2, <2>1, SameJob DEF ResizeInv, Over
  <2> QED
    BY <1>1, <1>3, <2>1, <2>4, <2>5 DEF TransposeInv, JobInv, DealInv, FillInv, Transposed
<1> QED
  BY <1>4, <1>5

-----------------------------------------------------------------------------
\* Whole bytes are not rounded.
LEMMA WholeBytes ==
  ASSUME NEW B \in Nat \ {0}, NEW q \in Nat, NEW S, S = q * B
  PROVE  (S + B - 1) \div B = q
<1> PICK r \in 0..(B - 1) : r = B - 1
  OBVIOUS
<1> PICK a : a = q * B + r
  OBVIOUS
<1>1. a \div B = q
  BY DividesAs
<1>2. q * B \in Nat
  OBVIOUS
<1>3. S + B - 1 = a
  BY <1>2
<1> QED
  BY <1>1, <1>3

\* Chunks of whole bytes come one after the other in the output.
LEMMA OffsetOf ==
  ASSUME Byte \in Nat \ {0}, CHUNK_SIZE \in Nat \ {0}, CHUNK_SIZE % Byte = 0, NEW i \in Nat
  PROVE  Offset(i) = i * CHUNK_SIZE
<1> PICK B \in Nat \ {0}, S \in Nat \ {0} : B = Byte /\ S = CHUNK_SIZE
  OBVIOUS
<1>1. PICK q \in Nat : S = q * B
  <2>1. S \div B \in Nat /\ S = (S \div B) * B
    BY Divided
  <2> QED
    BY <2>1
<1>3. (S + B - 1) \div B = q
  BY <1>1, WholeBytes
<1>4. RoundedUp(S) = q
  BY <1>3 DEF RoundedUp
<1>5. i * q * B = i * S
  BY <1>1
<1> QED
  BY <1>4, <1>5 DEF Offset

\* A chunk that is transposed fills its place in an output row, and no other.
LEMMA FilledAs ==
  ASSUME job \in Jobs, phase = "chunks", ChunksInv, NEW c \in Columns, NEW mine \in SUBSET Chunks,
         \A i \in mine : Fits(i)
  PROVE  /\ Filled(c, mine) = [b \in 1..job.N |-> Filled(c, mine)[b]]
         /\ \A i \in Chunks, x \in 1..CHUNK_SIZE :
              Filled(c, mine)[i * CHUNK_SIZE + x] =
                IF i \in mine THEN <<Leaf(i * CHUNK_SIZE + x), c>> ELSE output[c][i * CHUNK_SIZE + x]
<1>1. Filled(c, mine) = [b \in 1..job.N |-> Filled(c, mine)[b]]
  BY DEF Filled
<1>2. ASSUME NEW i \in Chunks, NEW x \in 1..CHUNK_SIZE
      PROVE  Filled(c, mine)[i * CHUNK_SIZE + x] =
                IF i \in mine THEN <<Leaf(i * CHUNK_SIZE + x), c>> ELSE output[c][i * CHUNK_SIZE + x]
  <2>0. CHUNK_SIZE \in Nat \ {0} /\ job.N = job.threads * CHUNKS * CHUNK_SIZE
    BY DEF ChunksInv
  <2>1. job.threads * CHUNKS \in Nat
    <3>1. job.threads \in Nat /\ CHUNKS = 4
      BY JobSizes DEF CHUNKS
    <3> QED
      BY <3>1
  <2> PICK S \in Nat \ {0}, C \in Nat : S = CHUNK_SIZE /\ C = job.threads * CHUNKS
    BY <2>0, <2>1
  <2> PICK b : b = i * S + x
    OBVIOUS
  <2>2. i \in 0..(C - 1) /\ i \in Nat /\ x \in 1..S
    BY DEF Chunks
  <2>3. b \in 1..job.N
    BY <2>0, <2>2, PlaceIn
  <2> DEFINE from == {j \in mine : b - 1 - Offset(j) \in 0..(CHUNK_SIZE - 1)}
  <2>4. ASSUME NEW j \in mine
        PROVE  /\ Offset(j) = j * S
               /\ b - 1 - Offset(j) \in 0..(CHUNK_SIZE - 1) <=> j = i
    <3>1. Fits(j) /\ j \in Nat
      BY DEF Chunks
    <3>2. Offset(j) = j * S
      BY <2>0, <3>1, JobSizes, OffsetOf DEF Fits
    <3> PICK f \in Nat, g \in Nat : f = i * S /\ g = j * S
      BY <2>2, <3>1
    <3>3. ASSUME b - 1 - g \in 0..(S - 1) PROVE j = i
      <4> PICK y \in 1..S : y = b - g
        BY <3>3
      <4>1. i * S + x = j * S + y
        BY <2>2
      <4> QED
        BY <2>2, <3>1, <4>1, OnePlace
    <3>4. ASSUME j = i PROVE b - 1 - g \in 0..(S - 1)
      BY <2>2, <3>4
    <3> QED
      BY <3>2, <3>3, <3>4
  <2>5. CASE i \notin mine
    <3>1. from = {}
      BY <2>4, <2>5
    <3> QED
      BY <2>3, <2>5, <3>1 DEF Filled
  <2>6. CASE i \in mine
    <3>1. from = {i}
      BY <2>4, <2>6
    <3>2. (CHOOSE j \in from : TRUE) = i
      BY <3>1
    <3>3. b - 1 - Offset(i) = x - 1
      <4> PICK f \in Nat : f = i * S
        BY <2>2
      <4> QED
        BY <2>2, <2>4, <2>6
    <3>4. Moves(CHUNK_SIZE, job.k, x - 1, c)
      <4>1. /\ CHUNK_SIZE % Byte = 0 /\ job.k % Byte = 0
            /\ Byte \in Nat \ {0} /\ job.k \in Nat
        BY <2>6, JobSizes DEF Fits
      <4>2. x - 1 \in 0..(CHUNK_SIZE - 1) /\ c \in 0..(job.k - 1)
        BY <2>0 DEF Columns
      <4> QED
        BY <2>0, <4>1, <4>2, MovesAll
    <3>5. in_ptrs[i][x] = Leaf(b)
      BY DEF ChunksInv
    <3>6. Filled(c, mine)[b] =
            IF from = {} THEN output[c][b]
            ELSE LET j == CHOOSE j \in from : TRUE
                     y == b - 1 - Offset(j)
                 IN  IF Moves(CHUNK_SIZE, job.k, y, c) THEN <<in_ptrs[j][y + 1], c>> ELSE <<>>
      BY <2>3 DEF Filled
    <3> HIDE DEF from
    <3>7. Filled(c, mine)[b] =
            IF Moves(CHUNK_SIZE, job.k, x - 1, c) THEN <<in_ptrs[i][x - 1 + 1], c>> ELSE <<>>
      BY <3>1, <3>2, <3>3, <3>6
    <3>8. x - 1 + 1 = x
      BY <2>2
    <3> QED
      BY <2>6, <3>4, <3>5, <3>7, <3>8
  <2> QED
    BY <2>5, <2>6
<1> QED
  BY <1>1, <1>2

-----------------------------------------------------------------------------
\* A step of the caller within a call leaves what the threads have done.
LEMMA CallStepKeeps ==
  ASSUME TransposeInv, CallStep
  PROVE  TransposeInv'
<1>1. /\ InCall /\ job' = job /\ phase' = phase /\ in_ptrs' = in_ptrs /\ cleared' = cleared
      /\ output' = output
  BY DEF CallStep, memory
<1>2. phase # "deal" /\ phase # "done"
  BY <1>1 DEF InCall
<1>3. CallInv /\ (StartThread \/ JoinThread \/ Return)
  BY DEF TransposeInv, CallStep
<1>4. call' = call /\ Workers' = Workers /\ \A t \in Workers : ItemsOf(t)' = ItemsOf(t)
  <2>1. call' = call
    BY <1>3 DEF StartThread, JoinThread, Return
  <2> QED
    BY <2>1, SameCall
<1>5. \A t \in Workers : thread'[t] \in Over => thread[t] \in Over
  BY <1>3 DEF StartThread, JoinThread, Return, CallInv, ThreadInv, Over
<1>6. CallInv'
  BY <1>3, StartKeeps, JoinKeeps, ReturnKeeps
<1>7. JobInv' /\ ChunksInv' /\ DealInv' /\ Transposed'
  BY <1>1, <1>2, SameJob DEF TransposeInv, JobInv, ChunksInv, DealInv, Transposed
<1>8. ResizeInv'
  BY <1>1, <1>4, <1>5, SameJob DEF TransposeInv, ResizeInv
<1>9. FillInv'
  BY <1>1, <1>4, <1>5, SameJob DEF TransposeInv, FillInv
<1> QED
  BY <1>6, <1>7, <1>8, <1>9 DEF TransposeInv

\* The threads of a call that has returned are done, and each item was one of
\* somebody's.
LEMMA AllWereDone ==
  ASSUME CallInv, pc = "returned", NEW i \in Items
  PROVE  \E t \in Workers : i \in ItemsOf(t) /\ thread[t] \in Over
<1>1. PICK t \in Workers : i \in ItemsOf(t)
  BY RangesOfCall DEF CallInv
<1> QED
  BY <1>1 DEF CallInv, ReturnInv, Over

\* As CallBegins, as a formula that holds in every state.
LEMMA CallHasBegun ==
  CallOK /\ pc = "start" /\ started = 0 /\ joined = 0 /\ thread = [t \in Workers |-> "none"]
    /\ count = [i \in Items |-> 0] /\ results = [t \in Workers |-> <<>>] => CallInv
BY CallBegins

LEMMA SecondCall ==
  ASSUME TransposeInv, pc = "returned", phase = "resize", phase' = "chunks",
         Begin(MultiTask(job.threads * CHUNKS)),
         job' = job, in_ptrs' = in_ptrs, output' = output, cleared' = cleared
  PROVE  TransposeInv'
<1>1. job \in Jobs /\ call = MultiTask(job.k) /\ output = [c \in Columns |-> output[c]]
  BY DEF TransposeInv, JobInv, ResizeInv
<1>2. call' = MultiTask(job.threads * CHUNKS) /\ thread' = [t \in Workers' |-> "none"]
  BY DEF Begin
<1>3. CallOK'
  <2>1. job.threads \in Nat \ {0} /\ CHUNKS = 4
    BY <1>1, JobSizes DEF CHUNKS
  <2> PICK m : m = job.threads * CHUNKS
    OBVIOUS
  <2>2. m \in Nat
    BY <2>1
  <2>3. call' = MultiTask(m)
    BY <1>2
  <2> QED
    BY <2>1, <2>2, <2>3 DEF CallOK, MultiTask
<1>4. CallInv'
  <2>1. (CallOK /\ pc = "start" /\ started = 0 /\ joined = 0 /\ thread = [t \in Workers |-> "none"]
         /\ count = [i \in Items |-> 0] /\ results = [t \in Workers |-> <<>>])'
    BY <1>3 DEF Begin
  <2> QED
    BY <2>1, CallHasBegun, PTL
<1>5. ASSUME NEW c \in Columns PROVE output[c] = [b \in 1..job.N |-> <<>>]
  <2>1. Items = Columns
    BY <1>1 DEF Items, n, MultiTask, Columns
  <2>2. PICK t \in Workers : c \in ItemsOf(t) /\ thread[t] \in Over
    BY <2>1, AllWereDone DEF TransposeInv
  <2> QED
    BY <2>2 DEF TransposeInv, ResizeInv
<1>6. FillInv'
  BY <1>1, <1>2, <1>5, SameJob DEF FillInv, Over
<1>7. ChunksInv'
  BY SameJob DEF TransposeInv, ChunksInv
<1> QED
  BY <1>1, <1>4, <1>6, <1>7 DEF TransposeInv, JobInv, DealInv, ResizeInv, Transposed

\* The second call has returned: every place is filled as it should be.
LEMMA AllFilled ==
  ASSUME TransposeInv, pc = "returned", phase = "chunks", cleared' = ToSet(Dealt)
  PROVE  /\ output = Wanted
         /\ \A p \in 0..(job.td - 1) : \E i \in 0..(domain - 1) : <<p, i>> \in cleared'
<1>1. job \in Jobs /\ ChunksInv /\ FillInv /\ CallInv
  BY DEF TransposeInv, JobInv
<1>2. CHUNK_SIZE \in Nat \ {0} /\ job.N = job.threads * CHUNKS * CHUNK_SIZE
  BY <1>1 DEF ChunksInv
<1>3. job.threads * CHUNKS \in Nat
  <2>1. job.threads \in Nat /\ CHUNKS = 4
    BY <1>1, JobSizes DEF CHUNKS
  <2> QED
    BY <2>1
<1>4. Items = Chunks
  BY <1>1 DEF FillInv, Items, n, MultiTask, Chunks
<1>5. ASSUME NEW c \in Columns, NEW b \in 1..job.N PROVE output[c][b] = <<Leaf(b), c>>
  <2> PICK S \in Nat \ {0}, C \in Nat : S = CHUNK_SIZE /\ C = job.threads * CHUNKS
    BY <1>2, <1>3
  <2>1. b \in 1..(C * S)
    BY <1>2
  <2>2. PICK i \in 0..(C - 1) : \E x \in 1..S : b = i * S + x
    BY <2>1, PlaceOf
  <2>3. PICK x \in 1..S : b = i * S + x
    BY <2>2
  <2>4. i \in Chunks
    BY DEF Chunks
  <2>5. PICK t \in Workers : i \in ItemsOf(t) /\ thread[t] \in Over
    BY <1>1, <1>4, <2>4, AllWereDone
  <2> QED
    BY <1>1, <2>3, <2>5 DEF FillInv
<1>6. output = Wanted
  <2>1. \A c \in Columns : output[c] = [b \in 1..job.N |-> output[c][b]]
    BY <1>1 DEF FillInv
  <2>2. \A c \in Columns : output[c] = [r \in 1..job.N |-> <<<<(r - 1) \div domain, (r - 1) % domain>>, c>>]
    BY <1>5, <2>1 DEF Leaf
  <2>3. output = [c \in Columns |-> output[c]]
    BY <1>1 DEF FillInv
  <2> QED
    BY <2>2, <2>3 DEF Wanted
<1>7. ASSUME NEW p \in 0..(job.td - 1) PROVE <<p, 0>> \in cleared' /\ 0 \in 0..(domain - 1)
  <2>1. PICK i \in 1..Len(Dealt) : Dealt[i] = <<p, 0>>
    BY <1>1, DealtRows DEF DealtFrom
  <2>2. DOMAIN Dealt = 1..Len(Dealt)
    BY <1>1, DealtRows, LenProperties DEF DealtFrom
  <2>3. <<p, 0>> \in ToSet(Dealt)
    BY <2>1, <2>2 DEF ToSet
  <2>4. 0 \in 0..(domain - 1)
    BY <1>1, JobSizes
  <2> QED
    BY <2>3, <2>4
<1> QED
  BY <1>6, <1>7

LEMMA CallReturnedKeeps ==
  ASSUME TransposeInv, CallReturned
  PROVE  TransposeInv'
<1>1. /\ pc = "returned" /\ job' = job /\ in_ptrs' = in_ptrs /\ output' = output
  BY DEF CallReturned
<1>2. CASE phase = "resize"
  <2>1. phase' = "chunks" /\ Begin(MultiTask(job.threads * CHUNKS)) /\ cleared' = cleared
    BY <1>2 DEF CallReturned
  <2> QED
    BY <1>1, <1>2, <2>1, SecondCall
<1>3. CASE phase = "chunks"
  <2>1. phase' = "done" /\ cleared' = ToSet(Dealt) /\ UNCHANGED vars
    BY <1>3 DEF CallReturned
  <2>2. CallInv'
    BY <2>1, IdleKeeps DEF TransposeInv
  <2>3. Transposed'
    <3>1. output' = Wanted'
      BY <1>1, <1>3, <2>1, AllFilled, SameJob
    <3>2. \A p \in 0..(job'.td - 1) : \E i \in 0..(domain' - 1) : <<p, i>> \in cleared'
      BY <1>1, <1>3, <2>1, AllFilled, SameJob
    <3> QED
      BY <3>1, <3>2 DEF Transposed
  <2> QED
    BY <1>1, <1>3, <2>1, <2>2, <2>3
       DEF TransposeInv, JobInv, ChunksInv, DealInv, ResizeInv, FillInv
<1> QED
  BY <1>2, <1>3 DEF CallReturned

-----------------------------------------------------------------------------
\* What a thread does to the memory.
LEMMA WorkerKeeps ==
  ASSUME TransposeInv, NEW t \in Workers, Worker(t)
  PROVE  TransposeInv'
<1>1. InCall /\ FinishThread(t) /\ CallInv /\ CallOK
  BY DEF Worker, TransposeInv, CallInv
<1>2. CallInv'
  BY <1>1, FinishKeeps
<1>3. /\ call' = call /\ Workers' = Workers /\ \A u \in Workers : ItemsOf(u)' = ItemsOf(u)
      /\ \A u \in Workers : thread'[u] \in Over => u = t \/ thread[u] \in Over
  <2>1. call' = call /\ thread' = [thread EXCEPT ![t] = IF Wraps(t) THEN "threw" ELSE "done"]
    BY <1>1 DEF FinishThread
  <2>2. \A u \in Workers : thread'[u] \in Over => u = t \/ thread[u] \in Over
    BY <1>1, <2>1 DEF CallInv, ThreadInv
  <2> QED
    BY <2>1, <2>2, SameCall
<1>4. \A u \in Workers : u # t => ItemsOf(u) \cap ItemsOf(t) = {}
  BY <1>1, RangesOfCall
<1>5. CASE phase = "other" /\ UNCHANGED memory
  BY <1>2, <1>5 DEF memory, TransposeInv, JobInv, ChunksInv, DealInv, ResizeInv, FillInv, Transposed
<1>6. CASE ResizeRows(t)
  <2>1. /\ phase = "resize" /\ job' = job /\ phase' = phase /\ in_ptrs' = in_ptrs /\ job \in Jobs
        /\ output' = [c \in Columns |-> IF c \in ItemsOf(t) THEN [b \in 1..job.N |-> <<>>] ELSE output[c]]
    BY <1>6 DEF ResizeRows, TransposeInv, JobInv
  <2>2. Items = Columns
    BY <2>1 DEF TransposeInv, ResizeInv, Items, n, MultiTask, Columns
  <2>3. ResizeInv'
    <3>1. output' = [c \in Columns |-> output'[c]]
      BY <2>1
    <3>2. ASSUME NEW u \in Workers, thread'[u] \in Over, NEW c \in ItemsOf(u)
          PROVE  output'[c] = [b \in 1..job.N |-> <<>>]
      <4>1. c \in Columns
        BY <1>1, <2>2, OwnItems
      <4>2. CASE u = t
        BY <2>1, <4>1, <4>2
      <4>3. CASE u # t
        <5>1. c \notin ItemsOf(t) /\ thread[u] \in Over
          BY <1>3, <1>4, <3>2, <4>3
        <5>2. output[c] = [b \in 1..job.N |-> <<>>]
          BY <2>1, <5>1 DEF TransposeInv, ResizeInv
        <5> QED
          BY <2>1, <4>1, <5>1, <5>2
      <4> QED
        BY <4>2, <4>3
    <3>3. call' = MultiTask(job.k)
      BY <1>3, <2>1 DEF TransposeInv, ResizeInv
    <3>4. \A u \in Workers' : thread'[u] \in Over =>
            \A c \in ItemsOf(u)' : output'[c] = [b \in 1..job'.N |-> <<>>]
      <4>1. /\ Workers' = Workers /\ job' = job
            /\ \A u \in Workers : ItemsOf(u)' = ItemsOf(u)
        BY <1>3, <2>1
      <4> QED
        BY <3>2, <4>1
    <3>5. output' = [c \in Columns' |-> output'[c]] /\ call' = MultiTask(job.k)'
      BY <2>1, <3>1, <3>3, SameJob
    <3> QED
      BY <3>4, <3>5 DEF ResizeInv
  <2>4. ChunksInv'
    BY <2>1, SameJob DEF TransposeInv, ChunksInv
  <2> QED
    BY <1>2, <2>1, <2>3, <2>4 DEF TransposeInv, JobInv, DealInv, FillInv, Transposed
<1>7. CASE TransposeChunks(t)
  <2>1. phase = "chunks" /\ job' = job /\ in_ptrs' = in_ptrs /\ job \in Jobs
    BY <1>7 DEF TransposeChunks, TransposeInv, JobInv
  <2>2. CASE \E i \in ItemsOf(t) : ~Fits(i)
    <3>1. phase' = "undefined"
      BY <1>7, <2>2 DEF TransposeChunks
    <3> QED
      BY <1>2, <2>1, <3>1 DEF TransposeInv, JobInv, ChunksInv, DealInv, ResizeInv, FillInv, Transposed
  <2>3. CASE ~ \E i \in ItemsOf(t) : ~Fits(i)
    <3>1. phase' = phase /\ output' = [c \in Columns |-> Filled(c, ItemsOf(t))]
      BY <1>7, <2>3 DEF TransposeChunks
    <3>2. Items = Chunks
      BY <2>1 DEF TransposeInv, FillInv, Items, n, MultiTask, Chunks
    <3> PICK mine : mine = ItemsOf(t)
      OBVIOUS
    <3>3. mine \in SUBSET Chunks /\ \A i \in mine : Fits(i)
      BY <1>1, <2>3, <3>2, OwnItems
    <3>4. ASSUME NEW c \in Columns
          PROVE  /\ output'[c] = [b \in 1..job.N |-> output'[c][b]]
                 /\ \A i \in Chunks, x \in 1..CHUNK_SIZE :
                      output'[c][i * CHUNK_SIZE + x] =
                        IF i \in mine THEN <<Leaf(i * CHUNK_SIZE + x), c>>
                        ELSE output[c][i * CHUNK_SIZE + x]
      <4>1. output'[c] = Filled(c, mine)
        BY <3>1
      <4>2. ChunksInv
        BY DEF TransposeInv
      <4> QED
        BY <2>1, <3>3, <4>1, <4>2, FilledAs
    <3>5. ASSUME NEW u \in Workers, thread'[u] \in Over,
                 NEW i \in ItemsOf(u), NEW c \in Columns, NEW x \in 1..CHUNK_SIZE
          PROVE  output'[c][i * CHUNK_SIZE + x] = <<Leaf(i * CHUNK_SIZE + x), c>>
      <4>1. i \in Chunks
        BY <1>1, <3>2, OwnItems
      <4>2. CASE u = t
        BY <3>4, <4>1, <4>2
      <4>3. CASE u # t
        <5>1. i \notin mine /\ thread[u] \in Over
          BY <1>3, <1>4, <3>5, <4>3
        <5>2. output[c][i * CHUNK_SIZE + x] = <<Leaf(i * CHUNK_SIZE + x), c>>
          BY <2>1, <5>1 DEF TransposeInv, FillInv
        <5> QED
          BY <3>4, <4>1, <5>1, <5>2
      <4> QED
        BY <4>2, <4>3
    <3>6. output' = [c \in Columns |-> output'[c]]
      BY <3>1
    <3>7. call' = MultiTask(job.threads * CHUNKS)
      BY <1>3, <2>1 DEF TransposeInv, FillInv
    <3>8. FillInv'
      BY <1>3, <2>1, <3>1, <3>4, <3>5, <3>6, <3>7, SameJob DEF FillInv
    <3>9. ChunksInv'
      BY <2>1, <3>1, SameJob DEF TransposeInv, ChunksInv
    <3> QED
      BY <1>2, <2>1, <3>1, <3>8, <3>9 DEF TransposeInv, JobInv, DealInv, ResizeInv, Transposed
  <2> QED
    BY <2>2, <2>3
<1> QED
  BY <1>5, <1>6, <1>7 DEF Worker

-----------------------------------------------------------------------------
LEMMA TransposeInvHolds == TransposeSpec => []TransposeInv
<1>1. TransposeInit => TransposeInv
  BY TransposeBegins
<1>2. TransposeInv /\ [TransposeNext]_allVars => TransposeInv'
  <2> SUFFICES ASSUME TransposeInv, [TransposeNext]_allVars PROVE TransposeInv'
    OBVIOUS
  <2>1. CASE UNCHANGED allVars
    <3>1. UNCHANGED vars /\ UNCHANGED memory
      BY <2>1 DEF allVars
    <3>2. call' = call /\ thread' = thread
      BY <3>1 DEF vars
    <3>3. CallInv'
      BY <3>1, IdleKeeps DEF TransposeInv
    <3>4. job' = job /\ phase' = phase /\ in_ptrs' = in_ptrs /\ cleared' = cleared /\ output' = output
      BY <3>1 DEF memory
    <3>5. Workers' = Workers /\ \A t \in Workers : ItemsOf(t)' = ItemsOf(t)
      BY <3>2, SameCall
    <3>6. JobInv' /\ ChunksInv' /\ DealInv' /\ Transposed'
      BY <3>2, <3>4, <3>5, SameJob DEF TransposeInv, JobInv, ChunksInv, DealInv, Transposed
    <3>7. ResizeInv'
      BY <3>2, <3>4, <3>5, SameJob DEF TransposeInv, ResizeInv
    <3>8. FillInv'
      BY <3>2, <3>4, <3>5, SameJob DEF TransposeInv, FillInv
    <3> QED
      BY <3>3, <3>6, <3>7, <3>8 DEF TransposeInv
  <2> QED
    BY <2>1, DealKeeps, CallStepKeeps, CallReturnedKeeps, WorkerKeeps
       DEF TransposeNext, Caller
<1> QED
  BY <1>1, <1>2, PTL DEF TransposeSpec

\* The two loops of a transpose, and any loop called from elsewhere: each item is
\* worked on once before the call returns, and no thread outlives it.
THEOREM LoopsDone == TransposeSpec => []AllDone
<1>1. TransposeInv => AllDone
  BY CallEnds DEF TransposeInv
<1> QED
  BY <1>1, TransposeInvHolds, PTL

\* The results of a TASK_REDUCE are combined in the order of the items.
THEOREM ResultsInOrder == TransposeSpec => []InOrder
<1>1. TransposeInv => InOrder
  BY CallEnds DEF TransposeInv
<1> QED
  BY <1>1, TransposeInvHolds, PTL

\* A call fails for less than (T - 1)^2 items only.
THEOREM ReversedOnlyIfFew == TransposeSpec => []NeverReversed
<1>1. TransposeInv => NeverReversed
  BY CallEnds DEF TransposeInv
<1> QED
  BY <1>1, TransposeInvHolds, PTL

\* transpose() returns the transposed matrix, in whatever order its threads run,
\* and leaves none of the PPRFs' leaves behind.
THEOREM TransposeCorrect == TransposeSpec => []Transposed
<1>1. TransposeInv => Transposed
  BY DEF TransposeInv
<1> QED
  BY <1>1, TransposeInvHolds, PTL

-----------------------------------------------------------------------------
\* A row stands at one place of the matrix only.
LEMMA LeafOnce ==
  ASSUME job \in Jobs, NEW a \in Nat \ {0}, NEW b \in Nat \ {0}, Leaf(a) = Leaf(b)
  PROVE  a = b
<1> PICK d \in Nat \ {0} : d = domain
  BY JobSizes
<1> PICK x \in Nat, y \in Nat : x = a - 1 /\ y = b - 1
  OBVIOUS
<1>1. x \div d = y \div d /\ x % d = y % d
  BY DEF Leaf
<1>2. x = (x \div d) * d + (x % d) /\ y = (y \div d) * d + (y % d)
  BY Divided
<1>3. x = y
  BY <1>1, <1>2
<1> QED
  BY <1>3

\* Two chunks have no byte of an output row and no input row in common.
LEMMA ChunksShareNothing ==
  ASSUME job \in Jobs, phase = "chunks", ChunksInv,
         NEW i \in Chunks, NEW j \in Chunks, i # j
  PROVE  /\ ((Offset(i) \div Byte)..((Offset(i) + CHUNK_SIZE - 1) \div Byte))
              \cap ((Offset(j) \div Byte)..((Offset(j) + CHUNK_SIZE - 1) \div Byte)) = {}
         /\ ToSet(in_ptrs[i]) \cap ToSet(in_ptrs[j]) = {}
<1> PICK B \in Nat \ {0}, S \in Nat \ {0} : B = Byte /\ S = CHUNK_SIZE
  BY JobSizes DEF ChunksInv
<1> PICK R : R = (S + B - 1) \div B
  OBVIOUS
<1>1. i \in Nat /\ j \in Nat /\ R \in Nat
  <2>1. R \in Nat
    BY Ranges
  <2> QED
    BY <2>1 DEF Chunks
<1>2. Offset(i) = i * R * B /\ Offset(j) = j * R * B
  BY DEF Offset, RoundedUp
<1> DEFINE Begin0(k) == (k * R * B) \div B
           End0(k) == (k * R * B + S - 1) \div B
<1>3. /\ i < j => End0(i) < Begin0(j)
      /\ j < i => End0(j) < Begin0(i)
  BY <1>1, ChunksApart
<1>4. Begin0(i) \in Int /\ Begin0(j) \in Int /\ End0(i) \in Int /\ End0(j) \in Int
  <2>1. ASSUME NEW k \in Nat PROVE Begin0(k) \in Int /\ End0(k) \in Int
    <3>1. k * R * B \in Int
      BY <1>1, <2>1
    <3> QED
      BY <3>1
  <2> QED
    BY <1>1, <2>1
<1>5. ((Offset(i) \div Byte)..((Offset(i) + CHUNK_SIZE - 1) \div Byte))
        \cap ((Offset(j) \div Byte)..((Offset(j) + CHUNK_SIZE - 1) \div Byte)) = {}
  <2>1. (Begin0(i)..End0(i)) \cap (Begin0(j)..End0(j)) = {}
    <3> HIDE DEF Begin0, End0
    <3> QED
      BY <1>1, <1>3, <1>4
  <2> QED
    BY <1>2, <2>1
<1>6. ToSet(in_ptrs[i]) \cap ToSet(in_ptrs[j]) = {}
  <2> SUFFICES ASSUME NEW r, r \in ToSet(in_ptrs[i]), r \in ToSet(in_ptrs[j]) PROVE FALSE
    OBVIOUS
  <2>1. /\ in_ptrs[i] = [x \in 1..S |-> Leaf(i * S + x)]
        /\ in_ptrs[j] = [x \in 1..S |-> Leaf(j * S + x)]
    BY DEF ChunksInv
  <2>2. PICK x \in 1..S, y \in 1..S : r = Leaf(i * S + x) /\ r = Leaf(j * S + y)
    BY <2>1 DEF ToSet
  <2> PICK a, b : a = i * S + x /\ b = j * S + y
    OBVIOUS
  <2>3. a \in Nat \ {0} /\ b \in Nat \ {0}
    BY <1>1
  <2>4. a = b
    BY <2>2, <2>3, LeafOnce
  <2> QED
    BY <1>1, <2>4, OnePlace
<1> QED
  BY <1>5, <1>6

\* Threads that run at the same time never write to the same element, the same byte
\* of an output row, or the same input row.
THEOREM ThreadsApart == TransposeSpec => []NoRace
<1>1. TransposeInv => NoRace
  <2> SUFFICES ASSUME TransposeInv, NEW t \in Workers, NEW u \in Workers, t # u
               PROVE  Writes(t) \cap Writes(u) = {}
    BY DEF NoRace
  <2>1. ItemsOf(t) \cap ItemsOf(u) = {} /\ ItemsOf(t) \subseteq Items /\ ItemsOf(u) \subseteq Items
    BY RangesOfCall, OwnItems DEF TransposeInv, CallInv
  <2>2. CASE phase = "resize"
    BY <2>1, <2>2 DEF Writes
  <2>3. CASE phase = "chunks"
    <3> DEFINE Bytes(v) == {<<"byte", c, b>> : c \in Columns,
          b \in UNION {(Offset(i) \div Byte)..((Offset(i) + CHUNK_SIZE - 1) \div Byte) : i \in ItemsOf(v)}}
        Inputs(v) == UNION {{<<"input", r>> : r \in ToSet(in_ptrs[i])} : i \in ItemsOf(v)}
    <3>1. Writes(t) = Bytes(t) \cup Inputs(t) /\ Writes(u) = Bytes(u) \cup Inputs(u)
      BY <2>3 DEF Writes
    <3>2. job \in Jobs /\ Items = Chunks /\ ChunksInv
      BY <2>3 DEF TransposeInv, JobInv, FillInv, Items, n, MultiTask, Chunks
    <3>3. ASSUME NEW i \in ItemsOf(t), NEW j \in ItemsOf(u)
          PROVE  i \in Chunks /\ j \in Chunks /\ i # j
      BY <2>1, <3>2
    <3>4. Bytes(t) \cap Bytes(u) = {}
      <4> SUFFICES ASSUME NEW c, NEW b,
                          NEW i \in ItemsOf(t), NEW j \in ItemsOf(u),
                          b \in (Offset(i) \div Byte)..((Offset(i) + CHUNK_SIZE - 1) \div Byte),
                          b \in (Offset(j) \div Byte)..((Offset(j) + CHUNK_SIZE - 1) \div Byte)
                   PROVE  FALSE
        OBVIOUS
      <4> QED
        BY <2>3, <3>2, <3>3, ChunksShareNothing
    <3>5. Inputs(t) \cap Inputs(u) = {}
      <4> SUFFICES ASSUME NEW r, NEW i \in ItemsOf(t), NEW j \in ItemsOf(u),
                          r \in ToSet(in_ptrs[i]), r \in ToSet(in_ptrs[j])
                   PROVE  FALSE
        OBVIOUS
      <4> QED
        BY <2>3, <3>2, <3>3, ChunksShareNothing
    <3>6. \A v, w \in {t, u} : Bytes(v) \cap Inputs(w) = {}
      OBVIOUS
    <3> HIDE DEF Bytes, Inputs
    <3> QED
      BY <3>1, <3>4, <3>5, <3>6
  <2>4. CASE phase \notin {"resize", "chunks"}
    BY <2>1, <2>4 DEF Writes
  <2> QED
    BY <2>2, <2>3, <2>4
<1> QED
  BY <1>1, TransposeInvHolds, PTL
=============================================================================
