------------------------------- MODULE EqTest ------------------------------
(***************************************************************************)
(* The private equality test of src/pkg/eqtest.cxx, with its data: the     *)
(* shares the two sides hold from one round to the next.  A round is one   *)
(* action of both sides, for module Session shows that their messages meet *)
(* and module Rot that an OT gives the receiver just its choice.  Vectors  *)
(* are functions from 0, as indexed in the code.                           *)
(***************************************************************************)
EXTENDS Integers, Sequences, FiniteSets, FiniteSetsExt

CONSTANTS
  ParamSet,   \* [length, threshold, tests, values]: `values` bounds the inputs
  Draw(_, _)  \* Draw(n, m): vectors of n numbers below m that sampling may give

Sides == {"sender", "receiver"}

ASSUME EqTestAssumption ==
  \A P \in ParamSet :
    /\ P.length \in Nat \ {0} /\ P.tests \in Nat \ {0}
    /\ P.threshold \in Nat \ {0, 1}
    /\ P.values \subseteq 0..(2^P.length - 1)

\* What is drawn has the length, and the range, that it is drawn for.
ASSUME DrawAssumption ==
  \A P \in ParamSet :
    \A n \in 0..(P.tests * (P.length + 2^P.threshold)), m \in 2..(P.length + 1) :
      Draw(n, m) \subseteq [0..(n - 1) -> 0..(m - 1)]

VARIABLES
  params,
  phase,   \* "prepare", "run", "done" or "error"
  size,    \* `j`, the size of the round
  round,   \* `i`, the number of the round, from 0
  input,   \* input[s][t]: the numbers given to run()
  share,   \* share[s][t]: inputs[t] as the rounds go on
  rsi, abi,  \* rsi[s][i][t], abi[s][i][t]: outcome of the i-th sizeReduction
  rs, ab,    \* rs[s][t], ab[s][t]: outcome of productSharing
  out

vars == <<params, phase, size, round, input, share, rsi, abi, rs, ab, out>>

-----------------------------------------------------------------------------
Tests == 0..(params.tests - 1)
Below(n) == 0..(n - 1)
xor(a, b) == (a + b) % 2
Bool(b) == IF b THEN 1 ELSE 0

FaultyCeilLog2(n) == CHOOSE d \in 0..n : 2^d <= n /\ n < 2^(d + 1)

CeilLog2(n) == CHOOSE d \in 0..n : 2^d >= n /\ (d = 0 \/ 2^(d - 1) < n)

\* BitString::fromUInt: the least significant bit first.
fromUInt(v, n) == [l \in Below(n) |-> (v \div 2^l) % 2]

\* The two messages of sizeReduction for one bit x with mask a.
FaultyMessages(x, a, j) ==
  <<IF x >= a THEN x - a ELSE j + 1 + x - a,
    IF 1 - x >= a THEN 1 - x - a ELSE j + 1 - a>>

Messages(x, a, j) ==
  <<IF x >= a THEN x - a ELSE j + 1 + x - a,
    IF 1 - x >= a THEN 1 - x - a ELSE 1 - x + j + 1 - a>>

\* What the receiver's toUInt gives back of a message sent in mbits bits.
OnTheWire(m, j) == m % 2^CeilLog2(j + 1)

Cross == 2^params.threshold - 2

Init ==
  /\ params \in ParamSet
  /\ phase = "prepare"
  /\ size = params.length
  /\ round = 0
  /\ input \in [Sides -> [Tests -> params.values]]
  /\ share = input
  /\ rsi = [s \in Sides |-> <<>>]
  /\ abi = [s \in Sides |-> <<>>]
  /\ rs = [s \in Sides |-> <<>>]
  /\ ab = [s \in Sides |-> <<>>]
  /\ out = [s \in Sides |-> <<>>]

\* sizeReduction of both sides: the sender samples for one test after the
\* other, the receiver all its choices at once, which it then slices.
SizeReduction ==
  /\ phase = "prepare" /\ size > params.threshold
  /\ \E x \in [Tests -> Draw(size, 2)], a \in [Tests -> Draw(size, size + 1)],
        y \in Draw(size * params.tests, 2) :
       LET slice(t) == [l \in Below(size) |-> y[t * size + l]]
           got(t) == [l \in Below(size) |->
             OnTheWire(Messages(x[t][l], a[t][l], size)[slice(t)[l] + 1], size)]
       IN  /\ rsi' = [sender |-> Append(rsi["sender"], x),
                      receiver |-> Append(rsi["receiver"], [t \in Tests |-> slice(t)])]
           /\ abi' = [sender |-> Append(abi["sender"], a),
                      receiver |-> Append(abi["receiver"], [t \in Tests |-> got(t)])]
  /\ size' = CeilLog2(size + 1)
  /\ UNCHANGED <<params, phase, round, input, share, rs, ab, out>>

\* productSharing of both sides; run() then starts from the full length again.
ProductSharing ==
  /\ phase = "prepare" /\ size <= params.threshold
  /\ \E x, a \in [Tests -> Draw(Cross, 2)], y \in Draw(Cross * params.tests, 2) :
       LET slice(t) == [k \in Below(Cross) |-> y[t * Cross + k]]
       IN  /\ rs' = [sender |-> x, receiver |-> [t \in Tests |-> slice(t)]]
           /\ ab' = [sender |-> a,
                     receiver |-> [t \in Tests |-> [k \in Below(Cross) |->
                       IF slice(t)[k] = 1 THEN xor(a[t][k], x[t][k]) ELSE a[t][k]]]]
  /\ phase' = "run"
  /\ size' = params.length
  /\ UNCHANGED <<params, round, input, share, rsi, abi, out>>

\* `reduced[t]`
reduced(s, t) == fromUInt(share[s][t], size)

\* What a side writes in a round: its bits of all tests, one after the other.
Masked(s) ==
  [q \in Below(size * params.tests) |->
     xor(reduced(s, q \div size)[q % size], rsi[s][round + 1][q \div size][q % size])]

\* The share that side s computes from the bits zt of a test and its masks.
FaultySign(s, zt, mask, j) ==
  LET sum == SumFunction([l \in Below(j) |-> IF zt[l] = 1 THEN j + 1 - mask[l] ELSE mask[l]])
               % (j + 1)
  IN  IF s = "sender" THEN sum
      ELSE (sum + SumFunction(zt)) % (j + 1)

NextShare(s, zt, mask, j) ==
  LET sum == SumFunction([l \in Below(j) |-> IF zt[l] = 1 THEN j + 1 - mask[l] ELSE mask[l]])
               % (j + 1)
  IN  IF s = "sender" THEN (j + 1 - sum) % (j + 1)
      ELSE (sum + SumFunction(zt)) % (j + 1)

\* One turn of the loop of run(): exchange the masked bits, compute new shares.
ReduceRound ==
  /\ phase = "run" /\ size > params.threshold
  /\ LET x == [s \in Sides |-> Masked(s)]
         zt(t) == [l \in Below(size) |->
                     xor(x["sender"][size * t + l], x["receiver"][size * t + l])]
     IN  share' = [s \in Sides |-> [t \in Tests |->
                     NextShare(s, zt(t), abi[s][round + 1][t], size)]]
  /\ size' = CeilLog2(size + 1)
  /\ round' = round + 1
  /\ UNCHANGED <<params, phase, input, rsi, abi, rs, ab, out>>

\* The shares ended up shorter than the threshold: reduced[t][l] throws.
ThresholdError ==
  /\ phase = "run" /\ size < params.threshold
  /\ phase' = "error"
  /\ UNCHANGED <<params, size, round, input, share, rsi, abi, rs, ab, out>>

\* Bit l of the number k.
HasBit(k, l) == (k \div 2^l) % 2 = 1

\* Xk of the k-th subset: Alice takes the bits in it, Bob those outside.
FaultyFactor(s, t, k) ==
  Bool(\A l \in Below(params.threshold) : IF s = "sender"
         THEN HasBit(k, l) => reduced(s, t)[l] = 0
         ELSE HasBit(k, l) => reduced(s, t)[l] = 1)

Factor(s, t, k) ==
  Bool(\A l \in Below(params.threshold) : IF s = "sender"
         THEN HasBit(k, l) => reduced(s, t)[l] = 0
         ELSE ~HasBit(k, l) => reduced(s, t)[l] = 1)

\* The term of out[t] that a side computes from its own bits alone.
Base(s, t) ==
  Bool(\A l \in Below(params.threshold) :
         reduced(s, t)[l] = (IF s = "sender" THEN 0 ELSE 1))

\* Where the bits of test t begin in alpha.
StartBit(t) == t * Cross

\* The cross terms: swap alpha, which ends in random bits, and compute the output.
CrossTerms ==
  /\ phase = "run" /\ size = params.threshold
  /\ \E r \in [Sides -> Draw(params.tests, 2)] :
       LET rbits == Cross * params.tests
           X(s, t, k) == Factor(s, t, k + 1)
           alpha == [s \in Sides |-> [q \in Below(rbits + params.tests) |->
                       IF q >= rbits THEN r[s][q - rbits]
                       ELSE xor(X(s, q \div Cross, q % Cross), rs[s][q \div Cross][q % Cross])]]
           beta == [sender |-> alpha["receiver"], receiver |-> alpha["sender"]]
           term(s, t, k) ==
             xor(ab[s][t][k], beta[s][StartBit(t) + k] * (IF s = "sender" THEN X(s, t, k) ELSE rs[s][t][k]))
       IN  out' = [s \in Sides |-> [t \in Tests |->
                     (Base(s, t) + SumFunction([k \in Below(Cross) |-> term(s, t, k)])
                        + alpha[s][rbits + t] + beta[s][rbits + t]) % 2]]
  /\ phase' = "done"
  /\ UNCHANGED <<params, size, round, input, share, rsi, abi, rs, ab>>

Stop == phase \in {"done", "error"} /\ UNCHANGED vars

Next == SizeReduction \/ ProductSharing \/ ReduceRound \/ ThresholdError \/ CrossTerms \/ Stop

Spec == Init /\ [][Next]_vars

-----------------------------------------------------------------------------
\* What sizeReduction is for: its masks add up, modulo the size of the round
\* plus one, to the exclusive or of the bits that hide the inputs.  No choice
\* of the random numbers, and no size that is not a power of two less one,
\* makes the subtraction wrap or the bits of a message overflow.
ReductionMasks ==
  \A i \in DOMAIN rsi["sender"], t \in Tests :
    LET j == Cardinality(DOMAIN rsi["sender"][i][t])
    IN  \A l \in Below(j) :
          (abi["sender"][i][t][l] + abi["receiver"][i][t][l]) % (j + 1) =
            xor(rsi["sender"][i][t][l], rsi["receiver"][i][t][l])

\* Each round leaves shares that are equal just when the inputs are: the two
\* sides, each from its own masks, compute numbers whose difference is the
\* number of positions in which the previous shares differ.
EqualityKept ==
  \A t \in Tests :
    share["sender"][t] = share["receiver"][t] <=> input["sender"][t] = input["receiver"][t]

\* The two outputs are shares of the answer, for every test of the batch: this
\* is what PCG takes them for (TestEqTest in test/test_eqtest.cxx).
OutputShares ==
  phase = "done" =>
    \A t \in Tests : xor(out["sender"][t], out["receiver"][t]) =
                       Bool(input["sender"][t] = input["receiver"][t])

\* The loop stops at the first size that is not above the threshold.  For the
\* threshold of PCGParams, 3, and for 2, that size is the threshold itself, so no
\* input is answered with "threshold error" unless it was too short from the
\* start.  (For larger thresholds it may be: length 8 and threshold 5 is one case,
\* as the comment in EqTest::run says.)
ThresholdMet ==
  phase = "error" => params.threshold > 3 \/ params.length < params.threshold
=============================================================================
