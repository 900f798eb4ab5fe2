-------------------------------- MODULE Ahe --------------------------------
(***************************************************************************)
(* The additively homomorphic encryption of src/ahe/ahe.cxx, in the use    *)
(* that src/pkg/pcg.cxx makes of it: one party encrypts its secret vector  *)
(* bit by bit, the other adds up the ciphertexts of one row of the matrix  *)
(* A, adds a bit of its own, and the first decrypts the sum.               *)
(*                                                                         *)
(* A group element is its exponent below the order q of the group.  The    *)
(* part of a ciphertext that hides it, c1 and c1 * x, is the vector of how *)
(* often each hash to the curve occurs in it: decryption removes it only   *)
(* when the two vectors are the same.                                      *)
(***************************************************************************)
EXTENDS Integers

CONSTANTS
  k,       \* bits of the secret vector
  l,       \* entries of a row of A, and max_ops of the AHE object
  tail,    \* GaussianSampler::tail
  bits,    \* of a uniform sample
  zero_weights, one_weights,  \* the two halves of gauss.config
  half     \* q \div 2: the order of the group is odd

VARIABLES
  phase,   \* where the two parties are
  plain,   \* s, the encrypted bits
  enc,     \* enc_s at its owner
  theirs,  \* other_enc_s, as received by the other party
  row,     \* getNonZeroElements(idx), from 1 on
  added,   \* ciphertexts added into ctx
  ctx,
  sum,     \* history: the plaintext that ctx stands for
  resp,    \* the answer, as received by the owner
  out      \* decrypted_resp

vars == <<phase, plain, enc, theirs, row, added, ctx, sum, resp, out>>

-----------------------------------------------------------------------------
q == 2 * half + 1
one == half + 1
Group == 0..(q - 1)

\* The entries of `lookup` are the multiples of the generator up to this one.
Radius == tail * (l + 1) + 1

ASSUME AheAssumption ==
  /\ k \in Nat \ {0} /\ l \in Nat \ {0} /\ tail \in Nat \ {0} /\ half \in Nat
  /\ l <= k
  /\ half >= 2 * (tail * (l + 1) + 1)

ASSUME SamplerAssumption ==
  /\ bits \in Nat
  /\ zero_weights \in [0..(tail - 1) -> Nat] /\ one_weights \in [0..(tail - 1) -> Nat]

Index == 0..(k - 1)
Bit == {0, 1}

GroupAdd(a, b) == IF a + b >= q THEN a + b - q ELSE a + b

\* The generator times e, for an integer e between -q and q.
FaultyMultiple(e) == e
Multiple(e) == IF e >= 0 THEN e ELSE q + e

\* isZero
lookup == 0..Radius \cup (q - Radius)..(q - 1)

BitXor(a, b) == IF a = b THEN 0 ELSE 1

\* fromHash of the i-th seed of the key's PRF.
Hash(i) == [j \in Index |-> IF j = i THEN 1 ELSE 0]
HashAdd(a, b) == [j \in Index |-> a[j] + b[j]]

Hashes == [Index -> Nat]
Ciphertext == [first : Hashes, second : [r : Hashes, v : Group]]

max_value == 2^bits - 1
Smaller(a, b) == IF a < b THEN a ELSE b

\* The cutoffs of a distribution: the running totals of its weights.
Cutoffs(weights) ==
  LET total[i \in Nat] ==
        Smaller((IF i = 0 THEN 0 ELSE total[i - 1]) + weights[i], max_value)
  IN  [i \in 0..(tail - 1) |-> total[i]]

zero_dist == Cutoffs(zero_weights)
one_dist == Cutoffs(one_weights)

\* The loop of GaussianSampler::get stops at `obs` for the sample u: the first
\* cutoff above u, or the last observation when there is none.
FaultyObserved(dist, obs, u) ==
  /\ \A i \in 0..(obs - 1) : u >= dist[i]
  /\ obs = tail \/ u < dist[obs]
Observed(dist, obs, u) ==
  /\ obs < tail
  /\ \A i \in 0..(obs - 1) : u >= dist[i]
  /\ obs = tail - 1 \/ u < dist[obs]

\* The noise of a zero is symmetric, that of a one reaches one further below.
Signed(b, obs, negative) ==
  IF negative THEN (IF b = 0 THEN -obs ELSE -obs - 1) ELSE obs

\* GaussianSampler::get, all that it can return for bit b.
Noise(b) ==
  LET dist == IF b = 0 THEN zero_dist ELSE one_dist
      possible == {obs \in 0..tail : \E u \in 0..max_value : Observed(dist, obs, u)}
  IN  {Signed(b, obs, negative) : obs \in possible, negative \in BOOLEAN}

encryption(i, b, e) ==
  [first |-> Hash(i),
   second |-> [r |-> Hash(i),
               v |-> GroupAdd(IF b = 1 THEN one ELSE 0, Multiple(e))]]

\* add of two ciphertexts, and of a ciphertext and a plain bit.
add(c, d) ==
  [first |-> HashAdd(c.first, d.first),
   second |-> [r |-> HashAdd(c.second.r, d.second.r),
               v |-> GroupAdd(c.second.v, d.second.v)]]

addPlain(c, b) ==
  IF b = 0 THEN c ELSE [c EXCEPT !.second.v = GroupAdd(@, one)]

\* receive(n, channel, compress) of what send(ciphertexts, channel, compress)
\* wrote: with `compress` only the second parts travel, and the first parts are
\* computed anew from the key and the position.
transmitted(cs, compress) ==
  [i \in DOMAIN cs |-> IF compress THEN [cs[i] EXCEPT !.first = Hash(i)] ELSE cs[i]]

\* decrypt: take c1 * x off and look the rest up.
decryption(c) ==
  IF c.first = c.second.r /\ c.second.v \in lookup THEN 0 ELSE 1

-----------------------------------------------------------------------------
Init ==
  /\ phase = "prepare"
  /\ plain \in [Index -> Bit]
  /\ row \in [1..l -> Index] /\ \A i, j \in 1..l : i < j => row[i] < row[j]
  /\ enc = <<>> /\ theirs = <<>> /\ added = 0 /\ ctx = <<>>
  /\ sum = 0 /\ resp = <<>> /\ out = 0

\* prepare(): enc_s = ahe.encrypt(s)
Encrypt ==
  /\ phase = "prepare"
  /\ \E e \in [Index -> Noise(0) \cup Noise(1)] :
       /\ \A i \in Index : e[i] \in Noise(plain[i])
       /\ enc' = [i \in Index |-> encryption(i, plain[i], e[i])]
  /\ phase' = "encrypted"
  /\ UNCHANGED <<plain, theirs, row, added, ctx, sum, resp, out>>

\* The compressed exchange of enc_s.
Exchange ==
  /\ phase = "encrypted"
  /\ theirs' = transmitted(enc, TRUE)
  /\ phase' = "start"
  /\ UNCHANGED <<plain, enc, row, added, ctx, sum, resp, out>>

\* homomorphicInnerProduct: the first entry of the row,
Start ==
  /\ phase = "start"
  /\ ctx' = theirs[row[1]]
  /\ sum' = plain[row[1]]
  /\ added' = 1
  /\ phase' = "adding"
  /\ UNCHANGED <<plain, enc, theirs, row, resp, out>>

\* the others, one at a time,
AddNext ==
  /\ phase = "adding" /\ added < l
  /\ ctx' = add(ctx, theirs[row[added + 1]])
  /\ sum' = BitXor(sum, plain[row[added + 1]])
  /\ added' = added + 1
  /\ UNCHANGED <<phase, plain, enc, theirs, row, resp, out>>

\* and the mask.
AddMask ==
  /\ phase = "adding" /\ added = l
  /\ \E mask \in Bit :
       /\ ctx' = addPlain(ctx, mask)
       /\ sum' = BitXor(sum, mask)
  /\ phase' = "masked"
  /\ UNCHANGED <<plain, enc, theirs, row, added, resp, out>>

\* The answer travels in full: its first part is no hash of one seed.
FaultyReturned(c) == transmitted([i \in {0} |-> c], TRUE)
Returned(c) == transmitted([i \in {0} |-> c], FALSE)

Return ==
  /\ phase = "masked"
  /\ resp' = Returned(ctx)[0]
  /\ phase' = "returned"
  /\ UNCHANGED <<plain, enc, theirs, row, added, ctx, sum, out>>

Decrypt ==
  /\ phase = "returned"
  /\ out' = decryption(resp)
  /\ phase' = "done"
  /\ UNCHANGED <<plain, enc, theirs, row, added, ctx, sum, resp>>

Stop == phase = "done" /\ UNCHANGED vars

Next ==
  \/ Encrypt \/ Exchange \/ Start \/ AddNext \/ AddMask
  \/ Return \/ Decrypt \/ Stop

Spec == Init /\ [][Next]_vars

-----------------------------------------------------------------------------
TypeOK ==
  /\ phase \in {"prepare", "encrypted", "start", "adding", "masked", "returned", "done"}
  /\ plain \in [Index -> Bit] /\ row \in [1..l -> Index]
  /\ added \in 0..l
  /\ sum \in Bit /\ out \in Bit
  /\ phase # "prepare" => enc \in [Index -> Ciphertext]
  /\ phase \notin {"prepare", "encrypted"} => theirs \in [Index -> Ciphertext]
  /\ phase \in {"adding", "masked", "returned", "done"} => ctx \in Ciphertext
  /\ phase \in {"returned", "done"} => resp \in Ciphertext

\* The group element v stands for bit b with an error of at most n to either side.
Near(v, b, n) ==
  \E e \in -n..n : v = GroupAdd(IF b = 1 THEN one ELSE 0, Multiple(e))

\* Adding up moves a sum no further from 0 or from `one` than `tail` for each
\* ciphertext: the carry of two ones, which make 2 * one = q + 1, is covered by
\* the asymmetry of the noise, and the mask adds no more than one.
NoiseBounded ==
  /\ phase = "adding" => Near(ctx.second.v, sum, added * tail)
  /\ phase = "masked" => Near(ctx.second.v, sum, l * tail + 1)

\* Decryption gives the inner product and the mask: the noise of l ciphertexts
\* stays inside the lookup table and never comes near `one`, and the answer's
\* own first part takes its hashes off.
Decrypts == phase = "done" => out = sum
=============================================================================
