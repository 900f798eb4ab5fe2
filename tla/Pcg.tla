-------------------------------- MODULE Pcg --------------------------------
(***************************************************************************)
(* The correlation generator itself, src/pkg/pcg.cxx with the matrices of  *)
(* src/pkg/lpn.cxx: what PCG::Sender and PCG::Receiver compute from their  *)
(* samples and from the results of the subprotocols, which are ideal here: *)
(* module EqTest shows that the shares of an equality test are right,      *)
(* module Ahe that a masked inner product is, and module Pprf that the     *)
(* image of a punctured function differs by the payload at its point.      *)
(*                                                                         *)
(* A bit that the parties draw at random is an unknown of module Gf2, so   *)
(* an output is compared for all their values at once.  The positions of   *)
(* the errors and the public matrices are enumerated.                      *)
(***************************************************************************)
EXTENDS Naturals, Sequences, FiniteSets, SequencesExt, Gf2

CONSTANTS
  ParamSet,         \* [n, k, tp, N, td, size]: primal and dual LPN, correlations
  Keys,             \* seeds of the public matrices
  PrimalMatrix(_, _),  \* PrimalMatrix(key, P)[g]: the columns of row g of A
  DualMatrix(_, _),    \* DualMatrix(key, P)[i]: the columns of row i of H
  SharedSeed        \* whether two processes are started with one seed

ASSUME PcgAssumption ==
  /\ SharedSeed \in BOOLEAN
  /\ \A P \in ParamSet :
       /\ {P.n, P.k, P.tp, P.N, P.td, P.size} \subseteq Nat \ {0}
       /\ P.n > P.k /\ P.n > P.tp /\ P.n % P.tp = 0 /\ P.k > P.td
       /\ \A key \in Keys :
            /\ PrimalMatrix(key, P) \in [0..(P.n - 1) -> (SUBSET (0..(P.k - 1))) \ {{}}]
            /\ DualMatrix(key, P) \in [0..(P.k - 1) -> SUBSET (0..(P.N - 1))]

Parties == {"sender", "receiver"}
Other(p) == IF p = "sender" THEN "receiver" ELSE "sender"

VARIABLES
  params,
  frees,     \* run() of main.cxx clears the matrices after the protocol
  seed,      \* seed[p]: pkey and dkey, one and the same in runBoth()
  stage,     \* stage[p]: the last method of PCG::Base that p has completed
  matrices,  \* matrices[p]: A, H and B are there
  e, epsilon, s, masks,
  eoe,       \* eoe[p]: p's share of the equality of the error positions
  decrypted, \* decrypted_resp
  eXas_eoe, eXas, eXs,  \* images that p has of the three families of functions
  output

vars == <<params, frees, seed, stage, matrices, e, epsilon, s, masks, eoe,
          decrypted, eXas_eoe, eXas, eXs, output>>

-----------------------------------------------------------------------------
Below(n) == 0..(n - 1)
CeilDiv(a, b) == (a + b - 1) \div b

blockSize == params.n \div params.tp
dualBlockSize == CeilDiv(params.N, params.td)
blocks == CeilDiv(params.size, blockSize)
available == IF params.size < params.n THEN params.size ELSE params.n
IsPowerOf2(n) == \E d \in 0..n : n = 2^d

Blocks == Below(params.tp)
A(p) == PrimalMatrix(seed[p], params)
H(p) == DualMatrix(seed[p], params)

\* Row g of the product B = A * H: the columns that occur an odd number of times.
B(p, g) == {c \in Below(params.N) : Cardinality({i \in A(p)[g] : c \in H(p)[i]}) % 2 = 1}

One == {<<0>>}
Bit(b) == IF b THEN One ELSE Zero
\* The product of a bit with a constant.
And(a, b) == IF b = One THEN a ELSE Zero

\* The unknowns.
RandomS(i) == {<<1, i>>}
RandomMask(p, i) == {<<2, IF p = "sender" THEN 0 ELSE 1, i>>}
RandomShare(i) == {<<3, i>>}
\* The image at x of the i-th function sampled for eXas_eoe, and for eXas.
Image(family, i) == [x \in Below(blockSize) |-> {<<4, family, i, x>>}]
\* The image of the j-th function sampled for eXs, a string of k bits.
DualImage(j) == [x \in Below(dualBlockSize) |->
                   [i \in Below(params.k) |-> {<<5, j, x, i>>}]]

\* <a_g, v>, for the row of the matrix of party p.
InnerProduct(p, g, v) == XorOver(v, A(p)[g])

\* The index of the error position of block i.
ErrorIndex(p, i) == i * blockSize + e[p][i]

At(p, st) == stage[p] = st

Init ==
  /\ params \in ParamSet
  /\ frees \in BOOLEAN
  /\ seed \in {f \in [Parties -> Keys] : 
       SharedSeed \/ ~frees => f["sender"] = f["receiver"]}
  /\ stage = [p \in Parties |-> "new"]
  /\ matrices = [p \in Parties |-> FALSE]
  /\ e = [p \in Parties |-> <<>>] /\ epsilon = <<>>
  /\ s = [p \in Parties |-> <<>>]
  /\ masks = [p \in Parties |-> <<>>]
  /\ eoe = [p \in Parties |-> <<>>]
  /\ decrypted = [p \in Parties |-> <<>>]
  /\ eXas_eoe = [p \in Parties |-> <<>>]
  /\ eXas = [p \in Parties |-> <<>>]
  /\ eXs = [p \in Parties |-> <<>>]
  /\ output = [p \in Parties |-> <<>>]

samples == <<e, epsilon, s, masks>>
results == <<eoe, decrypted, eXas_eoe, eXas, eXs>>

To(p, st) == stage' = [stage EXCEPT ![p] = st]

\* Base::init, before prepare() and once more in run() after clear().
init(p) ==
  /\ \/ At(p, "new") /\ To(p, "init")
     \/ At(p, "finalized") /\ ~matrices[p] /\ UNCHANGED stage
  /\ matrices' = [matrices EXCEPT ![p] = TRUE]
  /\ UNCHANGED <<params, frees, seed, samples, results, output>>

PrepareSender ==
  /\ At("sender", "init")
  /\ \E errors \in [Blocks -> Below(blockSize)] : e' = [e EXCEPT !["sender"] = errors]
  /\ s' = [s EXCEPT !["sender"] = [i \in Below(params.k) |-> RandomS(i)]]
  /\ masks' = [masks EXCEPT !["sender"] = [i \in Blocks |-> RandomMask("sender", i)]]
  /\ eXs' = [eXs EXCEPT !["sender"] = [j \in Below(params.td) |-> DualImage(j)]]
  /\ eXas_eoe' = [eXas_eoe EXCEPT !["sender"] = [i \in Blocks |-> Image(0, i)]]
  /\ To("sender", "prepared")
  /\ UNCHANGED <<params, frees, seed, matrices, epsilon, eoe, decrypted, eXas, output>>

\* The secret vector of the receiver is H times the dual error; reading a column
\* of H behind the last one throws.
PrepareReceiver ==
  /\ At("receiver", "init")
  /\ \E errors \in [Blocks -> Below(blockSize)],
        dual \in [Below(params.td) -> Below(dualBlockSize)] :
       LET columns == {j * dualBlockSize + dual[j] : j \in Below(params.td)}
       IN  IF \E c \in columns : c >= params.N
           THEN To("receiver", "failed") /\ UNCHANGED <<samples, eXas>>
           ELSE /\ e' = [e EXCEPT !["receiver"] = errors]
                /\ epsilon' = dual
                /\ s' = [s EXCEPT !["receiver"] = [i \in Below(params.k) |->
                     Bit(Cardinality(columns \cap H("receiver")[i]) % 2 = 1)]]
                /\ masks' = [masks EXCEPT !["receiver"] =
                     [i \in Blocks |-> RandomMask("receiver", i)]]
                /\ eXas' = [eXas EXCEPT !["receiver"] = [i \in Blocks |-> Image(1, i)]]
                /\ To("receiver", "prepared")
  /\ UNCHANGED <<params, frees, seed, matrices, eoe, decrypted, eXas_eoe, eXs, output>>

Together(from, to) ==
  /\ \A p \in Parties : At(p, from)
  /\ stage' = [p \in Parties |-> to]

\* online(): the equality test gives shares of whether the positions are equal.
EqualityTest ==
  /\ Together("prepared", "compared")
  /\ eoe' = [sender |-> [i \in Blocks |-> RandomShare(i)],
             receiver |-> [i \in Blocks |->
               Xor(RandomShare(i), Bit(e["sender"][i] = e["receiver"][i]))]]
  /\ UNCHANGED <<params, frees, seed, matrices, samples, decrypted,
                 eXas_eoe, eXas, eXs, output>>

\* homomorphicInnerProduct of p on the vector of its peer.
FaultyMaskedProduct(p, i) ==
  Xor(InnerProduct(p, ErrorIndex(p, i), s[Other(p)]), masks[p][0])

MaskedProduct(p, i) ==
  Xor(InnerProduct(p, ErrorIndex(p, i), s[Other(p)]), masks[p][i])

\* online(): each decrypts what its peer computed on its encrypted vector.
InnerProducts ==
  /\ Together("compared", "multiplied")
  /\ decrypted' = [p \in Parties |-> [i \in Blocks |-> MaskedProduct(Other(p), i)]]
  /\ UNCHANGED <<params, frees, seed, matrices, samples, eoe,
                 eXas_eoe, eXas, eXs, output>>

\* The image of a function after it was shared, punctured at x.  BitPPRF gives
\* the receiver as many points as its tree has leaves.
Puncture(img, x, payload) == [img EXCEPT ![x] = Xor(@, payload)]
XorRow(row, payload) == [i \in DOMAIN row |-> Xor(row[i], payload[i])]

\* online(): the three exchanges of functions.
FaultyPayload(i) == decrypted["sender"][i]
Payload(i) == Xor(decrypted["sender"][i], eoe["sender"][i])

SharePprfs ==
  /\ Together("multiplied", "online")
  /\ eXas_eoe' = [eXas_eoe EXCEPT !["receiver"] = [i \in Blocks |->
       Puncture(eXas_eoe["sender"][i], e["receiver"][i], Payload(i))]]
  /\ eXas' = [eXas EXCEPT !["sender"] = [i \in Blocks |->
       Puncture(eXas["receiver"][i], e["sender"][i], decrypted["receiver"][i])]]
  /\ eXs' = [eXs EXCEPT !["receiver"] = [j \in Below(params.td) |->
       [eXs["sender"][j] EXCEPT ![epsilon[j]] = XorRow(@, s["sender"])]]]
  /\ UNCHANGED <<params, frees, seed, matrices, samples, eoe, decrypted, output>>

\* Base::clear
clear(p) ==
  /\ At(p, "online") /\ frees /\ matrices[p]
  /\ matrices' = [matrices EXCEPT ![p] = FALSE]
  /\ UNCHANGED <<params, frees, seed, stage, samples, results, output>>

\* What a party xors to the images of block i at its error position.
Correction(p, i) ==
  IF p = "sender" THEN masks[p][i] ELSE Xor(masks[p][i], eoe[p][i])

\* The blocks whose images make up the output, before it is cut to size.
FaultyFinalBlocks(p) == IF p = "sender" THEN params.tp ELSE blocks - 1
FinalBlocks(p) == IF p = "sender" THEN params.tp ELSE blocks

\* The images of the two functions of a block are xored.  The one that was
\* received has 2^depth bits, the other blockSize, and BitString's ^ throws when
\* the two numbers are not the same.  With more correlations than samples the
\* receiver goes on behind the end of its vectors: that ends the process, or it
\* does not, and leaves bits (here: zeros) that nothing can be said of.
finalize(p) ==
  /\ At(p, "online")
  /\ frees => ~matrices[p]
  /\ \/ /\ ~IsPowerOf2(blockSize) \/ FinalBlocks(p) > params.tp
        /\ To(p, "failed") /\ UNCHANGED output
     \/ /\ IsPowerOf2(blockSize)
        /\ LET img(i) == [x \in Below(blockSize) |->
                 Xor(Xor(eXas_eoe[p][i][x], eXas[p][i][x]),
                     IF x = e[p][i] THEN Correction(p, i) ELSE Zero)]
           IN  output' = [output EXCEPT ![p] = [g \in Below(params.size) |->
                 IF g < FinalBlocks(p) * blockSize /\ g < params.n
                 THEN img(g \div blockSize)[g % blockSize] ELSE Zero]]
        /\ To(p, "finalized")
  /\ UNCHANGED <<params, frees, seed, matrices, samples, results>>

\* The g-th bit that expand() adds: row g of B times the sum of the columns of
\* the (transposed) matrix that row g of A names.
ExpandedBit(p, g) ==
  XorOver([c \in Below(params.N) |->
            XorOver(eXs[p][c \div dualBlockSize][c % dualBlockSize], A(p)[g])],
          B(p, g))

\* B throws when it is asked for a row behind its last.
expand(p) ==
  /\ At(p, "finalized") /\ matrices[p]
  /\ IF params.size > params.n
     THEN To(p, "failed") /\ UNCHANGED output
     ELSE /\ output' = [output EXCEPT ![p] =
               [g \in Below(params.size) |-> Xor(@[g], ExpandedBit(p, g))]]
          /\ To(p, "expanded")
  /\ UNCHANGED <<params, frees, seed, matrices, samples, results>>

Stop ==
  /\ \/ \A p \in Parties : stage[p] \in {"expanded", "failed"}
     \/ At("receiver", "failed")
  /\ UNCHANGED vars

Next ==
  \/ \E p \in Parties : init(p) \/ clear(p) \/ finalize(p) \/ expand(p)
  \/ PrepareSender \/ PrepareReceiver
  \/ EqualityTest \/ InnerProducts \/ SharePprfs
  \/ Stop

Spec == Init /\ [][Next]_vars
-----------------------------------------------------------------------------
\* Base::inputs
inputs(p) ==
  [g \in Below(available) |->
     Xor(InnerProduct(p, g, s[p]), Bit(\E i \in Blocks : g = ErrorIndex(p, i)))]

\* Every value that a party decrypts is hidden by a mask that its peer uses for
\* nothing else that the party decrypts: it learns nothing of the peer's errors.
OneTimeMasks ==
  \A p \in Parties : decrypted[p] # <<>> =>
    \A i \in Blocks : \E mask \in decrypted[p][i] :
      /\ {mask} \in {RandomMask(Other(p), j) : j \in Blocks}
      /\ \A j \in Blocks \ {i} : mask \notin decrypted[p][j]

\* Once both have finalized, and before either expands, their outputs are shares
\* of what the errors contribute to the product of the inputs: at each party's
\* error the inner product of its row with the peer's vector, and 1 where the
\* errors meet.  The masks, the images and the shares of the test all cancel.
ErrorTerms ==
  (\A p \in Parties : At(p, "finalized")) =>
    \A g \in Below(available) :
      LET i == g \div blockSize
          hit == [p \in Parties |-> g = ErrorIndex(p, i)]
          cross(p) == IF hit[p] THEN InnerProduct(p, g, s[Other(p)]) ELSE Zero
      IN  Xor(output["sender"][g], output["receiver"][g]) =
            Xor(Xor(cross("sender"), cross("receiver")), Bit(\A p \in Parties : hit[p]))

\* (a & b) == (c0 ^ c1), the comparison of runBoth() and of test/test_pcg.cxx:
\* the outputs are shares of the products of the inputs.
OutputsCorrelated ==
  \A g \in Below(params.size) :
    Xor(output["sender"][g], output["receiver"][g]) =
      And(inputs("sender")[g], inputs("receiver")[g])

BothExpanded == \A p \in Parties : At(p, "expanded")

\* The product of two bits one of which is a constant, as each of the receiver is.
Product(a, b) == IF b \in {Zero, One} THEN And(a, b) ELSE And(b, a)

\* The two have an ideal oblivious linear evaluation: a party's inputs are settled
\* when it has prepared, and what it has expanded is its share of the products, in
\* any order of the local steps, with the matrices freed and made anew or not, and
\* for fewer correlations than samples.  For more, it gets none.
Ideal == INSTANCE Ole WITH
  input <- [p \in Parties |-> IF s[p] = <<>> THEN <<>> ELSE inputs(p)],
  share <- [p \in Parties |-> IF At(p, "expanded") THEN output[p] ELSE <<>>]

ImplementsOle == Ideal!Spec

\* run() of main.cxx reports success: then the outputs are correlated.  The
\* parameters have the "public seed" of each matrix.
SuccessMeansCorrelated == BothExpanded => OutputsCorrelated
=============================================================================
