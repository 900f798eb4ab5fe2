-------------------------------- MODULE Pprf -------------------------------
(***************************************************************************)
(* The punctured pseudorandom functions of src/pkg/pprf.cxx: GGM trees     *)
(* whose sender (PPRF::send, BitPPRF::send) gives the receiver the image   *)
(* at every point but one, and there the image masked with a payload.      *)
(*                                                                         *)
(* A bit string is symbolic (module Gf2): the set of the unknown strings   *)
(* it is the exclusive or of.  The PRNG of the code is free: the string    *)
(* with number b that it makes from seed v is the unknown <<v, b>>.  The   *)
(* transfer is the ideal OT that module Rot is shown to implement.         *)
(***************************************************************************)
EXTENDS Naturals, Sequences, SequencesExt, FiniteSets, Gf2

CONSTANT PprfChoices  \* [kind, domainsize, points]: one tree for each point

ASSUME PprfAssumption ==
  \A P \in PprfChoices :
    /\ P.kind \in {"PPRF", "BitPPRF"}
    /\ P.domainsize \in Nat \ {0}
    /\ P.kind = "BitPPRF" => P.domainsize > 1
    /\ P.points \in Seq(Nat)
    /\ \A i \in DOMAIN P.points : P.points[i] \in 0..(P.domainsize - 1)

VARIABLES
  pprfs,
  phase,     \* "sampled", "shared" or "error"
  image,     \* image[i]: of the i-th function at the sender
  keys,      \* keys[i]: what the receiver holds of it
  punctured  \* punctured[i]: the image that the receiver has expanded

pprfVars == <<pprfs, phase, image, keys, punctured>>

-----------------------------------------------------------------------------
CeilLog2(n) == CHOOSE d \in 0..n : 2^d >= n /\ (d = 0 \/ 2^(d - 1) < n)

depth == CeilLog2(pprfs.domainsize)
Trees == DOMAIN pprfs.points

\* Bit number l of x from the most significant one on: fromUInt(..).reverse().
Path(x) == [l \in 1..depth |-> (x \div 2^(depth - l)) % 2]

Hole == {<<0>>}           \* the empty BitString
Key(i) == {<<i>>}         \* the key sampled for the i-th tree
Prng(v, b) == {<<v, b>>}

\* The payload: one for all functions of a PPRF, one bit for each BitPPRF.
PayloadOf(i) == {<<IF pprfs.kind = "PPRF" THEN 100 ELSE 100 + i>>}

\* The xor of the nodes on side b, over those that are there.
SideXor(nodes, b) ==
  XorOver(nodes, {i \in DOMAIN nodes : i % 2 = b /\ nodes[i] # Hole})

\* Level l of the i-th tree.
Tree(i) ==
  LET level[l \in 0..depth] ==
        IF l = 0 THEN [p \in {0} |-> Key(i)]
        ELSE [p \in 0..(2^l - 1) |-> Prng(level[l - 1][p \div 2], p % 2)]
  IN  level

\* The output of a leaf of a PPRF, for the leaves inside the domain.
Leafs(nodes) ==
  [p \in DOMAIN nodes |->
     IF nodes[p] = Hole \/ p >= pprfs.domainsize THEN Hole ELSE Prng(nodes[p], 2)]

InDomain(nodes, n) == [p \in 0..(n - 1) |-> nodes[p]]

\* The constructors PPRF(key, ...) and BitPPRF(key, ...): image and levels.
SenderImage(i) ==
  InDomain(IF pprfs.kind = "PPRF" THEN Leafs(Tree(i)[depth]) ELSE Tree(i)[depth],
           pprfs.domainsize)

\* The pairs that the sender of the i-th tree puts into the transfer.  The last
\* pair of a BitPPRF holds two bits in each message.
Messages(i) ==
  LET level(l) == <<SideXor(Tree(i)[l], 0), SideXor(Tree(i)[l], 1)>>
      leafs == [b \in 0..1 |-> SideXor(Leafs(Tree(i)[depth]), b)]
      bits == level(depth)
  IN  IF pprfs.kind = "PPRF"
      THEN [l \in 1..depth |-> level(l)] \o
           << <<Xor(leafs[0], PayloadOf(i)), Xor(leafs[1], PayloadOf(i))>> >>
      ELSE [l \in 1..(depth - 1) |-> level(l)] \o
           << << <<bits[1], Xor(bits[2], PayloadOf(i))>>,
                 <<Xor(bits[1], PayloadOf(i)), bits[2]>> >> >>

\* The receiver's choices: the siblings of the path, then for a PPRF the other side.
FaultyOTChoices(x) ==
  IF pprfs.kind = "PPRF" THEN Path(x) \o <<1 - Last(Path(x))>> ELSE Path(x)

OTChoices(x) ==
  LET siblings == [l \in 1..depth |-> 1 - Path(x)[l]]
  IN  IF pprfs.kind = "PPRF" THEN siblings \o <<1 - Last(siblings)>> ELSE siblings

\* Messages of one tree in the transfer.
PerTree == IF pprfs.kind = "PPRF" THEN depth + 1 ELSE depth

\* The keys of the i-th tree among those of all trees.
KeysOf(allkeys, i) == SubSeq(allkeys, (i - 1) * PerTree + 1, i * PerTree)

\* expand(): level l from level l - 1, where the node on the path is missing.
FaultyGrow(nodes, key, bit) ==
  LET next == [p \in 0..(2 * Cardinality(DOMAIN nodes) - 1) |->
                 IF nodes[p \div 2] = Hole THEN Hole ELSE Prng(nodes[p \div 2], p % 2)]
      sibling == 2 * (CHOOSE p \in DOMAIN nodes : nodes[p] = Hole) + (1 - bit)
  IN  [next EXCEPT ![sibling] = Xor(key, SideXor(next, bit))]

Grow(nodes, key, bit) ==
  LET next == [p \in 0..(2 * Cardinality(DOMAIN nodes) - 1) |->
                 IF nodes[p \div 2] = Hole THEN Hole ELSE Prng(nodes[p \div 2], p % 2)]
      sibling == 2 * (CHOOSE p \in DOMAIN nodes : nodes[p] = Hole) + (1 - bit)
  IN  [next EXCEPT ![sibling] = Xor(key, SideXor(next, 1 - bit))]

\* The levels that are expanded with one key each, from the root on.
Branches(i, n) ==
  LET level[l \in 0..n] ==
        IF l = 0 THEN [p \in {0} |-> Hole]
        ELSE Grow(level[l - 1], keys[i][l], Path(pprfs.points[i])[l])
  IN  level[n]

\* PPRF::expand
ExpandedPprf(i) ==
  LET x == pprfs.points[i]
      leafs == Leafs(Branches(i, depth))
  IN  InDomain([leafs EXCEPT ![x] = Xor(keys[i][depth + 1], SideXor(leafs, x % 2))],
               pprfs.domainsize)

\* BitPPRF::expand, where the last key has the bits of both sides.  The
\* receiver's constructor takes the number of keys for the size of the domain.
ExpandedBitPprf(i) ==
  LET x == pprfs.points[i]
      nodes == Branches(i, depth - 1)
      last == [p \in 0..(2^depth - 1) |->
                 IF nodes[p \div 2] = Hole THEN Hole ELSE Prng(nodes[p \div 2], p % 2)]
      side(b) == Xor(keys[i][depth][b + 1], SideXor(last, b))
      sibling == IF x % 2 = 0 THEN x + 1 ELSE x - 1
  IN  [last EXCEPT ![sibling] = side(sibling % 2), ![x] = side(x % 2)]

-----------------------------------------------------------------------------
PprfInit ==
  /\ pprfs \in PprfChoices
  /\ phase = "sampled"
  /\ image = [i \in Trees |-> SenderImage(i)]
  /\ keys = [i \in Trees |-> <<>>]
  /\ punctured = [i \in Trees |-> <<>>]

\* send() and receive() around their transfer.
ShareKeys ==
  /\ phase = "sampled" /\ depth > 0
  /\ LET messages == FlattenSeq([i \in Trees |-> Messages(i)])
         choices == FlattenSeq([i \in Trees |-> OTChoices(pprfs.points[i])])
         allkeys == [q \in DOMAIN messages |-> messages[q][choices[q] + 1]]
     IN  keys' = [i \in Trees |-> KeysOf(allkeys, i)]
  /\ phase' = "shared"
  /\ UNCHANGED <<pprfs, image, punctured>>

\* With a domain of one point there are no siblings, and the receiver looks for
\* the last choice in an empty string.
ReceiveThrows ==
  /\ phase = "sampled" /\ depth = 0
  /\ phase' = "error"
  /\ UNCHANGED <<pprfs, image, keys, punctured>>

\* The receiver expands its functions in any order (MULTI_TASK in pcg.cxx).
Expand(i) ==
  /\ phase = "shared" /\ punctured[i] = <<>>
  /\ punctured' = [punctured EXCEPT ![i] =
       IF pprfs.kind = "PPRF" THEN ExpandedPprf(i) ELSE ExpandedBitPprf(i)]
  /\ UNCHANGED <<pprfs, phase, image, keys>>

PprfStop ==
  /\ phase = "error" \/ \A i \in Trees : punctured[i] # <<>>
  /\ UNCHANGED pprfVars

PprfNext == ShareKeys \/ ReceiveThrows \/ (\E i \in Trees : Expand(i)) \/ PprfStop

PprfSpec == PprfInit /\ [][PprfNext]_pprfVars

-----------------------------------------------------------------------------
\* What the two sides hold of each function is equal at every point but the
\* receiver's, and there differs by the payload: leaves outside a domain that is
\* no power of two, batches of trees and the order of the expansion included.
Punctured ==
  \A i \in Trees : punctured[i] # <<>> =>
    \A x \in 0..(pprfs.domainsize - 1) :
      punctured[i][x] = IF x = pprfs.points[i] THEN Xor(image[i][x], PayloadOf(i))
                                                ELSE image[i][x]

\* The nodes on the path to the receiver's point.
OnPath(i, l) == Tree(i)[l][pprfs.points[i] \div 2^(depth - l)]

\* The receiver is given nothing of the path to its point: no key it gets has a
\* node of the path in it, and the payload comes in no message without the
\* image at the point to hide it.
PathHidden ==
  phase = "shared" => \A i \in Trees :
    LET inner == SubSeq(keys[i], 1, PerTree - 1)
        last == IF pprfs.kind = "PPRF" THEN {Last(keys[i])} ELSE ToSet(Last(keys[i]))
        leaf == image[i][pprfs.points[i]]
    IN  /\ \A l \in DOMAIN inner : OnPath(i, l) \cap inner[l] = {}
        /\ \A v \in last : PayloadOf(i) \subseteq v <=> leaf \subseteq v
=============================================================================
