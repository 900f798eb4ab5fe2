------------------------------- MODULE Random -------------------------------
(***************************************************************************)
(* The pseudorandom functions of src/util/random.cxx.  AES under one key   *)
(* is a function from blocks to words (for numbers) and from blocks to     *)
(* unknown bits of module Gf2 (for bit strings); what is modelled here is  *)
(* what the code makes of its inputs and its outputs.                      *)
(***************************************************************************)
EXTENDS Naturals, FiniteSets, Gf2

CONSTANTS
  WORDS,      \* UINT32_MAX + 1
  BlockBits   \* the bits of an AES block (128 in the code)

ASSUME RandomAssumption == WORDS \in Nat \ {0} /\ BlockBits \in Nat \ {0}

\* PRF<uint32_t>: words from `max_multiple` on are rejected.  It is a uint64_t,
\* for it is WORDS itself when max divides that.
MaxMultiple(max) == WORDS - (WORDS % max)

Accepts(w, max) == w < MaxMultiple(max)

\* The block that the pair (i, j) and the counter are written into, each in as
\* many bits as a word has.
InputBlock(i, j, counter) == <<i % WORDS, j % WORDS, counter % WORDS>>

\* PRF<BitString>: the counter mode block of x and number b, `x << 32` plus b.
CounterBlock(x, b) == (x * WORDS + b) % (WORDS * WORDS)

blocksFor(bits) == (bits + BlockBits - 1) \div BlockBits

\* The copy loop writes every block of the output to the same place, so that only
\* the last is left, in front, and the rest of the string is zero.
BitStringPRF(x, bits) ==
  [c \in 0..(bits - 1) |->
     IF c < BlockBits THEN {<<CounterBlock(x, blocksFor(bits) - 1), c>>} ELSE Zero]
=============================================================================
