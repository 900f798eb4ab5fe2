# Verification of f2-ole-pcg

TLA+ models, model-checking runs and machine-checked proofs for the program in
`src/`: a pseudorandom correlation generator (PCG) for OLE over F2, run between
two parties over TCP. The PCG lets a *sender* and a *receiver* end with inputs
`a` and `b` and outputs `c0` and `c1` such that `a & b == c0 ^ c1` at every
position, with far less communication than there are positions.

Paths below are relative to the repository root.

## 1. The system

| Component | Code | State | Operations |
|---|---|---|---|
| ROT transfers | `src/pkg/rot.cxx` | cursor `first`/`last` into a shared vector of random OTs, on each side | `Sender::transfer` (2 overloads), `Receiver::transfer` (3), `get` |
| ROT pool ownership | `include/pkg/rot.hpp`, `src/pkg/rot.cxx` | the vector, and one cursor for each object over it | `run`, `reserve`, `get`, `remaining`; copies share their cursor |
| TCP channel | `include/util/defines.hpp` | two connections, one for each direction; how long `join` has waited | constructor, `join`, `read`, `write` |
| Protocol run | `src/cmd/main.cxx` | role, channel, pools, PCG | `run`, `runBoth` |
| PCG core | `src/pkg/pcg.cxx` | `s`, `e`, `epsilon`, matrices, masks, encrypted and decrypted values, shares `eoe`, functions `eXas_eoe`, `eXas`, `eXs` | `init`, `prepare`, `online`, `clear`, `finalize`, `expand`, `inputs`, `numOTs` |
| Equality test | `src/pkg/eqtest.cxx` | masks of every round and of the product, OTs | `numOTs`, `init`, `sizeReduction`, `productSharing`, `run` |
| Punctured PRFs | `src/pkg/pprf.cxx` | GGM levels, image, or keys and point | constructors, `send`, `receive`, `expand` |
| Homomorphic encryption | `src/ahe/ahe.cxx` | secret key, seeds of the first halves, table of zeros | `encrypt`, `send`, `receive`, `add`, `decrypt` |
| LPN matrices | `src/pkg/lpn.cxx` | points of the sparse rows, dense rows | constructors, in threads; products with a vector and with each other |
| Parallel loops | `src/util/concurrency.cxx`, `include/util/concurrency.hpp` | threads of one call | `MULTI_TASK`, `TASK_REDUCE` |
| Transpose | `src/util/transpose.cxx` | rows dealt into chunks, output rows shared by the threads | `transpose`, `sse_trans` |
| Bit strings, ECC | `src/util/bitstring.cxx` | bytes and a size in bits | numbers, slices, concatenation, algebra, comparison, `resize`, `sample`, `aes`; encoding |
| Randomness | `src/util/random.cxx` | keys, tables | two PRFs, samplers |
| libOTe | not in `src/` | | fills the pools |

### How they interact

`main.cxx` makes one `TCP` and two pools of random OTs, one for each direction
in which OTs go (`sender`→`receiver` and back). Everything shares that one
channel, which has **no message frames**: both parties derive each length from
public parameters. Nothing but *the order of the calls* ties a random OT of one
party to its other half at the peer. `PCG::prepare` runs the encryption and the
offline part of two equality tests; `online` exchanges vectors of ciphertexts,
runs the test, computes homomorphic inner products, and shares three families
of punctured PRFs; `clear` gives the matrices back between `online` and
`finalize`; `finalize` and `expand` are local. Local loops run in threads.

### What is hard here, and what makes each part correct

* **ROT**: swap bits, pads and layouts of five overloads have to fit: the
  receiver gets exactly the message it chose (`ChosenMessage`), the cursors stay
  together (`PoolsAligned`), running out is noticed by both before any byte of
  the call (`BothStop`); altogether, an ideal OT (`ImplementsIdeal`).
* **Pool ownership**: `reserve` splits a shared vector for threads; no OT is
  ever handed out twice, lost, or paired with another (`NoReuse`, `Disjoint`,
  `Accounted`, `Mirrored`).
* **Channel and protocol run**: unframed streams stay aligned although kernel
  buffers are smaller than the messages (`FramesAligned`), nothing blocks
  (`BothStop`), the counts of OTs computed in advance are exact
  (`NothingLeftOver`, `NoException`), the order of the takes pairs the right
  halves (`SameOTs`), and a crash, at whatever point from before the start of
  the process to its end, stops the peer, which never ends normally without
  having heard everything (`ClosedHeardAll`). Two exceptions are the code's own:
  a party in the `accept` of `join()`, or in the `asioConnect` of the `run()` that
  fills the pools, is not told that its peer died before it got there.
* **Equality test**: numbers modulo `size + 1`, sent in `ceil(log2(size + 1))`
  bits, subtracted as unsigned (`ReductionMasks`, `EqualityKept`), a product
  opened into cross terms for a whole batch (`OutputShares`), and rounds that
  have to come out at the threshold (`ThresholdMet`).
* **PPRF**: domains that are no power of two, batches cut out of one transfer,
  the last level (`Punctured`); the path stays unknown (`PathHidden`).
* **Encryption**: sums of noise stay inside the table and far from one half of
  the group (`NoiseBounded`, `Decrypts`), and both halves of a ciphertext carry
  the same hashes although only one half travels (`Decrypts`).
* **PCG**: masks, images and shares cancel (`ErrorTerms`) and each mask is used
  once (`OneTimeMasks`); altogether, an ideal OLE (`ImplementsOle`).
* **LPN matrices**: they are never sent. Parties, and one party a second time,
  make the same ones from a key, whatever their threads do (`SameMatrices`), of
  the weight that was asked for (`RowsProper`), in loops that end (`AllMade`);
  a product that is never stored is right (`Associative`).
* **Parallel loops and transpose**: threads write to apart memory, down to the
  byte (`NoRace`), all is done when the call returns (`AllDone`, `Ends`), in
  order (`InOrder`), with no range that ends before it starts
  (`NeverReversed`), and the bits of 4T chunks come to their places through the
  three kinds of blocks of `sse_trans` (`Transposed`).
* **Bit strings**: bits of the last byte behind the end are kept and combined;
  they must never show (`SpareBitsHidden`) nor decide a comparison of what the
  sampler compares (`OrderAgrees`). The code corrects an error per codeword
  (`OneErrorCorrected`).

The complete list of hazards, with the line where each bites and the properties
that cover it, or the reason why none does, is in `PROJECT.json`.

## 2. The modules

| Module | Models | State and actions against the code |
|---|---|---|
| `Gf2` | exclusive or and conjunction of bits | A bit is the set of unknowns it is the sum of; a product of two unknowns is an unknown of its own. An equality that holds here holds for all values. |
| `ObliviousTransfer` | what a pair of pools promises | abstract: a call delivers the chosen messages, or is refused for want of OTs |
| `Rot` | `transfer` of both parties with the channel | `ReceiverAsk` is the code to `channel->write`, `ReceiverOpen` from `channel->read`; `SenderTransfer` is the sender's whole call; `…OutOfOTs` are the exceptions. Composes with `ObliviousTransfer` by the refinement mapping `Ideal`. |
| `RotPool` | `run`, `reserve`, `get`, `transfer` on the shared vector | one main object and the objects reserved from it, used by threads in any order |
| `Tcp` | `include/util/defines.hpp` | `link[p]` is the state of the party's constructor and `join`; `stream[p]` what it wrote and the peer has not read, at most `Cap` items (the socket buffers); a refused connect and the blocking `accept` are actions |
| `Ole` | what a PCG for OLE promises | abstract: a party gets its random string, then its share of the products; each is final |
| `Session` | the whole protocol, message by message | extends `Tcp`. `script(p)` is the sequence of reads, writes, OT takes and checks that `run()` performs, from the code of every component for the given parameters; the actions execute it a byte at a time. A `run()` of the OT extension is two joint steps, `RotConnect` and `RotRun`: the connection that it opens first has no timeout. `Crash` ends a party at any point: not started, in the join, before, in or behind a `run()`, in the protocol. |
| `EqTest` | the equality test with its data | a round of the loops of both sides is one action: `Session` shows that their messages meet, `Rot` that an OT delivers just the choice |
| `Pprf` | construction, `send`, `receive`, `expand` | seeds and their PRNG outputs are free unknowns |
| `Ahe` | encryption, addition, exchange, decryption | a group element is its exponent; what hides it is a vector of hash counts. `Noise` is all that the sampler can return, from its weights by its cutoffs and its loop |
| `Pcg` | `init` to `expand` for both parties | composed of ideal parts: the test gives shares of equality, decryption gives the masked product, a punctured PRF differs at its point (shown by `EqTest`, `Ahe`, `Pprf`). All of the composition's own indices, masks, cuts, order and exceptions are there. Composes with `Ole` by the refinement mapping `Ideal`: a party's inputs are there from `prepare`, its share from `expand`. |
| `Random` | the PRFs of `random.cxx` | no state: what the code makes of the input and output of AES, which is a function drawn as it is asked. Words are numbers below `WORDS`, bits of a block unknowns. |
| `Lpn` | the matrices | extends `Random`. `at[b][t]` is where a thread of construction `b` is in its nested loops, with the counter of the rejection sampling; `DrawPoint` is one evaluation of AES and what the loops make of it. All constructions share `aes`. |
| `Concurrency` | `MULTI_TASK`, `TASK_REDUCE` | the caller starts a thread for each range and joins them in order |
| `Transpose` | `transpose()` | extends `Concurrency`: `Deal` is the caller's loop, `CallReturned` goes from the first parallel call to the second, `Worker` is a thread of `Concurrency` with what its lambda does to memory. A bit is named by the PPRF, leaf and column that it comes from. |
| `BitString` | the class and `ECC` | a string is the function of the bits of its bytes, and its size; an action for each mutating call, operators for those that return a value |
| `MC…` | instances for TLC | sets of parameters only |
| `Induction` | nothing: lemmas for the proofs | induction on numbers, running totals, division, powers of two, least and largest numbers, sequences laid end to end |
| `FoldFacts` | nothing: lemmas for the proofs | the equations of the folds of the community modules |
| `RotProofs`, `SessionProofs`, `EqTestProofs`, `AheProofs`, `PcgProofs`, `ConcurrencyProofs` | proofs | each extends the module it is named for; beside it `ConcurrencyProofs` extends `Transpose`, `RotProofs` `RotPool` (with the specification `PoolSpec`), `PcgProofs` the parts `Pprf` (`PprfSpec`) and `Lpn` (`LpnSpec`), and `AheProofs` the other class of local arithmetic, `BitString` (`BitStringSpec`); see section 4 |

Definitions named `Faulty…` are seeded faults: what the definition of that name
without the prefix would be after a plausible slip. Nothing uses them; with one
in place of its original a property fails. `PROJECT.json` ("mutants") names for
every property of a passing run one that it detects.

Data are abstracted as follows. Random values are unknowns or, where arithmetic
matters, members of small sets. In the protocols, padding to whole bytes is the
same on both sides and left out; what it does to a string is the subject of
`BitString`. Sizes are scaled down: an OT block has 2 bits (`ElementSize`), the
curve a group of a few dozen elements, a block 2 to 8 positions, a byte 2 bits
(`Byte`), a word 3 values (`WORDS`), a block of AES 2 bits (`BlockBits`).

## 3. The runs

`tlc -config X.cfg M` for each row; all end within about a minute. The invariants
and action properties of the passing runs are also proved, for all values of the
constants (section 4); liveness is checked here alone.

| Run | Question | Bounds, and why they are enough |
|---|---|---|
| `Rot` | Does each overload deliver the choice, and do two pools and a stream implement ideal OTs? | 4 OTs, plans of two calls of 1 to 3 transfers: calls that fit exactly, that leave some over, and that run out in the second; widths below, at and above a block; all choices and random bits. Nothing depends on a call but the cursors, and the second call has every value of them that matters. |
| `RotPool` | Is any OT handed out twice, lost or wrongly paired? | `run(4)`, then every order of up to 3 calls, two workers; the ranges and the failing calls of all kinds occur. |
| `Session` | Does the protocol run to its end, in all interleavings of join and protocol, with a crash of one party at any point? | Four suited parameter sets: no round of size reduction and one; one and several tests and trees; domains that are and are not powers of two. Two that are not: an equality test that is shorter than its threshold, and a dual block of one position. Buffers of 3 items are smaller than most messages, so writers block. One crash: a second one would leave nobody to observe. |
| `EqTest` | Are the outputs shares of equality, and for which thresholds do the rounds meet it? | lengths 1 to 9, thresholds 2, 3 and 5, one test and two, none to two rounds, sizes that are and are not `2^i - 1`; for the numbers drawn, cyclic vectors let each position meet both bits and both ends of the range. |
| `Pprf` | Does the receiver expand the image but for its point? | every domain to 8 with every point, and pairs of trees for domains to 5, both kinds of function. |
| `Ahe` | Is the masked inner product decrypted? | rows of 3 out of 4 ciphertexts, every noise with tail 2 (weights that add up to less, and to more, than the samples), in the smallest group that the assumption allows. |
| `Pcg` | Do the two implement an ideal OLE, in both drivers? | seven parameter sets: one and several blocks; fewer correlations than samples, a block fewer, and more than there are; blocks of 3, 7 rows cut from a block of 8; dual blocks reaching behind the last column; every error position of both parties. The vectors `s` are unknowns, so they stand for all values. |
| `Lpn` | Do two constructions from a key agree and end, whatever the schedule and the words? | Two constructions of one, two or three threads; rows with some and with all columns; one rejected word and one repeated column, anywhere, in every construction (`rejects`, `repeats`); H narrower than a block of AES, as wide and wider. A second rejection would only repeat the counter's step. |
| `Concurrency` | Do ranges cover the items once, in order, and is the transpose the transpose? | Calls: 1 to 4 threads with counts below, at and above each boundary, including `8 * T`, and 11 threads with 89 and 100 items, the last count with a reversed range and one without. Transposes: 1 to 3 threads, chunks of one, two, three and five bytes of rows, odd and even bytes of columns, which reach all three kinds of blocks; PPRF domains that do and do not divide `N`; and every kind of parameters that does not fit. |
| `BitString` | Do the bits behind the end ever show? | Two strings of up to two bytes of 2 bits: sizes that fill their bytes and do not, every value, every sequence of calls. Two bytes are enough for an order of bytes and for a byte that is full beside one that is not. |
| `PcgTwoProcesses`, `PrfFills` | see Findings | each the smallest instance that shows it |

Deadlock is checked in every run: an explicit `Stop` step is enabled only in the
states in which the code has returned or thrown, or, in `Session`, is left in
`accept` or in `asioConnect` by a peer that died. `BitString` has a call for every state and no end. In `Pcg` `Stop` includes the state
in which the receiver has thrown in `prepare` and the sender waits; in a program
of two processes the sender would read the end of the stream, which `Session`
shows.

**Fairness.** `Rot` and `Session` assume weak fairness of each party's next
step, no more than that the operating system runs a process or thread that is
not blocked; `Session` adds the two joint steps in which the external protocol connects and
fills the pools, which both parties are then waiting in. `Transpose` and `Concurrency`
assume that the caller and the threads it has started get to run, `Lpn` that
each construction does. AES rejects or repeats for a bounded number of times in
`Lpn`: that it is not unlucky for ever is no matter of scheduling, and the bound
is in the parameters, not in the fairness. Nothing is assumed of crashes, and a
crash never has to happen. Modules without liveness properties assume no
fairness.

### Findings

Two runs check what a comment of the repository says, and fail:

* **`PcgTwoProcesses`** (`src/cmd/main.cxx:239`): each process samples the
  "public" seeds of the matrices on its own, so with `--send` and `--recv` both
  report success with outputs that are not correlated. `--both` is unaffected.
* **`PrfFills`** (`src/util/random.cxx:117`): the loop that copies the blocks of
  a pseudorandom string never advances its pointer. Only the last block of AES
  is left, in front, and the rest is zero: of H, "a random matrix", all columns
  from the 128th on are zero. The correlation is unaffected, being linear.

Passing properties state the exact extent of four more behaviours that are not
what a reader of the code would expect:

* `BothStop` of `Session` (`include/util/defines.hpp:48`): the timeout of
  `join()` is counted only when a connect is refused; between two attempts it
  blocks in `acceptor.accept`. A party whose peer never starts, or dies before
  it connects, waits for ever (`LeftWaiting`) and "failed to connect to host" is
  never said. And the `asioConnect` with which each `run()` of the OT extension
  begins (`src/pkg/rot.cxx:25` accepts, `src/pkg/rot.cxx:52` tries again and
  again) has no timeout at all: a peer that dies behind the join and before this
  connection leaves the other there for ever (`LeftAtRot`). These are the only
  two ways in which a crash leaves the other party.
* `ThresholdMet` of `EqTest` (`src/pkg/eqtest.cxx:85`): the comment at line 86
  knows of "a bug that occurs when the reduced length != threshold", with length
  8 and threshold 5. The rounds stop at the first size not above the threshold;
  below it the code throws. With the constant threshold 3 of
  `include/util/params.hpp` this concerns blocks of at most four positions only.
  `NoException` of `Session` has the other side of it: both parties then throw,
  and so does the receiver for a dual block of one position
  (`src/pkg/pprf.cxx:182`), and nobody ends normally.
* `NeverReversed` of `Concurrency` (`include/util/concurrency.hpp:34`): with 11
  threads and 89 items the last range starts at 90 and ends at 89, and callers
  make a bit string of `end - start` of it. It takes fewer than `(T - 1)^2`
  items.
* `Transposed` and `Ends` of `Concurrency` (`src/util/transpose.cxx:92`): the
  chunks are right when `8 * 4T` divides the rows; otherwise an index behind the
  last chunk, a division by zero, or half a byte. The powers of two of
  `main.cxx` fit when the number of threads is one, too.

And three remarks. A `resize` to more bits shows what was behind the end; the code
grows strings only from whole bytes or from nothing. `BitString::sample`, for
sizes above 8 that are no multiple of 8, returns bytes of which the last is not
the one with the bits that vary (`Sampled`): the comment at
`src/util/bitstring.cxx:327` has the symptom. And the weights of
`src/util/gauss.config` do not add up to 2^80: those of a zero come to 0.988 of
it, so one noise in 83 lies behind the last cutoff and is the end of the tail;
those of a one come to more, are cut off, and no noise has an observation above
83 but for a single sample. `NoiseBounded` and `Decrypts` hold all the same, for
any weights; the instance of `Ahe` has a sum of either kind.

## 4. The proofs

Checked by `tlapm`, for every value of the constants that meets the named
assumptions. These are in the modules that declare the constants, and TLC
evaluates them on the instances.

**How data are handled.** The loops of the code are sums, concatenations and
recursive functions in the models. What they compute for every input needs
induction, and the theorems of the prover's library take the formula that is to
be proved as an operator, which the provers cannot be given. `Induction` states
induction about *sets of numbers* instead: a proof defines the set of the `i` for
which its claim holds and shows that it has 0 and the successors of its members.
`FoldFacts` does the same for the folds of the community modules, for one
operator, base and order of choice, and a proof instantiates it for each sum it
needs (`Adding`, `Xoring`, `Joined`, `Dealing`, `Summing`). That a recursive function on
numbers has the equations of its definition is proved in the same way, from
finite approximations.

**`RotProofs`**, of `RotPool`, assumes what `main.cxx` and the callers do: `run()` is the
first call on an object, and each `reserve()` makes a new one
(`ProgramsAssumption`), distinct from the main object (`MainAssumption`). That no
OT is handed out twice (`NeverReused`) is not inductive: it needs that what lies
ahead of each cursor has not been handed out and lies ahead of no other. The
invariant is

    Inv == TypeOK /\ Ordered /\ Fresh /\ Disjoint /\ NoReuse

where `Ordered` says that `remaining` never underflows and `Fresh` that a
process has no OTs before its first call, for `run()` to be entitled to make the
main object the owner of all. `NoReuse` itself follows from the disjointness at
the step that takes. `NothingLost` (`Accounted`) adds that an object is empty
until it is reserved (`Unreserved`) and that each position is spent or held: an
object reserved into twice would drop what it had. `PartiesMirrored`
(`Mirrored`) relates two processes that never communicate: the invariant
`Follows` says that the cursors of each are running totals of its program
alone, whatever its threads did, so that equal programs give equal positions.

**`RotProofs`**, of `Rot`, assumes of a call that it has one of the three forms with the
widths that the form allows (`ShapesAssumption`), for pools and plans of any
size. `RightMessage` (`ChosenMessage`) and `CursorsTogether` (`PoolsAligned`)
rest on

    RotInv == TypesOK /\ DeliveredOK /\ (Aligned \/ Asked \/ Answered)

the three places where the two parties can be with respect to the channel: no
call is under way, the swap bits are written, the pads are written. An empty
call has no messages, so one party may be any number of calls of no transfers
ahead of the other (`NoTransfers`); a simpler invariant, that the receiver is at
most one call ahead, is false. The arithmetic is where the receiver looks for
its message: in each layout the offset that it computes is the length of all
that the sender wrote before. `ImplementsIdealSteps` is the refinement of
`ObliviousTransfer` without fairness: initial states map to initial states, and
each step to a call, a refusal, or a stutter.

**`SessionProofs`** assumes positive numbers of trees, blocks and rows, blocks of
more than one position, thresholds of at least two, and at most one crash
(`SessionAssumption`); sizes of buffers, widths, parameters and interleavings
are arbitrary. For some of these parameters the code throws: `Suited` are those
whose equality test is not reduced below its threshold (`src/pkg/eqtest.cxx:92`)
and whose dual blocks have several positions (`src/pkg/pprf.cxx:182`). The
scripts have both conditions (`Ensure`), and `NothingThrown` says that nothing is
thrown where they hold, and that no party ends normally where they do not. The
module is in two halves.

The first is about the scripts alone, and is the induction over the loops of all
components. `ScriptsFit`: the two scripts of every choice of parameters have one
length and are `Woven`. Outside the transfers, a place of the one that writes is a
place of the other that reads the same number of bytes under the same tag, or
both look at a condition, which throws only where the parameters are not suited;
where a transfer is, the
four operations of its sender (check, read, get, write) stand beside those of its
receiver (check, get, write, read); a party checks for as many OTs as its peer
does; and what is filled into each pool is what is taken from it in all
(`CheckedFits`, `TakesFollow`). Each component gives a pair of pieces that fit,
and pieces laid one behind the other fit again.

The second is about the steps. The invariant is

    IInv == Typed /\ Together /\ Quiet /\ \A p : Joint(p) /\ Standing(p) /\ Flowing(p)

`Joint` is what the join of a party says of its peer, `Together` that the pools
are filled by both at once, `Standing` that a pool holds what was filled less
what the script has taken up to the place of the party and that no condition on
the way there threw (`Unbarred`), `Quiet` that with suited parameters nobody fails
without a crash, `Flowing` that the
stream is the part of what the one has written that the other has not read, byte
by byte (`Carried`), up to the loss of what is written to a peer that is gone.
So the state is determined by the places of the two parties, and each property
is one about the scripts: `StreamsAligned` (`FramesAligned`) because the next
byte is of the message at the same place (`ReadMeetsWrite`), `NothingThrown`
(`NoException`) because the checks count what is left and, for the parameters
that are not suited, because Bob has a message to write behind the condition that
throws, which Alice would have to read (`Barred`, `NoneEnds`), `AllUsedUp`
(`NothingLeftOver`) and `AllIsHeard` (`ClosedHeardAll`) because the totals are
equal at the end, `OTsPaired` (`SameOTs`) because the receiver of a transfer,
which takes first, cannot go on before the sender has answered, and the sender
not take before the receiver has asked.

**`EqTestProofs`** assumes lengths of at least one, thresholds of at least two,
inputs of the length, and that what is drawn has the range it is drawn for. The
invariant is that there are sizes `F` of the rounds with

    InvF(F) == TypesOK /\ Sizes(F) /\ MasksInv(F) /\ SharesInv(F) /\ PhaseInv(F) /\ EqualityKept

It says of each *prepared* round, run or not, that the masks of its two sides add
up, position by position and modulo its size plus one, to the exclusive or of the
bits they were drawn for: `prepare` and `run` are far apart, and the loop of the
one has to find what the loop of the other left. `MasksFit` (`ReductionMasks`)
follows from `MasksInv`. `RoundsKeepEquality` (`EqualityKept`) rests on
three facts: that a masked number survives `ceil(log2(size + 1))` bits of message,
that two sums of bits differ modulo `size + 1` when the bits do, and that the
unsigned subtraction wraps to the right class. `ThresholdReached`
(`ThresholdMet`) follows from `CeilLog2` passing over neither 2 nor 3.
`AnswersShared` (`OutputShares`) needs `CrossInv`, the same for the cross terms
of the product, and one fact about the loop over the `2^threshold` subsets of
the bits (`SubsetsOdd`): the number of subsets for which one share is 0 inside
and the other 1 outside is odd just when the shares are equal, by induction on
the lowest bit of the subset's number.

**`AheProofs`** assumes that the row is no longer than the secret and
`half >= 2 * (tail * (l + 1) + 1)`: the order of the group is at least about
four times the radius of the table, which a group of 256 bits meets by far.
`DecryptsRight` states that the masked inner product is decrypted, for every
secret, row, weights of the noise and mask; `NoiseIsBounded` is the bound it
rests on. The invariant is

    IInv == TypeOK /\ Fresh /\ Arrived /\ Adding /\ Masked /\ Answered /\ Decrypts

one conjunct for each phase: the ciphertexts are near their bits, arrive
unchanged with the hashes recomputed, a sum of `m` is within `m` times the tail
of the bit it stands for with the hash counts of both halves equal, and the mask
adds one at most. The arithmetic is in three lemmas about points of the group
(a sum of points adds the bits and the errors up to a carry; a point is in the
table just when its bit is 0).

**`PcgProofs`** assumes what the constructors of `PCGParams` and `PCG` demand:
positive sizes, blocks of one size, rows of the primal matrix that are not empty
and within their columns. The matrices, the seeds and the errors are arbitrary.
The invariant is

    PcgInv == TypesOK /\ (Apart \/ Comparing \/ Multiplying \/ OnTheirOwn)

The parties prepare each on its own, go through the exchanges together, and are
on their own again; each disjunct says what the vectors are in its stages
(`Compared`, `Multiplied`, `Shared`, `Output`), in terms of what was sampled.
That nothing sampled is replaced once the exchanges have begun is what
`StagesCorrect` adds to the properties. A sum is characterised by *parity*: an
unknown is in it if it is in an odd number of the terms (`XorOverIs`).
`MasksUsedOnce` (`OneTimeMasks`) follows because no mask is in an inner product
and a mask's name has the position of its block. `TermsShared` (`ErrorTerms`)
is the cancellation of masks, images and equality shares at each position
(`Cancelled`). `OleImplemented` (`ImplementsOle`) is the whole refinement of
`Ole`, which has no fairness: a party's `prepare` is the ideal's choice of
inputs, its `expand` the ideal's output, and every other step a stutter. Its
algebra is that what a party adds when it expands is the product of the two
random parts, that is, the associativity of `A * (H * x)`: counting the pairs of a
relation from either side gives the same parity (`OddBothWays`). It has the
hypothesis `SharedSeed`, which `--both` provides and, by the run
`PcgTwoProcesses`, two processes do not; with it, `CorrelatedWithOneSeed` states
the very property that this run violates. No other theorem of the module needs
the hypothesis.

**`PcgProofs`, of `Pprf`**: what `Pcg` takes for granted of a punctured function,
for every domain (of two positions at least for a `BitPPRF`), number of trees and
point (`PprfAssumption`). The invariant

    PprfInv == /\ pprfs \in PprfChoices
               /\ image = [i \in Trees |-> SenderImage(i)]
               /\ DOMAIN punctured = Trees
               /\ phase = "shared" => depth > 0 /\ \A i \in Trees : ExactKeys(i, keys[i])
               /\ \A i \in Trees : punctured[i] # <<>> => PuncturedAs(i, punctured[i])

says that the receiver holds, of each pair of messages of each tree, just the one
that its point selects (`ExactKeys`); what makes this long is that `send` and
`receive` make one batch of all trees and cut it up again (`InParts`).
`FunctionsPunctured` (`Punctured`) follows level by level: when the receiver's
level is the sender's but for the node on the path (`Without`), its two children
are missing in the next (`Halved`), and the key of the other side, which is the
sum of the nodes of that side, gives the sibling back. A domain that is no power
of two leaves nodes without children, and the level on which a `BitPPRF` ends is
unlike the others; both are cases of their own. `PathStaysHidden`
(`PathHidden`) is the other half: a key of a level is a sum of outputs that all
differ (`Outputs`), so none has a node of the path as a term, and the payload is in
the last message only together with the image at the point (`Covered`).

**`PcgProofs`, of `Lpn`**, assumes positive sizes and threads, rows of no more points
than columns, and a code longer than its dimension `k`, which is a word
(`LpnAssumption`); the answers of AES are any, drawn when they are asked for, with
any number of rejected words and repeated columns. A row that is being drawn is a record of
its points, the counter and the loop's places, and `After` is what one answer does
to it. The invariant

    LpnInv == /\ Shape
              /\ \A b \in Constructions, i \in Rows : Traced(b, i)
              /\ \A b \in Constructions, i \in Rows : GoodState(StateOf(b, i))
              /\ \A b \in Constructions : dense[b] = <<>> \/ (SparseDone(b) /\ dense[b] = DenseRows)

says that what a construction has of a row is reached by a `Trace` of `After`, in
which AES determines each step. Two traces of a row agree as far as both go and
stop at the same place, so rows are equal whatever thread made them and whatever
was drawn in between: `MatricesAgree` (`SameMatrices`). Threads do not meet
because each row has one `Owner`. `SparseRowsProper` (`RowsProper`) is
`GoodState`: the points of a row are different columns, fewer than `l`, or `l` in
the order that `std::sort` promises of any sequence; that there is such an order is
proved by taking the largest out. `ProductsAssociate` (`Associative`) holds of any
matrices: a bit of either product is the parity of the pairs of a column of the row
and a position of the vector, counted from the two sides (`PairsCounted`,
`OddBothWays`).

**`AheProofs`, of `BitString`**: bytes have any number of bits and strings any
length. The invariant

    BitStringInv == /\ string = [o \in Objects |-> string[o]]
                    /\ neat \in [Objects -> BOOLEAN]
                    /\ \A o \in Objects : IsString(string[o]) /\ (neat[o] => EndsBlank(string[o]))

has one lemma for each member of the class: it returns a string, and one with
nothing behind the end (`EndsBlank`) from operands of which that can be said. For
`aes` this is that the mask of the last byte is below `2^(Byte - spare)`
(`MaskSmall`), for `sample` that the number fits the bytes it is written to
(`BytesFit`). Numbers are sums over bits, and `NumberParts` cuts one in two at any
bit. From it follow what a slice is of a number (`NumberDivided`, `CutNumber`),
that a number has the bits it was made of (`NumberBit`), and that comparing bytes
from the last one down compares numbers (`OrderOfBytes`, by induction on the
bytes): `SpareBitsNeverShow` (`SpareBitsHidden`) and `OrderIsOfNumbers`
(`OrderAgrees`). `ErrorsCorrected` (`OneErrorCorrected`) places each bit in its
codeword (`EncodeBit`) and then has four bits and four errors to look at
(`CodewordDecoded`).

**`ConcurrencyProofs`** assumes of calls only that they have at least one thread
(`ConcurrencyAssumption`), and of transposes what `TransposeAssumption` names.

    CallInv == CallOK /\ CallerInv /\ ThreadInv /\ WorkInv /\ ReturnInv

says which threads have been started, have ended and were joined, and that just
the items of those that ended have been worked on once. `LoopsDone` (`AllDone`)
and `ResultsInOrder` (`InOrder`) follow because the ranges of `ceil(n / T)` items
cut the items into parts, in order; `ReversedOnlyIfFew` (`NeverReversed`) from
`n < t * C` for a range that is reversed and `T * C < n + T`. The transpose uses
this invariant for each of its two parallel calls:

    TransposeInv == JobInv /\ CallInv /\ ChunksInv /\ DealInv /\ ResizeInv /\ FillInv /\ Transposed

`ChunksInv` says that the caller's loop has dealt the leaves to chunks of equal
size in their order, `FillInv` that the chunks of the threads that have ended are
in place in every row. `TransposeCorrect` and `ThreadsApart` state `Transposed`
and `NoRace` for any number of threads, chunks and columns.

**Model-checked only**, and why:

* Liveness (`BothStop`, `Ends`, `AllMade`) and, with it, the fairness in
  `ImplementsIdeal` of `Rot`: the prover does not reason about fairness and
  `ENABLED`.

## 5. What is not modelled

* Within a block of `sse_trans`, the SSE instructions: a block is taken to be
  transposed. In `Pcg` the transposed matrix is given (`Transposed` shows it).
* In `Pcg` the rows of the matrices are constants, for which the correlation
  holds whatever they are (`Lpn` shows that the parties' are equal).
* Of the Gaussian sampler, the parsing of `gauss.config`: its weights are
  constants of `Ahe`, where a sample is compared as a number (`OrderAgrees`
  shows that bit strings compare so). The samplers of OpenSSL and AES are
  external; nothing calls `sampleDistinct`.
* `BitString`'s conversions to text, `tensor` and `expand` to bytes: debugging
  and tests.
* libOTe: external; `run()` is two joint steps, a connection and what fills the
  pools. It fails only when the peer is gone.
* The exceptions of `init()` and `prepare()` in `Session`: they come before `run()`
  and count as a crash there; `Pcg` has those of `prepare()`.
* The divisions as `float` in `blocks()` (`include/util/params.hpp:114`) and in
  the dual `blockSize()` (line 70): the model has exact ceilings, from which these
  may differ for sizes above `2^24`. `main.cxx` divides only powers of two in the
  first; in the second it divides by any `--td`.
* The traffic counters (uninitialised at
  `src/cmd/main.cxx:41` and in `TCP`, but only printed); timers; option parsing.
* In `Pcg` the equality test is ideal at every block size, although the code
  rejects blocks of at most four positions (`ThresholdMet`). The scaled-down
  blocks of 2 and 3 are there for their boundaries; one parameter set has the
  smallest block that the code accepts.

## 6. Plan

All components are modelled but for what section 5 names, and every invariant and
action property that a run checks is proved, with the two refinements (that of
`ObliviousTransfer` without its fairness). What would come next:

* the random OT extension as a protocol of its own instead of one joint step, which
  needs the code of libOTe beside this one;
* the safety half of liveness: that some step is possible in every state in which a
  party of `Session` has not stopped, from `IInv` of `SessionProofs`, which has the
  places of the two parties and what is in the streams. The conclusion under
  fairness stays with TLC.
