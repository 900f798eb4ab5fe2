-------------------------------- MODULE Lpn --------------------------------
(***************************************************************************)
(* The public matrices of src/pkg/lpn.cxx.  PCG::Base::init makes the      *)
(* sparse A and the dense H from their keys, in threads, at both parties,  *)
(* and once more in each after clear(): each of these is a construction.   *)
(* All constructions evaluate AES under the same keys, so they see the     *)
(* same function; it is drawn at random as it is asked.  The product B is  *)
(* never stored but computed row by row.                                   *)
(***************************************************************************)
EXTENDS Random, Sequences, SequencesExt, FiniteSetsExt, Functions

CONSTANTS
  Constructions,  \* constructions of the matrices from one pair of keys
  LpnChoices      \* [n, k, l, N, threads, rejects, repeats]: see LPN::PrimalParams
                  \* and DualParams; `rejects` and `repeats` bound the words of a run
                  \* that are rejected and the points drawn again for their row

ASSUME LpnAssumption ==
  \A P \in LpnChoices :
    /\ {P.n, P.k, P.l, P.N, P.threads} \subseteq Nat \ {0} /\ {P.rejects, P.repeats} \subseteq Nat
    /\ P.n > P.k /\ P.l <= P.k /\ P.k < WORDS

VARIABLES
  lpn,
  aes,      \* the words drawn so far, by the block they were asked for
  luck,     \* rejects and repeats still to come at most
  at,       \* at[b][t]: row, draw and counter of thread t in construction b
  points,   \* points[b][i]: the columns of row i of A, as b has them
  dense     \* dense[b]: the rows of H, empty before they are made

lpnVars == <<lpn, aes, luck, at, points, dense>>

-----------------------------------------------------------------------------
Rows == 0..(lpn.n - 1)
Chunk == (lpn.n + lpn.threads - 1) \div lpn.threads
SmallerOf(a, b) == IF a < b THEN a ELSE b

\* The threads of MULTI_TASK and the ends of their ranges (module Concurrency).
Threads == 0..(lpn.threads - 1)
End(t) == SmallerOf((t + 1) * Chunk, lpn.n)

LpnInit ==
  /\ lpn \in LpnChoices
  /\ aes = <<>>
  /\ luck = [rejects |-> lpn.rejects, repeats |-> lpn.repeats]
  /\ at = [b \in Constructions |-> [t \in Threads |-> [i |-> t * Chunk, j |-> 0, counter |-> 0]]]
  /\ points = [b \in Constructions |-> [i \in Rows |-> <<>>]]
  /\ dense = [b \in Constructions |-> <<>>]

Point(w) == w % lpn.k
Known(b, i) == ToSet(points[b][i])

\* The counter of the rejection sampling is local to a call of the PRF.
FaultyCounter(b, t) == MapThenSumSet(LAMBDA u : at[b][u].counter, Threads)
Counter(b, t) == at[b][t].counter

\* What AES may answer to thread t: what it has answered before, or a fresh word
\* that the bounds on bad luck allow.
Answers(b, t) ==
  LET block == InputBlock(at[b][t].i, at[b][t].j, Counter(b, t)) IN
  IF block \in DOMAIN aes THEN {aes[block]}
  ELSE {w \in 0..(WORDS - 1) :
         IF Accepts(w, lpn.k)
         THEN Point(w) \in Known(b, at[b][t].i) => luck.repeats > 0
         ELSE luck.rejects > 0}

Remember(block, w, repeated) ==
  IF block \in DOMAIN aes THEN UNCHANGED <<aes, luck>>
  ELSE /\ aes' = [x \in DOMAIN aes \cup {block} |-> IF x = block THEN w ELSE aes[x]]
       /\ luck' = IF ~Accepts(w, lpn.k) THEN [luck EXCEPT !.rejects = @ - 1]
                  ELSE IF repeated THEN [luck EXCEPT !.repeats = @ - 1] ELSE luck

\* Where the thread goes on: `j` counts the draws of a row, found or not.
FaultyNextDraw(here, repeated, full) ==
  IF full THEN [i |-> here.i + 1, j |-> 0, counter |-> 0]
  ELSE [here EXCEPT !.j = IF repeated THEN @ ELSE @ + 1, !.counter = 0]

NextDraw(here, repeated, full) ==
  IF full THEN [i |-> here.i + 1, j |-> 0, counter |-> 0]
  ELSE [here EXCEPT !.j = @ + 1, !.counter = 0]

\* A row that has its l points is sorted: what std::sort promises.
FaultyInOrder(row) == row
InOrder(row) ==
  LET order == CHOOSE p \in Injection(DOMAIN row, DOMAIN row) :
                 \A x \in 1..(Len(row) - 1) : row[p[x]] <= row[p[x + 1]]
  IN  [x \in DOMAIN row |-> row[order[x]]]

\* One evaluation of AES in the loop of the constructor of PrimalMatrix.
DrawPoint(b, t) ==
  LET here == at[b][t] IN
  /\ here.i < End(t)
  /\ \E w \in Answers(b, t) :
       LET repeated == Point(w) \in Known(b, here.i)
           row == IF repeated THEN points[b][here.i] ELSE Append(points[b][here.i], Point(w))
           full == Len(row) = lpn.l
       IN  /\ Remember(InputBlock(here.i, here.j, Counter(b, t)), w, repeated)
           /\ IF ~Accepts(w, lpn.k)
              THEN at' = [at EXCEPT ![b][t].counter = @ + 1] /\ UNCHANGED points
              ELSE /\ points' = [points EXCEPT ![b][here.i] = IF full THEN InOrder(row) ELSE row]
                   /\ at' = [at EXCEPT ![b][t] = NextDraw(here, repeated, full)]
  /\ UNCHANGED <<lpn, dense>>

SparseDone(b) == \A t \in Threads : at[b][t].i >= End(t)

\* The constructor of DualMatrix; its threads share nothing but the key.
FillDense(b) ==
  /\ SparseDone(b) /\ dense[b] = <<>>
  /\ dense' = [dense EXCEPT ![b] = [i \in 0..(lpn.k - 1) |-> BitStringPRF(i, lpn.N)]]
  /\ UNCHANGED <<lpn, aes, luck, at, points>>

Made(b) == dense[b] # <<>>

LpnStop == (\A b \in Constructions : Made(b)) /\ UNCHANGED lpnVars

Proceed(b) == (\E t \in Threads : DrawPoint(b, t)) \/ FillDense(b)

LpnNext == (\E b \in Constructions : Proceed(b)) \/ LpnStop

\* Threads run whenever they are started, and AES is not unlucky for ever: the
\* latter is what `rejects` and `repeats` stand for.
LpnSpec == LpnInit /\ [][LpnNext]_lpnVars /\ \A b \in Constructions : WF_lpnVars(Proceed(b))

-----------------------------------------------------------------------------
(* The products: vectors are sets of the positions that hold a 1.          *)

\* SparseMatrix's operator* on a vector of bits
SparseTimes(b, v) == [i \in Rows |-> XorOver(v, Known(b, i))]

\* DenseMatrix's operator* : the parity of the conjunction of row and vector
DenseTimes(b, v) == [i \in 0..(lpn.k - 1) |-> XorOver(dense[b][i], v)]

\* MatrixProduct's operator[]
FaultyProductRow(b, i) == dense[b][points[b][i][1]]

ProductRow(b, i) ==
  [c \in 0..(lpn.N - 1) |-> XorOver([r \in 0..(lpn.k - 1) |-> dense[b][r][c]], Known(b, i))]

-----------------------------------------------------------------------------
\* Two constructions from the same keys, in whatever order their threads run and
\* draw, never have different rows: the parties' matrices, and those that run()
\* makes again for expand(), are the same although nothing of them is sent.
SameMatrices ==
  \A b, c \in Constructions :
    /\ \A i \in Rows : Len(points[b][i]) = lpn.l /\ Len(points[c][i]) = lpn.l
                         => ToSet(points[b][i]) = ToSet(points[c][i])
    /\ Made(b) /\ Made(c) => points[b] = points[c] /\ dense[b] = dense[c]

\* Every row of A has l columns, all of them different, in ascending order.
RowsProper ==
  \A b \in Constructions : Made(b) =>
    \A i \in Rows :
      /\ Len(points[b][i]) = lpn.l
      /\ \A x \in 1..(lpn.l - 1) : points[b][i][x] < points[b][i][x + 1]
      /\ Known(b, i) \subseteq 0..(lpn.k - 1)

\* What expand() relies on: a row of B times a vector is the same row of A times
\* the product of H and the vector.
Associative ==
  \A b \in Constructions : Made(b) =>
    \A i \in Rows, v \in SUBSET (0..(lpn.N - 1)) :
      XorOver(ProductRow(b, i), v) = SparseTimes(b, DenseTimes(b, v))[i]

\* The constructors come to an end, since no more points are asked for than there
\* are columns.
AllMade == <>(\A b \in Constructions : Made(b))

\* A DenseMatrix is "a random matrix": each of its bits is one that AES put out.
EveryBitRandom ==
  \A b \in Constructions : Made(b) =>
    \A i \in 0..(lpn.k - 1), c \in 0..(lpn.N - 1) : dense[b][i][c] # Zero
=============================================================================
