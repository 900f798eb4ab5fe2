------------------------------ MODULE Transpose ------------------------------
(***************************************************************************)
(* The transpose of src/util/transpose.cxx: the leaves of the PPRFs, N     *)
(* rows of k bits, become k rows of N bits.  The caller deals the rows     *)
(* into chunks and makes two calls of MULTI_TASK, one to give the output   *)
(* rows their size, one to transpose a chunk per item into bytes of these. *)
(* The threads are those of module Concurrency; this module adds what they *)
(* do to the memory they share.  A bit is named by where it comes from.    *)
(***************************************************************************)
EXTENDS Concurrency

CONSTANTS
  Byte,  \* bits of a byte (8 in the code)
  Jobs   \* transposes to run: [threads, N, k, td]

ASSUME TransposeAssumption ==
  /\ Byte \in Nat \ {0}
  /\ \A j \in Jobs :
       /\ {j.threads, j.N, j.k, j.td} \subseteq Nat \ {0}
       /\ j.td < j.k  \* LPN::DualParams throws otherwise

VARIABLES
  job,       \* the transpose, or NoJob: a call from elsewhere, any of Calls
  phase,     \* "other" for NoJob, else "deal", "resize", "chunks", "done", "undefined"
  in_ptrs,   \* in_ptrs[i]: the rows of chunk i, as <<PPRF, leaf>>
  cleared,   \* the rows whose bits were released
  output     \* output[c]: bits of output row c, empty before its resize

memory == <<job, phase, in_ptrs, cleared, output>>
allVars == <<vars, memory>>

NoJob == [threads |-> 0]

-----------------------------------------------------------------------------
CHUNKS == 4
CHUNK_SIZE == job.N \div (job.threads * CHUNKS)
Chunks == 0..(job.threads * CHUNKS - 1)
Columns == 0..(job.k - 1)

RoundedUp(bits) == (bits + Byte - 1) \div Byte  \* bits in whole bytes

\* LPN::DualParams::blockSize, the domain of each PPRF
domain == (job.N + job.td - 1) \div job.td

\* The rows in the order in which they are dealt.  The `break` at n >= N ends the
\* loop over the leaves of one PPRF only: each later PPRF adds one leaf.
Dealt ==
  LET Leaves(pushed) == IF pushed >= job.N THEN 1 ELSE SmallerOf(domain, job.N - pushed)
      DealOne(rows, p) == rows \o [i \in 1..Leaves(Len(rows)) |-> <<p, i - 1>>]
  IN  FoldLeft(DealOne, <<>>, [p \in 1..job.td |-> p - 1])

Idle(c) ==
  /\ call = c
  /\ pc = "start" /\ started = 0 /\ joined = 0
  /\ thread = [t \in Workers |-> "none"]
  /\ count = [i \in Items |-> 0]
  /\ results = [t \in Workers |-> <<>>]
  /\ out = <<>>

MultiTask(tasks) == [kind |-> "MULTI", threads |-> job.threads, n |-> tasks, bits |-> FALSE]

TransposeInit ==
  /\ in_ptrs = <<>> /\ cleared = {} /\ output = <<>>
  /\ \/ job = NoJob /\ phase = "other" /\ Init
     \/ job \in Jobs /\ phase = "deal" /\ Idle(MultiTask(job.k))

\* `in_ptrs[n / CHUNK_SIZE].push_back(ptr)`: a chunk size of zero divides by
\* zero, an index behind the last chunk is outside the vector.
Deal ==
  /\ phase = "deal"
  /\ IF CHUNK_SIZE = 0 \/ (Len(Dealt) - 1) \div CHUNK_SIZE \notin Chunks
     THEN phase' = "undefined" /\ UNCHANGED <<in_ptrs, output>>
     ELSE /\ phase' = "resize"
          /\ in_ptrs' = [i \in Chunks |->
               SubSeq(Dealt, i * CHUNK_SIZE + 1, SmallerOf((i + 1) * CHUNK_SIZE, Len(Dealt)))]
          /\ output' = [c \in Columns |-> <<>>]
  /\ UNCHANGED <<vars, job, cleared>>

-----------------------------------------------------------------------------
(* sse_trans: the blocks it moves, as [rr, cc, rows, cols], for a matrix whose *)
(* numbers of rows and columns are multiples of Byte, as it asserts.           *)
FaultyBlocks(nrows, ncols) ==
  {[rr |-> r * 2 * Byte, cc |-> c * Byte, rows |-> 2 * Byte, cols |-> Byte] :
     r \in 0..(nrows \div (2 * Byte) - 1), c \in 0..(ncols \div Byte - 1)}

Blocks(nrows, ncols) ==
  LET pairs == nrows \div (2 * Byte)   \* the body, two bytes of rows at a time
      rr == pairs * 2 * Byte           \* the rows that remain, one byte of them
      wide == ncols \div (2 * Byte)    \* there, two bytes of columns at a time
      cc == wide * 2 * Byte            \* and the columns that remain
  IN  {[rr |-> r * 2 * Byte, cc |-> c * Byte, rows |-> 2 * Byte, cols |-> Byte] :
         r \in 0..(pairs - 1), c \in 0..(ncols \div Byte - 1)} \cup
      (IF rr = nrows THEN {}
       ELSE {[rr |-> rr, cc |-> c * 2 * Byte, rows |-> Byte, cols |-> 2 * Byte] :
               c \in 0..(wide - 1)} \cup
            (IF cc = ncols THEN {}
             ELSE {[rr |-> rr, cc |-> cc, rows |-> Byte, cols |-> Byte]}))

\* Where the bit that comes to row x of column y of the result of sse_trans is
\* taken from: that place, or nowhere.
Moves(nrows, ncols, x, y) ==
  \E b \in Blocks(nrows, ncols) : x - b.rr \in 0..(b.rows - 1) /\ y - b.cc \in 0..(b.cols - 1)

\* The first bit of chunk i in each row of the output: `row.data() + i * ...`.
FaultyOffset(i) == (i * CHUNK_SIZE) \div 2
Offset(i) == i * RoundedUp(CHUNK_SIZE) * Byte

\* What the assertions and the copies of a chunk need.
Fits(i) ==
  /\ Len(in_ptrs[i]) = CHUNK_SIZE
  /\ CHUNK_SIZE % Byte = 0 /\ job.k % Byte = 0
  /\ ToSet(in_ptrs[i]) \cap cleared = {}

\* The bits of output row c once the chunks `mine` were transposed.
Filled(c, mine) ==
  [b \in 1..job.N |->
    LET from == {i \in mine : b - 1 - Offset(i) \in 0..(CHUNK_SIZE - 1)}
    IN  IF from = {} THEN output[c][b]
        ELSE LET i == CHOOSE i \in from : TRUE
                 x == b - 1 - Offset(i)
             IN  IF Moves(CHUNK_SIZE, job.k, x, c) THEN <<in_ptrs[i][x + 1], c>> ELSE <<>>]

\* What thread t does to the memory: the two lambdas.
ResizeRows(t) ==
  /\ phase = "resize"
  /\ output' = [c \in Columns |-> IF c \in ItemsOf(t) THEN [b \in 1..job.N |-> <<>>] ELSE output[c]]
  /\ UNCHANGED <<job, phase, in_ptrs, cleared>>

TransposeChunks(t) ==
  /\ phase = "chunks"
  /\ IF \E i \in ItemsOf(t) : ~Fits(i)
     THEN phase' = "undefined" /\ UNCHANGED <<output, cleared>>
     ELSE /\ output' = [c \in Columns |-> Filled(c, ItemsOf(t))]
          /\ cleared' = cleared \cup UNION {ToSet(in_ptrs[i]) : i \in ItemsOf(t)}
          /\ UNCHANGED phase
  /\ UNCHANGED <<job, in_ptrs>>

-----------------------------------------------------------------------------
InCall == phase \in {"other", "resize", "chunks"}

CallStep == InCall /\ (StartThread \/ JoinThread \/ Return) /\ UNCHANGED memory

\* The first call has returned: make the second.  Then the PPRFs are cleared.
Begin(c) ==
  /\ call' = c
  /\ pc' = "start" /\ started' = 0 /\ joined' = 0
  /\ thread' = [t \in Workers' |-> "none"]
  /\ count' = [i \in Items' |-> 0]
  /\ results' = [t \in Workers' |-> <<>>]
  /\ out' = <<>>

CallReturned ==
  /\ pc = "returned"
  /\ \/ /\ phase = "resize"
        /\ phase' = "chunks" /\ Begin(MultiTask(job.threads * CHUNKS))
        /\ UNCHANGED cleared
     \/ /\ phase = "chunks"
        /\ phase' = "done" /\ cleared' = ToSet(Dealt)
        /\ UNCHANGED vars
  /\ UNCHANGED <<job, in_ptrs, output>>

Caller == Deal \/ CallStep \/ CallReturned

Worker(t) ==
  /\ InCall /\ FinishThread(t)
  /\ \/ phase = "other" /\ UNCHANGED memory
     \/ ResizeRows(t) \/ TransposeChunks(t)

Ended ==
  \/ phase \in {"done", "undefined"}
  \/ phase = "other" /\ pc \in {"returned", "failed"}

TransposeNext ==
  \/ Caller \/ (\E t \in Workers : Worker(t))
  \/ Ended /\ UNCHANGED allVars

\* The caller and each thread it has started get to run.
TransposeSpec ==
  /\ TransposeInit /\ [][TransposeNext]_allVars
  /\ WF_allVars(Caller) /\ WF_allVars(\E t \in Workers : Worker(t))

-----------------------------------------------------------------------------
\* What thread t writes: bytes of output rows, whole rows, or input rows.
Writes(t) ==
  CASE phase = "resize" -> {<<"row", c>> : c \in ItemsOf(t)}
    [] phase = "chunks" ->
         {<<"byte", c, b>> : c \in Columns,
            b \in UNION {(Offset(i) \div Byte)..((Offset(i) + CHUNK_SIZE - 1) \div Byte) : i \in ItemsOf(t)}}
         \cup UNION {{<<"input", r>> : r \in ToSet(in_ptrs[i])} : i \in ItemsOf(t)}
    [] OTHER -> {<<"item", i>> : i \in ItemsOf(t)}

\* Two threads that run at one time never write the same element of the caller's
\* vector, the same byte of an output row, or clear the same input row.
NoRace ==
  \A t, u \in Workers :
    t # u /\ thread[t] = "running" /\ thread[u] = "running" => Writes(t) \cap Writes(u) = {}

\* The rows that a correct transpose has, in the order in which PCG reads them:
\* bit r of row c is bit c of leaf r, counting the leaves through all PPRFs.
Wanted == [c \in Columns |-> [r \in 1..job.N |-> <<<<(r - 1) \div domain, (r - 1) % domain>>, c>>]]

\* Parameters that fit the chunks: equal chunks of whole bytes, and no PPRF that
\* is not needed for the N rows.
WellDivided ==
  /\ job.N % (job.threads * CHUNKS * Byte) = 0 /\ job.k % Byte = 0
  /\ (job.td - 1) * domain < job.N

\* With such parameters transpose() returns the transposed matrix, whatever the
\* order in which the threads come to their end, and no input row outlives it.
Transposed ==
  phase = "done" => output = Wanted /\ \A p \in 0..(job.td - 1) : \E i \in 0..(domain - 1) : <<p, i>> \in cleared

\* Every call ends; a transpose of parameters that fit ends with its result.
Ends == <>(Ended /\ (phase = "undefined" => ~WellDivided))
==============================================================================
