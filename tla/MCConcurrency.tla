--------------------------- MODULE MCConcurrency ---------------------------
EXTENDS Transpose

\* Fewer items than threads, as many, more; counts that the threads divide and
\* that leave the last threads short or without a range; both sides of the bound
\* below which TASK_REDUCE does all in the caller; the call whose last range is
\* reversed, and the least number of items for which that cannot be.
MCCalls ==
  {[kind |-> "MULTI", threads |-> T, n |-> m, bits |-> FALSE] : T \in 1..4, m \in 0..9} \cup
  {[kind |-> "REDUCE", threads |-> T, n |-> m, bits |-> b] :
     T \in 1..3, m \in {0, 7, 8, 9, 15, 16, 17, 23, 24, 25, 28}, b \in BOOLEAN} \cup
  {[kind |-> "REDUCE", threads |-> 4, n |-> m, bits |-> FALSE] : m \in {32, 33}} \cup
  {[kind |-> "REDUCE", threads |-> 11, n |-> m, bits |-> TRUE] : m \in {89, 100}}

\* Bytes of two bits.  Chunks of two bytes of rows, of one, of three and of five;
\* columns of an odd and an even number of bytes; domains that do not divide N;
\* and what does not fit: fewer rows than chunks, a remainder, half a byte, a PPRF
\* behind the last row.
MCJobs ==
  {[threads |-> T, N |-> T * 4 * m, k |-> k, td |-> td] :
     T \in {1, 2}, m \in {2, 4, 6}, k \in {4, 6}, td \in {1, 3}} \cup
  {[threads |-> 3, N |-> 24, k |-> 4, td |-> 2], [threads |-> 1, N |-> 40, k |-> 2, td |-> 1],
   [threads |-> 1, N |-> 3,  k |-> 4, td |-> 1], [threads |-> 2, N |-> 20, k |-> 4, td |-> 1],
   [threads |-> 1, N |-> 12, k |-> 4, td |-> 1], [threads |-> 1, N |-> 8,  k |-> 3, td |-> 1],
   [threads |-> 1, N |-> 16, k |-> 6, td |-> 5]}
=============================================================================
