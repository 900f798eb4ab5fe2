------------------------------- MODULE MCPcg -------------------------------
EXTENDS Pcg

\* All correlations; fewer than the samples, and a block less; blocks of three,
\* which is no power of two; dual blocks that reach behind the last column; more
\* correlations than samples; and one block of eight, the smallest that the
\* equality test accepts (EqTest).
MCParams ==
  {[n |-> 4, k |-> 3, tp |-> 2, N |-> 4, td |-> 2, size |-> 4],
   [n |-> 4, k |-> 2, tp |-> 1, N |-> 3, td |-> 1, size |-> 3],
   [n |-> 6, k |-> 2, tp |-> 3, N |-> 2, td |-> 1, size |-> 3],
   [n |-> 6, k |-> 2, tp |-> 2, N |-> 2, td |-> 1, size |-> 6],
   [n |-> 4, k |-> 3, tp |-> 2, N |-> 3, td |-> 2, size |-> 4],
   [n |-> 8, k |-> 3, tp |-> 1, N |-> 4, td |-> 2, size |-> 7],
   [n |-> 4, k |-> 2, tp |-> 2, N |-> 2, td |-> 1, size |-> 8]}

MCTwoProcesses == {[n |-> 8, k |-> 2, tp |-> 1, N |-> 2, td |-> 1, size |-> 8]}

\* Rows of weight k - 1, and columns of both parities.
MCPrimal(key, P) == [g \in 0..(P.n - 1) |-> 0..(P.k - 1) \ {(g + key) % P.k}]
MCDual(key, P) ==
  [i \in 0..(P.k - 1) |-> {c \in 0..(P.N - 1) : (c * (i + 1) + key + c \div 2) % 2 = 0}]
=============================================================================
