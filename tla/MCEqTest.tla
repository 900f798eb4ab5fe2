----------------------------- MODULE MCEqTest ------------------------------
EXTENDS EqTest

\* No round, one and two; sizes that are and are not 2^i - 1; one test and two;
\* a length that is below the threshold, and one that is reduced to less than it;
\* and the lengths to 9 for the threshold of the code.
MCParams ==
  {[length |-> 3, threshold |-> 2, tests |-> 1, values |-> 0..7],
   [length |-> 2, threshold |-> 2, tests |-> 2, values |-> 0..3],
   [length |-> 3, threshold |-> 2, tests |-> 2, values |-> {2, 6}],
   [length |-> 5, threshold |-> 2, tests |-> 1, values |-> {0, 10, 31}],
   [length |-> 5, threshold |-> 3, tests |-> 1, values |-> {0, 1, 21, 30}],
   [length |-> 1, threshold |-> 2, tests |-> 1, values |-> {0, 1}],
   [length |-> 8, threshold |-> 5, tests |-> 1, values |-> {0, 255}]} \cup
  {[length |-> j, threshold |-> 3, tests |-> 1, values |-> {1, 2^(j - 1)}] : j \in {4, 7, 8, 9}}

\* Cyclic vectors: each position meets every bit, and both ends of the numbers.
MCDraw(n, m) == {[l \in 0..(n - 1) |-> (s + l) % m] : s \in {0, m - 1}}
=============================================================================
