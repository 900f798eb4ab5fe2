----------------------------- MODULE MCSession -----------------------------
EXTENDS Session

\* Without and with a reduction round, one and several tests and trees, domains
\* that are and are not powers of two; then an equality test too short for its
\* threshold, and a dual block of one position.
MCParams ==
  {[tp |-> 1, pb |-> 4,  td |-> 1, db |-> 2, k |-> 3, threshold |-> 2],
   [tp |-> 2, pb |-> 8,  td |-> 2, db |-> 3, k |-> 9, threshold |-> 3],
   [tp |-> 1, pb |-> 16, td |-> 1, db |-> 5, k |-> 2, threshold |-> 3],
   [tp |-> 2, pb |-> 12, td |-> 1, db |-> 4, k |-> 5, threshold |-> 3],
   [tp |-> 1, pb |-> 4,  td |-> 1, db |-> 2, k |-> 3, threshold |-> 3],
   [tp |-> 1, pb |-> 4,  td |-> 1, db |-> 1, k |-> 2, threshold |-> 2]}
=============================================================================
