------------------------------- MODULE MCLpn -------------------------------
EXTENDS Lpn

\* Three words: with two columns one of them is rejected, with one column none.
\* Rows with one column and with all; ranges of equal length and not; H narrower
\* than an AES block, as wide, and wider.
MCParams ==
  {[n |-> 3, k |-> 2, l |-> 2, N |-> 2, threads |-> 2, rejects |-> 1, repeats |-> 1],
   [n |-> 4, k |-> 2, l |-> 1, N |-> 4, threads |-> 2, rejects |-> 1, repeats |-> 0],
   [n |-> 3, k |-> 2, l |-> 1, N |-> 1, threads |-> 3, rejects |-> 1, repeats |-> 0],
   [n |-> 2, k |-> 1, l |-> 1, N |-> 3, threads |-> 2, rejects |-> 0, repeats |-> 0]}

\* The dual matrix is wider than a block, as that of every choice of options is.
MCWide == {[n |-> 3, k |-> 2, l |-> 1, N |-> 3, threads |-> 2, rejects |-> 0, repeats |-> 0]}
=============================================================================
