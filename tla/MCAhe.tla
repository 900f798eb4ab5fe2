------------------------------- MODULE MCAhe -------------------------------
EXTENDS Ahe

\* The smallest group that the assumption allows.
MCHalf == 2 * (tail * (l + 1) + 1)

\* As in gauss.config, where the weights of a zero add up to less than 2^bits,
\* and those of a one to more.
MCZeroWeights == [i \in 0..(tail - 1) |-> 2 * i + 1]
MCOneWeights == [i \in 0..(tail - 1) |-> 4]
=============================================================================
