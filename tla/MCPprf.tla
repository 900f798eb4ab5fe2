------------------------------- MODULE MCPprf ------------------------------
EXTENDS Pprf

\* Every domain up to 8 with every point, and pairs of points in domains up to 5.
MCParams ==
  {[kind |-> kd, domainsize |-> d, points |-> <<x>>] :
     kd \in {"PPRF", "BitPPRF"}, d \in 2..8, x \in 0..7} \cup
  {[kind |-> kd, domainsize |-> d, points |-> <<x, y>>] :
     kd \in {"PPRF", "BitPPRF"}, d \in 2..5, x, y \in 0..4} \cup
  {[kind |-> "PPRF", domainsize |-> 1, points |-> <<0>>]}

MCValid == {P \in MCParams : \A i \in DOMAIN P.points : P.points[i] < P.domainsize}
=============================================================================
