------------------------------- MODULE MCRot -------------------------------
EXTENDS Rot

\* Blocks have 2 bits, so the widths fall below, on and above ElementSize.
MCShapes ==
  {[form |-> "bits",  widths |-> <<1, 1>>],
   [form |-> "same",  widths |-> <<3, 3>>],
   [form |-> "same",  widths |-> <<2>>],
   [form |-> "mixed", widths |-> <<1, 3>>],
   [form |-> "mixed", widths |-> <<3, 1, 2>>]}
=============================================================================
