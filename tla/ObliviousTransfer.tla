------------------------- MODULE ObliviousTransfer -------------------------
(***************************************************************************)
(* What a pair of ROT pools promises its callers: a sequence of oblivious  *)
(* transfer calls, each delivering, for every transfer k, exactly the one  *)
(* of the sender's two messages that the receiver chose.  The pool holds   *)
(* `Total` transfers; a call that needs more than are left is refused, and *)
(* nothing of it happens.                                                  *)
(***************************************************************************)
EXTENDS Naturals, Sequences

CONSTANTS
  Total,               \* transfers the pools hold
  MaxCalls,            \* calls the callers make
  Shapes,              \* shapes of a call: Len(s.widths) transfers each
  Message(_, _, _, _)  \* Message(call, k, choice, width), the sender's inputs

VARIABLES plan, left, delivered, refused

vars == <<plan, left, delivered, refused>>

Init ==
  /\ plan \in [1..MaxCalls -> Shapes]
  /\ left = Total
  /\ delivered = <<>>
  /\ refused = FALSE

current == Len(delivered) + 1

Deliver ==
  /\ ~refused
  /\ current <= MaxCalls
  /\ LET widths == plan[current].widths
         n == Len(widths)
     IN  /\ n <= left
         /\ left' = left - n
         /\ \E choices \in [1..n -> {0, 1}] :
              delivered' = Append(delivered,
                [k \in 1..n |-> Message(current, k, choices[k], widths[k])])
  /\ UNCHANGED <<plan, refused>>

Refuse ==
  /\ ~refused
  /\ current <= MaxCalls
  /\ Len(plan[current].widths) > left
  /\ refused' = TRUE
  /\ UNCHANGED <<plan, left, delivered>>

Next == Deliver \/ Refuse

Spec == Init /\ [][Next]_vars /\ WF_vars(Next)
=============================================================================
