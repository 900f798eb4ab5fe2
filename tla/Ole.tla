-------------------------------- MODULE Ole --------------------------------
(***************************************************************************)
(* What a PCG for oblivious linear evaluation over GF(2) promises: two     *)
(* parties get a random string of inputs each, and after that shares of    *)
(* the products of the two, bit by bit.  Both are fixed once they are      *)
(* there, in whatever order the parties come to theirs, and a party may    *)
(* also end up with nothing.  Bits are those of module Gf2.                *)
(***************************************************************************)
EXTENDS Naturals, Gf2

CONSTANTS Parties, Product(_, _)  \* of a bit of one party and one of the other

VARIABLES
  input,  \* input[p]: p's string, or Nothing
  share   \* share[p]: p's share of the products, or Nothing

Nothing == <<>>

Init ==
  /\ input = [p \in Parties |-> Nothing]
  /\ share = [p \in Parties |-> Nothing]

\* A party gets its string.
Choose(p) ==
  /\ input[p] = Nothing
  /\ input' = [input EXCEPT ![p] = input'[p]]
  /\ input'[p] # Nothing
  /\ UNCHANGED share

\* A party gets its share: whatever the other has, the two add up to the products.
Give(p, q) ==
  /\ input[p] # Nothing /\ input[q] # Nothing
  /\ share[p] = Nothing
  /\ share' = [share EXCEPT ![p] = share'[p]]
  /\ DOMAIN share'[p] = DOMAIN input[p]
  /\ share[q] # Nothing =>
       \A g \in DOMAIN input[p] :
         Xor(share'[p][g], share[q][g]) = Product(input[p][g], input[q][g])
  /\ UNCHANGED input

Next ==
  \/ \E p \in Parties : Choose(p)
  \/ \E p, q \in Parties : p # q /\ Give(p, q)

Spec == Init /\ [][Next]_<<input, share>>
=============================================================================
