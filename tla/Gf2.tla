-------------------------------- MODULE Gf2 --------------------------------
(***************************************************************************)
(* Arithmetic over GF(2), symbolically.  A bit is a linear combination of  *)
(* unknown bits, and is represented by the SET of the unknowns that occur  *)
(* in it: the constant 0 is {}, one unknown x is {x}, and `^` is symmetric *)
(* difference.  Two bits are equal as sets exactly when they are equal for *)
(* every value of the unknowns, so one run of a model covers all of them.  *)
(***************************************************************************)
EXTENDS Naturals, Sequences, FiniteSetsExt, Functions

Zero == {}

\* BitString's operator^ on single bits.
Xor(a, b) == SymDiff(a, b)

\* The xor of f[i] for every i in S; Zero when S is empty.
XorOver(f, S) == FoldFunctionOnSet(Xor, Zero, f, S)

\* BitString's operator^ on two strings of one length.
XorSeq(s, t) == [p \in 1..Len(s) |-> Xor(s[p], t[p])]
=============================================================================
