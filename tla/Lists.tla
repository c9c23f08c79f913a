------------------------------- MODULE Lists --------------------------------
(***************************************************************************)
(* What a loop that appends some members of a list to another list makes.  *)
(***************************************************************************)
EXTENDS Naturals, FiniteSets

\* The members of s at these places, in their order.
InOrder(s, at) ==
    [n \in 1 .. Cardinality(at) |-> s[CHOOSE i \in at : Cardinality(at \cap (1 .. i)) = n]]
=============================================================================
