---------------------------- MODULE MCKeyListing ----------------------------
(***************************************************************************)
(* KeyListing for TLC: three keys, a filter on an attribute that never     *)
(* changes (the policy) and on one that does (the provider).               *)
(***************************************************************************)
EXTENDS KeyListing

ThreeNames == 1..3
Sizes == {-1, 0, 1, 2}

=============================================================================
