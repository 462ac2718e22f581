------------------------- MODULE MCCommandCodeClient -------------------------
(* Instances of CommandCodeClient for TLC. *)
EXTENDS CommandCodeClient, TLC

TwoKeys    == <<"a", "b">>
ThreeKeys  == <<"a", "b", "a", "c">>    \* one of them configured twice

Balances == {0, 1}

Symmetry == Permutations(Requests)
=============================================================================
