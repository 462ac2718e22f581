------------------------- MODULE MCClientLifecycle -------------------------
(* ClientLifecycle on small instances. *)
EXTENDS ClientLifecycle, TLC

Symmetry == Permutations(Requests) \cup Permutations(Admins)
=============================================================================
