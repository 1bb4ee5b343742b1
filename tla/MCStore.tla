------------------------------- MODULE MCStore ------------------------------
(* A small instance of Store. *)
EXTENDS Store, TLC

CONSTANTS e1, e2

Symmetry == Permutations(Endpoint)
=============================================================================
