------------------------------ MODULE MCFollow ------------------------------
(* A small instance of Follow. *)
EXTENDS Follow

CONSTANTS w1, w2, d1, c1, c2
=============================================================================
