---------------------------- MODULE MCAttention -----------------------------
(* A small instance of Attention; panes are interchangeable. *)
EXTENDS Attention, TLC

CONSTANTS p1, p2

Panes == Permutations(Pane)
=============================================================================
