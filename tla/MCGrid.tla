------------------------------- MODULE MCGrid -------------------------------
(* A small instance of Grid: panes of one and of two rows of two cells. *)
EXTENDS Grid

MCSizes == {[w |-> 2, h |-> 2], [w |-> 2, h |-> 1]}
MCCell  == {Blank, [fg |-> 1, glyph |-> "a"]}
=============================================================================
