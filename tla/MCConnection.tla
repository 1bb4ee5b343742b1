---------------------------- MODULE MCConnection ----------------------------
(* A small instance of Connection.  Desks are interchangeable unless one of *)
(* them carries a pin, so there is no symmetry to use when it does.         *)
EXTENDS Connection

CONSTANTS e1, e2
=============================================================================
