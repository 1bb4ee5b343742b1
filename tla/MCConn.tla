------------------------------- MODULE MCConn -------------------------------
(* Conn on small instances: MCConn.cfg for safety, MCConnLive.cfg for the   *)
(* promise and liveness.                                                    *)
EXTENDS Conn, TLC

CallSymmetry == Permutations(Call)
=============================================================================
