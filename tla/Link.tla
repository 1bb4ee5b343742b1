-------------------------------- MODULE Link --------------------------------
(***************************************************************************)
(* What the rest of the app may rely on when it reads Connection.Info: the *)
(* legal life of the status (Status in src/app/connection.go) within one   *)
(* epoch, an epoch being the time between two acts of the user, or of a    *)
(* finished pairing, that start or stop the connection.                    *)
(***************************************************************************)
EXTENDS Naturals

VARIABLES status, epoch

vars == <<status, epoch>>

Busy == {"connecting", "connected", "reconnecting"}
Hard == {"certMismatch", "unauthorized", "versionMismatch"}

Init == status = "idle" /\ epoch = 0

\* Connect or Disconnect: a new epoch begins, whatever the old one was doing.
Act ==
    /\ epoch' = epoch + 1
    /\ status' \in {"connecting", "idle"}

\* Within an epoch the status only moves along the reconnect loop, and a hard
\* stop is left only by a new epoch.
Goes(from, to) ==
    /\ status \in from
    /\ status' = to
    /\ UNCHANGED epoch

Redial  == Goes({"reconnecting"}, "connecting")
Up      == Goes({"connecting"}, "connected")
Drop    == Goes({"connecting", "connected"}, "reconnecting")
HardStop == \E s \in Hard : Goes({"connecting"}, s)

Next == Act \/ Redial \/ Up \/ Drop \/ HardStop

SafeSpec == Init /\ [][Next]_vars

\* "Reconnecting" is never the last word: the backoff wait ends.
Spec == SafeSpec /\ WF_vars(Redial)
=============================================================================
