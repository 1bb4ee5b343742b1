------------------------------- MODULE Calls -------------------------------
(***************************************************************************)
(* What a connection promises the goroutines that call Invoke (doc comment *)
(* of Conn and Invoke, src/internal/catsclient/conn.go): a call that is    *)
(* let in comes back exactly once, with the reply the server gave to that  *)
(* very call, or with one of the failures the caller can act on; a         *)
(* connection that has failed lets no further call in.                     *)
(*                                                                         *)
(* Nothing here speaks of ids, maps, timers or threads.  Conn shows how    *)
(* the code keeps the promise and implements this module.                  *)
(***************************************************************************)
CONSTANT Call     \* the Invoke calls made on one connection

\* How a call can end.  "reply" and "refused" are the two halves of a
\* CmdResult (ok true and ok false); "dropped" is a Send error or the
\* caller's own context.
Ending == {"reply", "refused", "timeout", "disconnected", "dropped"}

VARIABLES
    status,       \* [Call -> {"idle", "open", "returned"}]
    ending,       \* [Call -> Ending \cup {"none"}], once returned
    answered,     \* the calls the server has answered
    down          \* TRUE once the connection has failed or been closed

vars == <<status, ending, answered, down>>

TypeOK ==
    /\ status \in [Call -> {"idle", "open", "returned"}]
    /\ ending \in [Call -> Ending \cup {"none"}]
    /\ answered \in SUBSET Call
    /\ down \in BOOLEAN

Init ==
    /\ status = [c \in Call |-> "idle"]
    /\ ending = [c \in Call |-> "none"]
    /\ answered = {}
    /\ down = FALSE

Open(c) ==
    /\ status[c] = "idle"
    /\ ~down
    /\ status' = [status EXCEPT ![c] = "open"]
    /\ UNCHANGED <<ending, answered, down>>

Refuse(c) ==
    /\ status[c] = "idle"
    /\ down
    /\ status' = [status EXCEPT ![c] = "returned"]
    /\ ending' = [ending EXCEPT ![c] = "disconnected"]
    /\ UNCHANGED <<answered, down>>

\* The server answers an open call or one that has already given up.
Answer(c) ==
    /\ status[c] # "idle"
    /\ answered' = answered \cup {c}
    /\ UNCHANGED <<status, ending, down>>

Return(c, e) ==
    /\ status[c] = "open"
    /\ e \in {"reply", "refused"} => c \in answered
    /\ e = "disconnected" => down
    /\ status' = [status EXCEPT ![c] = "returned"]
    /\ ending' = [ending EXCEPT ![c] = e]
    /\ UNCHANGED <<answered, down>>

GoDown ==
    /\ down' = TRUE
    /\ UNCHANGED <<status, ending, answered>>

Next ==
    \/ \E c \in Call : Open(c) \/ Refuse(c) \/ Answer(c)
    \/ \E c \in Call, e \in Ending : Return(c, e)
    \/ GoDown

\* Safety half of the promise, the one the proofs are about.
SafeSpec == Init /\ [][Next]_vars

\* An open call is not left open for ever.
Spec == SafeSpec /\ \A c \in Call : WF_vars(\E e \in Ending : Return(c, e))
=============================================================================
