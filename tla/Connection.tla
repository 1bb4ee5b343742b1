----------------------------- MODULE Connection -----------------------------
(***************************************************************************)
(* The app's connection object and its reconnect loops: type Connection of *)
(* src/app/connection.go, with what it uses of the Conn (module Conn) and  *)
(* of the store.                                                           *)
(*                                                                         *)
(* Threads: one loop (run) per generation, several of which may be winding *)
(* down at once; the reader of every socket, which folds messages through  *)
(* onMessage; the UI executor, which runs taps and the lifecycle event one *)
(* after the other; and the goroutine of a pairing, which ends in Connect. *)
(* A step is one critical section of Connection.mu, one call of the store  *)
(* or one blocking call of the loop.                                       *)
(***************************************************************************)
EXTENDS Naturals, FiniteSets

CONSTANTS
    Endpoint,     \* the desks
    NoEndpoint,
    Carries,      \* the desks whose pairing brought a certificate pin along
    Paired,       \* the desks paired before this launch
    Pairable,     \* the desks a pairing may end with
    MaxGen,       \* bound on the generations
    MaxSocket,    \* bound on the sockets dialled
    Rungs         \* the rung of the ladder at which the delay stops growing

ASSUME BoundsAssumption == MaxGen \in Nat /\ MaxSocket \in Nat /\ Rungs \in Nat \ {0}
ASSUME NoEndpointAssumption == NoEndpoint \notin Endpoint
ASSUME DesksAssumption == Carries \cup Paired \cup Pairable \subseteq Endpoint

Gen      == 1..MaxGen
Socket   == 1..MaxSocket
NoSocket == 0

Busy == {"connecting", "connected", "reconnecting"}
Hard == {"certMismatch", "unauthorized", "versionMismatch"}

VARIABLES
    \* Connection
    gen, status, endpoint,
    cancelSet,    \* c.cancel # nil
    conn,         \* c.conn, a socket or NoSocket
    wake,         \* the one-place channel c.wake
    grids,        \* the sockets whose frames are in c.session
    roster,       \* the socket whose rollup c.session holds, NoSocket if none
    \* run, one loop per generation
    pc, cancelled, target, attempt, sock, cause, firstUse,
    \* the sockets and their Conns
    owner,        \* [Socket -> the generation that dialled it, 0 before]
    open,         \* the transport is open
    closed,       \* Conn.closed
    reader,       \* "none", "idle", "folding" (past the closed check), "gone"
    welcome,      \* "none", "ok", "refused"
    \* store: the desks with a stored pin, the desks paired, the active one
    pins, known, active,
    \* the UI executor, and the desk a pairing has saved but not yet dialled
    ui, pairing

appVars    == <<gen, status, endpoint, cancelSet, conn>>
sessVars   == <<grids, roster>>
loopVars   == <<pc, cancelled, target, attempt, sock, cause, firstUse>>
socketVars == <<owner, open, closed, reader, welcome>>
storeVars  == <<pins, known, active>>
vars == <<appVars, wake, sessVars, loopVars, socketVars, storeVars, ui, pairing>>

LoopPc == {"none", "start", "dial", "pin", "outcome", "welcome", "serve", "lost", "close",
           "join", "wait", "gone"}
UI == [op : {"boot", "idle", "wake", "retry", "forget", "rejoin"}, e : Endpoint \cup {NoEndpoint}]
Free == [op |-> "idle", e |-> NoEndpoint]

AppTypeOK ==
    /\ gen \in {0} \cup Gen
    /\ status \in Busy \cup Hard \cup {"idle"}
    /\ endpoint \in Endpoint \cup {NoEndpoint}
    /\ cancelSet \in BOOLEAN
    /\ conn \in Socket \cup {NoSocket}
    /\ wake \in BOOLEAN
    /\ grids \in SUBSET Socket
    /\ roster \in Socket \cup {NoSocket}

LoopTypeOK ==
    /\ pc \in [Gen -> LoopPc]
    /\ cancelled \in [Gen -> BOOLEAN]
    /\ target \in [Gen -> Endpoint \cup {NoEndpoint}]
    /\ attempt \in [Gen -> 0..Rungs]
    /\ sock \in [Gen -> Socket \cup {NoSocket}]
    /\ cause \in [Gen -> {"none", "error", "certMismatch", "unauthorized", "refused", "cancelled"}]
    /\ firstUse \in [Gen -> BOOLEAN]

SocketTypeOK ==
    /\ owner \in [Socket -> {0} \cup Gen]
    /\ open \in [Socket -> BOOLEAN]
    /\ closed \in [Socket -> BOOLEAN]
    /\ reader \in [Socket -> {"none", "idle", "folding", "gone"}]
    /\ welcome \in [Socket -> {"none", "ok", "refused"}]

StoreTypeOK ==
    /\ pins \in SUBSET Endpoint
    /\ known \in SUBSET Endpoint
    /\ active \in known \cup {NoEndpoint}
    /\ ui \in UI
    /\ ui.op \in {"retry", "forget"} => ui.e \in Endpoint
    /\ pairing \in Endpoint \cup {NoEndpoint}

TypeOK == AppTypeOK /\ LoopTypeOK /\ SocketTypeOK /\ StoreTypeOK

Init ==
    /\ gen = 0 /\ status = "idle" /\ endpoint = NoEndpoint /\ cancelSet = FALSE
    /\ conn = NoSocket /\ wake = FALSE /\ grids = {} /\ roster = NoSocket
    /\ pc = [g \in Gen |-> "none"]
    /\ cancelled = [g \in Gen |-> FALSE]
    /\ target = [g \in Gen |-> NoEndpoint]
    /\ attempt = [g \in Gen |-> 0]
    /\ sock = [g \in Gen |-> NoSocket]
    /\ cause = [g \in Gen |-> "none"]
    /\ firstUse = [g \in Gen |-> FALSE]
    /\ owner = [s \in Socket |-> 0]
    /\ open = [s \in Socket |-> FALSE]
    /\ closed = [s \in Socket |-> FALSE]
    /\ reader = [s \in Socket |-> "none"]
    /\ welcome = [s \in Socket |-> "none"]
    /\ known = Paired /\ pins \in SUBSET Paired /\ Carries \cap Paired \subseteq pins
    /\ IF Paired = {} THEN active = NoEndpoint ELSE active \in Paired
    /\ ui = [Free EXCEPT !.op = "boot"] /\ pairing = NoEndpoint

-----------------------------------------------------------------------------
(* Connect and Disconnect.                                                 *)

\* c.cancel(): the loop of the current generation sees ctx.Done.
CancelLoop == cancelled' = [g \in Gen |-> cancelled[g] \/ (cancelSet /\ g = gen)]

NewSession == grids' = {} /\ roster' = NoSocket

\* The critical section of Connect.
Connect(e) ==
    /\ gen < MaxGen
    /\ CancelLoop
    /\ cancelSet' = TRUE
    /\ gen' = gen + 1
    /\ endpoint' = e
    /\ status' = "connecting"
    /\ conn' = NoSocket
    /\ NewSession
    /\ pc' = [pc EXCEPT ![gen + 1] = "start"]
    /\ target' = [target EXCEPT ![gen + 1] = e]
    /\ UNCHANGED <<wake, attempt, sock, cause, firstUse, socketVars>>

\* A mutant: Disconnect leaves c.conn.
DisconnectKeepsConn ==
    /\ gen < MaxGen
    /\ CancelLoop
    /\ cancelSet' = FALSE
    /\ gen' = gen + 1
    /\ status' = "idle"
    /\ NewSession
    /\ UNCHANGED <<endpoint, conn, wake, pc, target, attempt, sock, cause, firstUse, socketVars>>

\* The critical section of Disconnect.  c.endpoint stays.
Disconnect ==
    /\ gen < MaxGen
    /\ CancelLoop
    /\ cancelSet' = FALSE
    /\ gen' = gen + 1
    /\ status' = "idle"
    /\ conn' = NoSocket
    /\ NewSession
    /\ UNCHANGED <<endpoint, wake, pc, target, attempt, sock, cause, firstUse, socketVars>>

-----------------------------------------------------------------------------
(* The UI executor and the pairing goroutine.                              *)

\* Bind's boot sequence: dial the active desk, if the phone has one.
Boot ==
    /\ ui.op = "boot"
    /\ IF active = NoEndpoint THEN UNCHANGED <<appVars, wake, sessVars, loopVars, socketVars>>
                              ELSE Connect(active)
    /\ ui' = Free
    /\ UNCHANGED <<storeVars, pairing>>

\* A pairing's goroutine: the pin (an empty one if the pairing brought none)
\* and the endpoint are stored, the desk becomes the active one ...
PairingSaves(e) ==
    /\ e \in Pairable
    /\ ui.op # "boot" /\ pairing = NoEndpoint
    /\ pins' = IF e \in Carries THEN pins \cup {e} ELSE pins \ {e}
    /\ known' = known \cup {e}
    /\ active' = e
    /\ pairing' = e
    /\ UNCHANGED <<appVars, wake, sessVars, loopVars, socketVars, ui>>

\* ... and then Connect.
PairingConnects ==
    /\ pairing # NoEndpoint
    /\ Connect(pairing)
    /\ pairing' = NoEndpoint
    /\ UNCHANGED <<storeVars, ui>>

\* Tap on another desk's row: SetActive, then Connect.
SwitchDesk(e) ==
    /\ ui = Free
    /\ e \in known \ {active}
    /\ active' = e
    /\ Connect(e)
    /\ UNCHANGED <<pins, known, ui, pairing>>

\* "Forget this device": Disconnect, RemoveEndpoint, then Connect to the desk
\* that is active now, if there is one.
ForgetDevice ==
    /\ ui = Free
    /\ active # NoEndpoint
    /\ Disconnect
    /\ ui' = [op |-> "forget", e |-> active]
    /\ UNCHANGED <<storeVars, pairing>>

RemoveEndpoint ==
    /\ ui.op = "forget"
    /\ pins' = pins \ {ui.e}
    /\ known' = known \ {ui.e}
    /\ IF active # ui.e THEN UNCHANGED active
       ELSE IF known' = {} THEN active' = NoEndpoint ELSE active' \in known'
    /\ ui' = [op |-> "rejoin", e |-> NoEndpoint]
    /\ UNCHANGED <<appVars, wake, sessVars, loopVars, socketVars, pairing>>

Rejoin ==
    /\ ui.op = "rejoin"
    /\ IF active = NoEndpoint THEN UNCHANGED <<appVars, wake, sessVars, loopVars, socketVars>>
                              ELSE Connect(active)
    /\ ui' = Free
    /\ UNCHANGED <<storeVars, pairing>>

\* Retry and Resume read the state under the lock and act after it.
RetryReads ==
    /\ ui = Free
    /\ \/ /\ cancelSet /\ status = "reconnecting"
          /\ ui' = [op |-> "wake", e |-> NoEndpoint]
       \/ /\ ~(cancelSet /\ status = "reconnecting")
          /\ endpoint # NoEndpoint
          /\ ui' = [op |-> "retry", e |-> endpoint]
    /\ UNCHANGED <<appVars, wake, sessVars, loopVars, socketVars, storeVars, pairing>>

RetryConnects ==
    /\ ui.op = "retry"
    /\ Connect(ui.e)
    /\ ui' = Free
    /\ UNCHANGED <<storeVars, pairing>>

\* The probe Resume starts on a connected socket is one more cause of
\* ConnFails; the nudge is the one Retry gives.
ResumeReads ==
    /\ ui = Free
    /\ status = "reconnecting"
    /\ ui' = [op |-> "wake", e |-> NoEndpoint]
    /\ UNCHANGED <<appVars, wake, sessVars, loopVars, socketVars, storeVars, pairing>>

\* select { case c.wake <- struct{}{}: default: }
WakeSent ==
    /\ ui.op = "wake"
    /\ wake' = TRUE
    /\ ui' = Free
    /\ UNCHANGED <<appVars, sessVars, loopVars, socketVars, storeVars, pairing>>

-----------------------------------------------------------------------------
(* run, the loop of generation g.                                          *)

At(g, p) == pc[g] = p

\* A mutant: no loop is stale.
CurrentAlways(g) == g \in Gen

\* setStatus: a loop that is no longer the current one is told to exit.
Current(g) == g = gen

\* setStatus(g, st), and on to the program point p when it reports true, q
\* when it reports false.
SetStatus(g, st, p, q) ==
    /\ status' = IF Current(g) THEN st ELSE status
    /\ pc' = [pc EXCEPT ![g] = IF Current(g) THEN p ELSE q]

\* A mutant: the ladder has no last rung.
ClimbOn(g) == attempt' = [attempt EXCEPT ![g] = @ + 1]

Climb(g) == attempt' = [attempt EXCEPT ![g] = IF @ < Rungs THEN @ + 1 ELSE @]

Rest == <<gen, endpoint, cancelSet, cancelled, target>>

LoopStart(g) ==
    /\ At(g, "start")
    /\ SetStatus(g, "connecting", "dial", "gone")
    /\ firstUse' = [firstUse EXCEPT ![g] = target[g] \notin pins \cup Carries]
    /\ sock' = [sock EXCEPT ![g] = NoSocket]
    /\ cause' = [cause EXCEPT ![g] = "none"]
    /\ UNCHANGED <<Rest, conn, wake, sessVars, attempt, socketVars, storeVars, ui, pairing>>

\* What the pin has to say of a dial that ended with cause c.  A certificate is
\* a first use only when no pin was stored and the pairing carried none, and a
\* mismatch only otherwise; it is neither when it is the pinned one, when a CA
\* vouches for it, or when the dial failed before TLS.  A first use is not
\* refused, but the upgrade that follows may still fail.
DecideCert(g, c, decided) ==
    /\ c = "certMismatch" => ~firstUse[g]
    /\ decided => firstUse[g]

\* The dial comes back: with an error, or with the next socket.  A cancelled
\* loop closes the socket and returns; no other step can
\* tell the return of the dial from the check of ctx that follows.
DialReturns(g, c, decided) ==
    /\ At(g, "dial")
    /\ DecideCert(g, c, decided)
    /\ firstUse' = [firstUse EXCEPT ![g] = FALSE]
    /\ cause' = [cause EXCEPT ![g] = c]
    /\ IF c = "none"
         THEN \E s \in Socket :
                /\ owner[s] = 0 /\ \A r \in Socket : r < s => owner[r] # 0
                /\ sock' = [sock EXCEPT ![g] = s]
                /\ owner' = [owner EXCEPT ![s] = g]
                /\ open' = [open EXCEPT ![s] = ~cancelled[g]]
         ELSE UNCHANGED <<sock, owner, open>>
    /\ pc' = [pc EXCEPT ![g] = IF cancelled[g] THEN "gone" ELSE IF decided THEN "pin" ELSE "outcome"]
    /\ UNCHANGED <<Rest, status, conn, wake, sessVars, attempt, closed, reader, welcome,
                   storeVars, ui, pairing>>

\* Trust on first use: c.store.WritePin.
WritePin(g) ==
    /\ At(g, "pin")
    /\ pins' = pins \cup {target[g]}
    /\ pc' = [pc EXCEPT ![g] = "outcome"]
    /\ UNCHANGED <<Rest, status, conn, wake, sessVars, attempt, sock, cause, firstUse, socketVars,
                   known, active, ui, pairing>>

DialHardStop(g) ==
    /\ At(g, "outcome")
    /\ cause[g] \in {"certMismatch", "unauthorized"}
    /\ SetStatus(g, cause[g], "gone", "gone")
    /\ UNCHANGED <<Rest, conn, wake, sessVars, attempt, sock, cause, firstUse, socketVars,
                   storeVars, ui, pairing>>

DialFailed(g) ==
    /\ At(g, "outcome")
    /\ cause[g] = "error"
    /\ SetStatus(g, "reconnecting", "wait", "gone")
    /\ Climb(g)
    /\ UNCHANGED <<Rest, conn, wake, sessVars, sock, cause, firstUse, socketVars, storeVars, ui, pairing>>

\* A mutant: the socket of a stale dial is forgotten.
LeavesSocketOpen(g) == UNCHANGED open

DropSocket(g) == open' = [open EXCEPT ![sock[g]] = FALSE]

\* A new socket: the grids of the old one go, before the first message of the
\* new one can be folded, and New starts the reader.
Attach(g) ==
    /\ At(g, "outcome")
    /\ cause[g] = "none"
    /\ Current(g)
    /\ grids' = {}
    /\ conn' = sock[g]
    /\ reader' = [reader EXCEPT ![sock[g]] = "idle"]
    /\ pc' = [pc EXCEPT ![g] = "welcome"]
    /\ UNCHANGED <<Rest, status, wake, roster, attempt, sock, cause, firstUse, owner, open,
                   closed, welcome, storeVars, ui, pairing>>

AttachStale(g) ==
    /\ At(g, "outcome")
    /\ cause[g] = "none"
    /\ ~Current(g)
    /\ DropSocket(g)
    /\ pc' = [pc EXCEPT ![g] = "gone"]
    /\ UNCHANGED <<Rest, status, conn, wake, sessVars, attempt, sock, cause, firstUse, owner,
                   closed, reader, welcome, storeVars, ui, pairing>>

\* conn.Welcome returns nil: backoff.Reset, setStatus(Connected); a stale loop
\* closes its Conn and returns.
WelcomeReturns(g) ==
    /\ At(g, "welcome")
    /\ welcome[sock[g]] = "ok"
    /\ attempt' = [attempt EXCEPT ![g] = 0]
    /\ SetStatus(g, "connected", "serve", "close")
    /\ cause' = [cause EXCEPT ![g] = IF Current(g) THEN "none" ELSE "cancelled"]
    /\ UNCHANGED <<Rest, conn, wake, sessVars, sock, firstUse, socketVars, storeVars, ui, pairing>>

\* conn.Welcome returns the refusal, the socket's death, or ctx's end.
WelcomeFails(g) ==
    /\ At(g, "welcome")
    /\ \/ /\ welcome[sock[g]] = "refused"
          /\ cause' = [cause EXCEPT ![g] = "refused"]
       \/ /\ welcome[sock[g]] = "none" /\ closed[sock[g]]
          /\ cause' = [cause EXCEPT ![g] = "error"]
       \/ /\ cancelled[g]
          /\ cause' = [cause EXCEPT ![g] = "cancelled"]
    /\ pc' = [pc EXCEPT ![g] = "close"]
    /\ UNCHANGED <<Rest, status, conn, wake, sessVars, attempt, sock, firstUse, socketVars,
                   storeVars, ui, pairing>>

\* A mutant: Done is the failure, not the exit of the reader.
FailedConnIsDone(g) == closed[sock[g]]

\* The select on ctx.Done and conn.Done, which is the reader's exit.
ConnDone(g) == reader[sock[g]] = "gone"

\* A mutant: the serving loop does not look at ctx.
ServeUncancelled(g) == At(g, "serve") /\ cancelled[g] /\ UNCHANGED vars

ServeCancelled(g) ==
    /\ At(g, "serve")
    /\ cancelled[g]
    /\ cause' = [cause EXCEPT ![g] = "cancelled"]
    /\ pc' = [pc EXCEPT ![g] = "close"]
    /\ UNCHANGED <<Rest, status, conn, wake, sessVars, attempt, sock, firstUse, socketVars,
                   storeVars, ui, pairing>>

\* conn.Done, then c.conn = nil under the lock ...
ServeLost(g) ==
    /\ At(g, "serve")
    /\ ConnDone(g)
    /\ conn' = IF Current(g) /\ conn = sock[g] THEN NoSocket ELSE conn
    /\ pc' = [pc EXCEPT ![g] = "lost"]
    /\ UNCHANGED <<Rest, status, wake, sessVars, attempt, sock, cause, firstUse, socketVars,
                   storeVars, ui, pairing>>

\* ... then the status in another critical section, then the wait.
LostWaits(g) ==
    /\ At(g, "lost")
    /\ SetStatus(g, "reconnecting", "wait", "gone")
    /\ Climb(g)
    /\ UNCHANGED <<Rest, conn, wake, sessVars, sock, cause, firstUse, socketVars, storeVars, ui, pairing>>

\* conn.Close(): fail and close the socket, and then wait for the reader ...
CloseConn(g) ==
    /\ At(g, "close")
    /\ closed' = [closed EXCEPT ![sock[g]] = TRUE]
    /\ open' = [open EXCEPT ![sock[g]] = FALSE]
    /\ pc' = [pc EXCEPT ![g] = "join"]
    /\ UNCHANGED <<Rest, status, conn, wake, sessVars, attempt, sock, cause, firstUse, owner,
                   reader, welcome, storeVars, ui, pairing>>

\* ... and after it: ctx, then the hard stop, then the ladder.
AfterClose(g) ==
    /\ At(g, "join")
    /\ reader[sock[g]] = "gone"
    /\ \/ /\ cancelled[g] \/ cause[g] = "cancelled"
          /\ pc' = [pc EXCEPT ![g] = "gone"]
          /\ UNCHANGED <<status, attempt>>
       \/ /\ ~cancelled[g] /\ cause[g] = "refused"
          /\ SetStatus(g, "versionMismatch", "gone", "gone")
          /\ UNCHANGED attempt
       \/ /\ ~cancelled[g] /\ cause[g] = "error"
          /\ SetStatus(g, "reconnecting", "wait", "gone")
          /\ Climb(g)
    /\ UNCHANGED <<Rest, conn, wake, sessVars, sock, cause, firstUse, socketVars, storeVars, ui, pairing>>

\* A mutant: only a nudge ends the wait.
WaitEndsWoken(g) ==
    /\ At(g, "wait")
    /\ \/ /\ cancelled[g]
          /\ pc' = [pc EXCEPT ![g] = "gone"]
          /\ UNCHANGED wake
       \/ /\ wake
          /\ wake' = FALSE
          /\ pc' = [pc EXCEPT ![g] = "start"]
    /\ UNCHANGED <<Rest, status, conn, sessVars, attempt, sock, cause, firstUse, socketVars,
                   storeVars, ui, pairing>>

\* wait: cancelled, woken, or the step has passed.
WaitEnds(g) ==
    /\ At(g, "wait")
    /\ \/ /\ cancelled[g]
          /\ pc' = [pc EXCEPT ![g] = "gone"]
          /\ UNCHANGED wake
       \/ /\ wake
          /\ wake' = FALSE
          /\ pc' = [pc EXCEPT ![g] = "start"]
       \/ /\ pc' = [pc EXCEPT ![g] = "start"]
          /\ UNCHANGED wake
    /\ UNCHANGED <<Rest, status, conn, sessVars, attempt, sock, cause, firstUse, socketVars,
                   storeVars, ui, pairing>>

-----------------------------------------------------------------------------
(* The Conns.                                                              *)

\* The server's welcome, good or bad, decided by the reader.
WelcomeArrives(s, w) ==
    /\ reader[s] = "idle" /\ ~closed[s] /\ welcome[s] = "none"
    /\ welcome' = [welcome EXCEPT ![s] = w]
    /\ UNCHANGED <<appVars, wake, sessVars, loopVars, owner, open, closed, reader, storeVars, ui, pairing>>

\* onText is past its check of closed ...
ReaderHoldsMessage(s) ==
    /\ reader[s] = "idle" /\ ~closed[s]
    /\ reader' = [reader EXCEPT ![s] = "folding"]
    /\ UNCHANGED <<appVars, wake, sessVars, loopVars, owner, open, closed, welcome, storeVars, ui, pairing>>

\* ... and calls onMessage, which folds a message of the current generation.
OnMessage(s) ==
    /\ reader[s] = "folding"
    /\ reader' = [reader EXCEPT ![s] = "idle"]
    /\ \/ grids' = (IF owner[s] = gen THEN grids \cup {s} ELSE grids) /\ UNCHANGED roster
       \/ roster' = (IF owner[s] = gen THEN s ELSE roster) /\ UNCHANGED grids
    /\ UNCHANGED <<appVars, wake, loopVars, owner, open, closed, welcome, storeVars, ui, pairing>>

\* The transport dies: network, keep-alive, a probe on resume, or the server.
ConnFails(s) ==
    /\ reader[s] # "none" /\ ~closed[s]
    /\ closed' = [closed EXCEPT ![s] = TRUE]
    /\ open' = [open EXCEPT ![s] = FALSE]
    /\ UNCHANGED <<appVars, wake, sessVars, loopVars, owner, reader, welcome, storeVars, ui, pairing>>

ReaderExits(s) ==
    /\ reader[s] = "idle" /\ closed[s]
    /\ reader' = [reader EXCEPT ![s] = "gone"]
    /\ UNCHANGED <<appVars, wake, sessVars, loopVars, owner, open, closed, welcome, storeVars, ui, pairing>>

-----------------------------------------------------------------------------

\* The Conn a screen may send on.
Live == IF conn # NoSocket /\ ~closed[conn] THEN conn ELSE NoSocket

DialCauses == {"none", "error", "certMismatch", "unauthorized"}

Dial(g) == \E c \in DialCauses, d \in BOOLEAN : DialReturns(g, c, d)

\* The steps a loop takes without waiting for the network.
LoopRuns(g) ==
    \/ LoopStart(g)
    \/ WritePin(g) \/ DialHardStop(g) \/ DialFailed(g)
    \/ Attach(g) \/ AttachStale(g)
    \/ WelcomeReturns(g) \/ WelcomeFails(g)
    \/ ServeCancelled(g) \/ ServeLost(g) \/ LostWaits(g)
    \/ CloseConn(g) \/ AfterClose(g)
    \/ WaitEnds(g)

ReaderRuns(s) == OnMessage(s) \/ ReaderExits(s)

UiRuns == Boot \/ RemoveEndpoint \/ Rejoin \/ RetryConnects \/ WakeSent

UserActs ==
    \/ \E e \in Endpoint : PairingSaves(e) \/ SwitchDesk(e)
    \/ ForgetDevice \/ RetryReads \/ ResumeReads

Next ==
    \/ UserActs \/ UiRuns \/ PairingConnects
    \/ \E g \in Gen : Dial(g) \/ LoopRuns(g)
    \/ \E s \in Socket :
         \/ \E w \in {"ok", "refused"} : WelcomeArrives(s, w)
         \/ ReaderHoldsMessage(s) \/ ReaderRuns(s) \/ ConnFails(s)

SafeSpec == Init /\ [][Next]_vars

\* Goroutines run and timers fire.  A dial whose context is cancelled
\* returns; otherwise the network promises nothing.
Fairness ==
    /\ \A g \in Gen : WF_vars(LoopRuns(g)) /\ WF_vars(cancelled[g] /\ DialReturns(g, "error", FALSE))
    /\ \A s \in Socket : WF_vars(ReaderRuns(s))
    /\ WF_vars(UiRuns) /\ WF_vars(PairingConnects)

Spec == SafeSpec /\ Fairness

-----------------------------------------------------------------------------
(* Properties.                                                             *)

\* A status that promises progress is backed by a loop: while the banner says
\* connecting, connected or reconnecting, the loop of the current generation
\* runs, nobody has cancelled it and Disconnect could; in any other status no
\* loop of that generation is left to overwrite it; and whatever the status,
\* every loop of an older generation has been told to stop.
LoopAlive ==
    /\ IF status \in Busy
         THEN cancelSet /\ pc[gen] \notin {"none", "gone"} /\ ~cancelled[gen]
         ELSE gen = 0 \/ pc[gen] \in {"none", "gone"}
    /\ \A g \in Gen : g < gen => pc[g] = "none" \/ cancelled[g]

\* What a screen sends on is the socket the current loop attached and still
\* serves: never one of another desk, of an earlier dial or of a loop that
\* stopped.
LiveIsCurrent ==
    Live # NoSocket => /\ status \in {"connecting", "connected"}
                       /\ owner[Live] = gen
                       /\ sock[gen] = Live

\* The session is one socket's picture: frames of two sockets never meet in
\* the grids, nothing an older generation's socket said is in it, and once a
\* socket is attached the grids are that socket's.
SessionPure ==
    /\ Cardinality(grids) <= 1
    /\ \A s \in grids : owner[s] = gen /\ (conn # NoSocket => s = conn)
    /\ roster # NoSocket => owner[roster] = gen

\* No transport is leaked: whoever dialled an open socket is still running,
\* holds it, and has yet to close it.
NoLeak ==
    \A s \in Socket : open[s] => /\ owner[s] # 0
                                 /\ sock[owner[s]] = s
                                 /\ pc[owner[s]] \in {"pin", "outcome", "welcome", "serve", "close"}

\* A hard stop, and the idle state, are left only by an act of the user or of
\* a pairing, which is a new generation: no loop, however late, revives them.
HardStopStays == [][(status \in Hard \cup {"idle"} /\ gen' = gen) => status' = status]_vars

\* The connection keeps the promise of module Link, an epoch being a
\* generation: the status moves along the reconnect loop only, and the app
\* does not stay in "reconnecting" for ever.
Promise == INSTANCE Link WITH epoch <- gen
KeepsLink == Promise!Spec

\* A loop that was cancelled ends, wherever it was; and with it, the socket it
\* had open is closed.
CancelledLoopsEnd == \A g \in Gen : cancelled[g] ~> pc[g] = "gone"

\* RemoveEndpoint forgets an endpoint "and everything stored under its id"
\* (src/internal/store/store.go): no pin is stored for a desk that is gone.
ForgottenLeavesNoPin == pins \subseteq known
=============================================================================
