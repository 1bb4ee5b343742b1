-------------------------- MODULE ConnectionProofs --------------------------
(***************************************************************************)
(* Theorems about Connection, for any number of generations, sockets and   *)
(* desks.                                                                  *)
(*                                                                         *)
(* The inductive invariant IInv says which generations have a loop and     *)
(* which of those are cancelled (LoopInv), which status the point of the   *)
(* current loop goes with (StatusInv), what a loop's socket is at each of  *)
(* its points (SocketInv), what c.conn may name (ConnInv) and whose        *)
(* messages the session holds (SessionInv).                                *)
(***************************************************************************)
EXTENDS Connection, FiniteSetTheorems, TLAPS

\* The current loop is there exactly when c.cancel is, and is not cancelled;
\* the loops of older generations are.
LoopInv ==
    /\ cancelSet => gen # 0 /\ pc[gen] # "none"
    /\ ~cancelSet /\ gen # 0 => pc[gen] = "none"
    /\ \A g \in Gen : g > gen => pc[g] = "none"
    /\ \A g \in Gen : g >= gen => ~cancelled[g]
    /\ \A g \in Gen : g < gen => pc[g] = "none" \/ cancelled[g]
    /\ \A g \in Gen : pc[g] # "none" => target[g] \in Endpoint
    /\ \A g \in Gen : pc[g] \in {"close", "join"} => cause[g] # "none"
    /\ \A g \in Gen : pc[g] \in {"close", "join"} /\ cause[g] = "cancelled" => cancelled[g]

\* The status the current loop has written last, by where the loop is.
StatusInv ==
    /\ gen = 0 => status = "idle"
    /\ gen # 0 =>
         /\ pc[gen] = "none" => status = "idle"
         /\ pc[gen] = "start" => status \in {"connecting", "reconnecting"}
         /\ pc[gen] \in {"dial", "pin", "outcome", "welcome", "close",
               "join"} => status = "connecting"
         /\ pc[gen] \in {"serve", "lost"} => status = "connected"
         /\ pc[gen] = "wait" => status = "reconnecting"
         /\ pc[gen] = "gone" => status \in Hard

\* What a socket is, by where the loop that dialled it is; while a reader
\* serves the socket, that loop is attached to it.
Attached == {"welcome", "serve", "close", "join"}
SocketInv ==
    /\ \A s \in Socket : owner[s] = 0 => ~open[s] /\ ~closed[s] /\ reader[s] = "none"
    /\ \A s \in Socket : closed[s] => ~open[s] /\ reader[s] # "none"
    /\ \A s \in Socket : reader[s] = "gone" => closed[s]
    /\ \A s \in Socket : open[s] =>
         sock[owner[s]] = s /\ pc[owner[s]] \in {"pin", "outcome"} \cup Attached
    /\ \A s \in Socket : reader[s] \in {"idle", "folding"} =>
         sock[owner[s]] = s /\ pc[owner[s]] \in Attached

\* What socket a loop has, by where it is.
HeldInv ==
    /\ \A g \in Gen : pc[g] = "dial" => sock[g] = NoSocket
    /\ \A g \in Gen : pc[g] \in {"pin", "outcome"} => (sock[g] = NoSocket <=> cause[g] # "none")
    /\ \A g \in Gen : sock[g] # NoSocket => owner[sock[g]] = g
    /\ \A g \in Gen : pc[g] \in {"pin", "outcome"} /\ sock[g] # NoSocket => reader[sock[g]] = "none"
    /\ \A g \in Gen : pc[g] \in Attached \cup {"lost"} => sock[g] # NoSocket /\ reader[sock[g]] # "none"
    /\ \A g \in Gen : pc[g] = "join" => closed[sock[g]]
    /\ \A g \in Gen : pc[g] = "lost" => reader[sock[g]] = "gone"

\* c.conn is a Conn the current generation made, and while a loop serves it
\* c.conn names nothing else.
ConnInv ==
    /\ conn # NoSocket => owner[conn] = gen /\ reader[conn] # "none"
    /\ gen # 0 /\ pc[gen] \in Attached => conn = sock[gen]

\* Frames of one socket, that of c.conn, and nothing of older generations.
SessionInv ==
    /\ \A r, s \in grids : r = s
    /\ \A s \in grids : owner[s] = gen /\ reader[s] # "none" /\ (conn # NoSocket => s = conn)
    /\ gen # 0 /\ pc[gen] \in Attached => grids \subseteq {sock[gen]}
    /\ roster # NoSocket => owner[roster] = gen

\* The inductive invariant.
IInv == TypeOK /\ LoopInv /\ StatusInv /\ SocketInv /\ HeldInv /\ ConnInv /\ SessionInv

-----------------------------------------------------------------------------

\* All that is used of the bounds.
LEMMA Bounds ==
    /\ 0 \notin Gen
    /\ \A g \in Gen : g \in Nat
    /\ NoSocket \notin Socket
    /\ \A g \in {0} \cup Gen : g < MaxGen => g + 1 \in Gen
    /\ \A s \in Socket : s \in Nat
  BY BoundsAssumption DEF Gen, Socket, NoSocket

\* Every step keeps the types of the connection.
LEMMA AppTypeStep ==
    ASSUME AppTypeOK, LoopTypeOK, StoreTypeOK, [Next]_vars
    PROVE  AppTypeOK'
<1> USE Bounds DEF AppTypeOK, LoopTypeOK, StoreTypeOK, Busy, Hard, vars, appVars, sessVars,
      loopVars, socketVars, storeVars, At, Rest
<1>1. CASE UserActs
  <2>1. ASSUME NEW e \in Endpoint, PairingSaves(e) PROVE AppTypeOK'
    BY <2>1 DEF PairingSaves
  <2>2. ASSUME NEW e \in Endpoint, SwitchDesk(e) PROVE AppTypeOK'
    BY <2>2 DEF SwitchDesk, Connect, CancelLoop, NewSession
  <2>3. CASE ForgetDevice BY <2>3 DEF ForgetDevice, Disconnect, CancelLoop, NewSession
  <2>4. CASE RetryReads BY <2>4 DEF RetryReads
  <2>5. CASE ResumeReads BY <2>5 DEF ResumeReads
  <2>. QED BY <1>1, <2>1, <2>2, <2>3, <2>4, <2>5 DEF UserActs
<1>2. CASE UiRuns
  <2>1. CASE Boot
    <3>1. CASE active = NoEndpoint BY <2>1, <3>1 DEF Boot
    <3>2. CASE active # NoEndpoint BY <2>1, <3>2 DEF Boot, Connect, CancelLoop, NewSession
    <3>. QED BY <3>1, <3>2
  <2>2. CASE RemoveEndpoint BY <2>2 DEF RemoveEndpoint
  <2>3. CASE Rejoin
    <3>1. CASE active = NoEndpoint BY <2>3, <3>1 DEF Rejoin
    <3>2. CASE active # NoEndpoint BY <2>3, <3>2 DEF Rejoin, Connect, CancelLoop, NewSession
    <3>. QED BY <3>1, <3>2
  <2>4. CASE RetryConnects BY <2>4 DEF RetryConnects, Connect, CancelLoop, NewSession
  <2>5. CASE WakeSent BY <2>5 DEF WakeSent
  <2>. QED BY <1>2, <2>1, <2>2, <2>3, <2>4, <2>5 DEF UiRuns
<1>3. CASE PairingConnects BY <1>3 DEF PairingConnects, Connect, CancelLoop, NewSession
<1>4. ASSUME NEW g \in Gen, NEW x \in DialCauses, NEW d \in BOOLEAN, DialReturns(g, x,
      d) PROVE AppTypeOK'
  BY <1>4 DEF DialReturns, DialCauses
<1>5. ASSUME NEW g \in Gen, LoopRuns(g) PROVE AppTypeOK'
  <2>1. CASE LoopStart(g) BY <2>1 DEF LoopStart, SetStatus, Current
  <2>2. CASE WritePin(g) BY <2>2 DEF WritePin
  <2>3. CASE DialHardStop(g) BY <2>3 DEF DialHardStop, SetStatus, Current
  <2>4. CASE DialFailed(g) BY <2>4 DEF DialFailed, Climb, SetStatus, Current
  <2>5. CASE Attach(g) BY <2>5 DEF Attach, Current
  <2>6. CASE AttachStale(g) BY <2>6 DEF AttachStale, DropSocket, Current
  <2>7. CASE WelcomeReturns(g) BY <2>7 DEF WelcomeReturns, SetStatus, Current
  <2>8. CASE WelcomeFails(g) BY <2>8 DEF WelcomeFails
  <2>9. CASE ServeCancelled(g) BY <2>9 DEF ServeCancelled
  <2>10. CASE ServeLost(g) BY <2>10 DEF ServeLost, ConnDone, Current
  <2>11. CASE LostWaits(g) BY <2>11 DEF LostWaits, Climb, SetStatus, Current
  <2>12. CASE CloseConn(g) BY <2>12 DEF CloseConn
  <2>13. CASE AfterClose(g) BY <2>13 DEF AfterClose, Climb, SetStatus, Current
  <2>14. CASE WaitEnds(g) BY <2>14 DEF WaitEnds
  <2>. QED BY <1>5, <2>1, <2>2, <2>3, <2>4, <2>5, <2>6, <2>7, <2>8, <2>9, <2>10, <2>11, <2>12,
        <2>13, <2>14 DEF LoopRuns
<1>6. ASSUME NEW s \in Socket, NEW w \in {"ok", "refused"}, WelcomeArrives(s, w) PROVE AppTypeOK'
  BY <1>6 DEF WelcomeArrives
<1>7. ASSUME NEW s \in Socket,
      ReaderHoldsMessage(s) \/ ReaderRuns(s) \/ ConnFails(s) PROVE AppTypeOK'
  <2>1. CASE ReaderHoldsMessage(s) BY <2>1 DEF ReaderHoldsMessage
  <2>2. CASE OnMessage(s) BY <2>2 DEF OnMessage
  <2>3. CASE ReaderExits(s) BY <2>3 DEF ReaderExits
  <2>4. CASE ConnFails(s) BY <2>4 DEF ConnFails
  <2>. QED BY <1>7, <2>1, <2>2, <2>3, <2>4 DEF ReaderRuns
<1>8. CASE UNCHANGED vars BY <1>8
<1>. HIDE DEF AppTypeOK, LoopTypeOK, StoreTypeOK, Busy, Hard, vars, appVars, sessVars, loopVars,
      socketVars, storeVars, At, Rest
<1>. QED BY <1>1, <1>2, <1>3, <1>4, <1>5, <1>6, <1>7, <1>8 DEF Next, Dial

\* The same, of the locals of the loops.
LEMMA LoopTypeStep ==
    ASSUME AppTypeOK, LoopTypeOK, StoreTypeOK, [Next]_vars
    PROVE  LoopTypeOK'
<1> USE Bounds, BoundsAssumption DEF AppTypeOK, LoopTypeOK, StoreTypeOK, LoopPc, DialCauses,
      vars, appVars, sessVars, loopVars, socketVars, storeVars, At, Rest
<1>1. CASE UserActs
  <2>1. ASSUME NEW e \in Endpoint, PairingSaves(e) PROVE LoopTypeOK'
    BY <2>1 DEF PairingSaves
  <2>2. ASSUME NEW e \in Endpoint, SwitchDesk(e) PROVE LoopTypeOK'
    BY <2>2 DEF SwitchDesk, Connect, CancelLoop, NewSession
  <2>3. CASE ForgetDevice BY <2>3 DEF ForgetDevice, Disconnect, CancelLoop, NewSession
  <2>4. CASE RetryReads BY <2>4 DEF RetryReads
  <2>5. CASE ResumeReads BY <2>5 DEF ResumeReads
  <2>. QED BY <1>1, <2>1, <2>2, <2>3, <2>4, <2>5 DEF UserActs
<1>2. CASE UiRuns
  <2>1. CASE Boot
    <3>1. CASE active = NoEndpoint BY <2>1, <3>1 DEF Boot
    <3>2. CASE active # NoEndpoint BY <2>1, <3>2 DEF Boot, Connect, CancelLoop, NewSession
    <3>. QED BY <3>1, <3>2
  <2>2. CASE RemoveEndpoint BY <2>2 DEF RemoveEndpoint
  <2>3. CASE Rejoin
    <3>1. CASE active = NoEndpoint BY <2>3, <3>1 DEF Rejoin
    <3>2. CASE active # NoEndpoint BY <2>3, <3>2 DEF Rejoin, Connect, CancelLoop, NewSession
    <3>. QED BY <3>1, <3>2
  <2>4. CASE RetryConnects BY <2>4 DEF RetryConnects, Connect, CancelLoop, NewSession
  <2>5. CASE WakeSent BY <2>5 DEF WakeSent
  <2>. QED BY <1>2, <2>1, <2>2, <2>3, <2>4, <2>5 DEF UiRuns
<1>3. CASE PairingConnects BY <1>3 DEF PairingConnects, Connect, CancelLoop, NewSession
<1>4. ASSUME NEW g \in Gen, NEW x \in DialCauses, NEW d \in BOOLEAN, DialReturns(g, x,
      d) PROVE LoopTypeOK'
  BY <1>4 DEF DialReturns, DialCauses
<1>5. ASSUME NEW g \in Gen, LoopRuns(g) PROVE LoopTypeOK'
  <2>1. CASE LoopStart(g) BY <2>1 DEF LoopStart, SetStatus, Current
  <2>2. CASE WritePin(g) BY <2>2 DEF WritePin
  <2>3. CASE DialHardStop(g) BY <2>3 DEF DialHardStop, SetStatus, Current
  <2>4. CASE DialFailed(g) BY <2>4 DEF DialFailed, Climb, SetStatus, Current
  <2>5. CASE Attach(g) BY <2>5 DEF Attach, Current
  <2>6. CASE AttachStale(g) BY <2>6 DEF AttachStale, DropSocket, Current
  <2>7. CASE WelcomeReturns(g) BY <2>7 DEF WelcomeReturns, SetStatus, Current
  <2>8. CASE WelcomeFails(g) BY <2>8 DEF WelcomeFails
  <2>9. CASE ServeCancelled(g) BY <2>9 DEF ServeCancelled
  <2>10. CASE ServeLost(g) BY <2>10 DEF ServeLost, ConnDone, Current
  <2>11. CASE LostWaits(g) BY <2>11 DEF LostWaits, Climb, SetStatus, Current
  <2>12. CASE CloseConn(g) BY <2>12 DEF CloseConn
  <2>13. CASE AfterClose(g) BY <2>13 DEF AfterClose, Climb, SetStatus, Current
  <2>14. CASE WaitEnds(g) BY <2>14 DEF WaitEnds
  <2>. QED BY <1>5, <2>1, <2>2, <2>3, <2>4, <2>5, <2>6, <2>7, <2>8, <2>9, <2>10, <2>11, <2>12,
        <2>13, <2>14 DEF LoopRuns
<1>6. ASSUME NEW s \in Socket, NEW w \in {"ok", "refused"}, WelcomeArrives(s, w) PROVE LoopTypeOK'
  BY <1>6 DEF WelcomeArrives
<1>7. ASSUME NEW s \in Socket,
      ReaderHoldsMessage(s) \/ ReaderRuns(s) \/ ConnFails(s) PROVE LoopTypeOK'
  <2>1. CASE ReaderHoldsMessage(s) BY <2>1 DEF ReaderHoldsMessage
  <2>2. CASE OnMessage(s) BY <2>2 DEF OnMessage
  <2>3. CASE ReaderExits(s) BY <2>3 DEF ReaderExits
  <2>4. CASE ConnFails(s) BY <2>4 DEF ConnFails
  <2>. QED BY <1>7, <2>1, <2>2, <2>3, <2>4 DEF ReaderRuns
<1>8. CASE UNCHANGED vars BY <1>8
<1>. HIDE DEF AppTypeOK, LoopTypeOK, StoreTypeOK, LoopPc, DialCauses, vars, appVars, sessVars,
      loopVars, socketVars, storeVars, At, Rest
<1>. QED BY <1>1, <1>2, <1>3, <1>4, <1>5, <1>6, <1>7, <1>8 DEF Next, Dial

\* The same, of the sockets.
LEMMA SocketTypeStep ==
    ASSUME AppTypeOK, LoopTypeOK, SocketTypeOK, [Next]_vars
    PROVE  SocketTypeOK'
<1> USE Bounds DEF SocketTypeOK, vars, appVars, sessVars, loopVars, socketVars, storeVars, At, Rest
<1>1. CASE UserActs
  <2>1. ASSUME NEW e \in Endpoint, PairingSaves(e) PROVE SocketTypeOK'
    BY <2>1 DEF PairingSaves
  <2>2. ASSUME NEW e \in Endpoint, SwitchDesk(e) PROVE SocketTypeOK'
    BY <2>2 DEF SwitchDesk, Connect, CancelLoop, NewSession
  <2>3. CASE ForgetDevice BY <2>3 DEF ForgetDevice, Disconnect, CancelLoop, NewSession
  <2>4. CASE RetryReads BY <2>4 DEF RetryReads
  <2>5. CASE ResumeReads BY <2>5 DEF ResumeReads
  <2>. QED BY <1>1, <2>1, <2>2, <2>3, <2>4, <2>5 DEF UserActs
<1>2. CASE UiRuns
  <2>1. CASE Boot
    <3>1. CASE active = NoEndpoint BY <2>1, <3>1 DEF Boot
    <3>2. CASE active # NoEndpoint BY <2>1, <3>2 DEF Boot, Connect, CancelLoop, NewSession
    <3>. QED BY <3>1, <3>2
  <2>2. CASE RemoveEndpoint BY <2>2 DEF RemoveEndpoint
  <2>3. CASE Rejoin
    <3>1. CASE active = NoEndpoint BY <2>3, <3>1 DEF Rejoin
    <3>2. CASE active # NoEndpoint BY <2>3, <3>2 DEF Rejoin, Connect, CancelLoop, NewSession
    <3>. QED BY <3>1, <3>2
  <2>4. CASE RetryConnects BY <2>4 DEF RetryConnects, Connect, CancelLoop, NewSession
  <2>5. CASE WakeSent BY <2>5 DEF WakeSent
  <2>. QED BY <1>2, <2>1, <2>2, <2>3, <2>4, <2>5 DEF UiRuns
<1>3. CASE PairingConnects BY <1>3 DEF PairingConnects, Connect, CancelLoop, NewSession
<1>4. ASSUME NEW g \in Gen, NEW x \in DialCauses, NEW d \in BOOLEAN, DialReturns(g, x,
      d) PROVE SocketTypeOK'
  BY <1>4 DEF DialReturns, DialCauses
<1>5. ASSUME NEW g \in Gen, LoopRuns(g) PROVE SocketTypeOK'
  <2>1. CASE LoopStart(g) BY <2>1 DEF LoopStart, SetStatus, Current
  <2>2. CASE WritePin(g) BY <2>2 DEF WritePin
  <2>3. CASE DialHardStop(g) BY <2>3 DEF DialHardStop, SetStatus, Current
  <2>4. CASE DialFailed(g) BY <2>4 DEF DialFailed, Climb, SetStatus, Current
  <2>5. CASE Attach(g) BY <2>5 DEF Attach, Current
  <2>6. CASE AttachStale(g) BY <2>6 DEF AttachStale, DropSocket, Current
  <2>7. CASE WelcomeReturns(g) BY <2>7 DEF WelcomeReturns, SetStatus, Current
  <2>8. CASE WelcomeFails(g) BY <2>8 DEF WelcomeFails
  <2>9. CASE ServeCancelled(g) BY <2>9 DEF ServeCancelled
  <2>10. CASE ServeLost(g) BY <2>10 DEF ServeLost, ConnDone, Current
  <2>11. CASE LostWaits(g) BY <2>11 DEF LostWaits, Climb, SetStatus, Current
  <2>12. CASE CloseConn(g) BY <2>12 DEF CloseConn
  <2>13. CASE AfterClose(g) BY <2>13 DEF AfterClose, Climb, SetStatus, Current
  <2>14. CASE WaitEnds(g) BY <2>14 DEF WaitEnds
  <2>. QED BY <1>5, <2>1, <2>2, <2>3, <2>4, <2>5, <2>6, <2>7, <2>8, <2>9, <2>10, <2>11, <2>12,
        <2>13, <2>14 DEF LoopRuns
<1>6. ASSUME NEW s \in Socket, NEW w \in {"ok", "refused"}, WelcomeArrives(s, w) PROVE SocketTypeOK'
  BY <1>6 DEF WelcomeArrives
<1>7. ASSUME NEW s \in Socket,
      ReaderHoldsMessage(s) \/ ReaderRuns(s) \/ ConnFails(s) PROVE SocketTypeOK'
  <2>1. CASE ReaderHoldsMessage(s) BY <2>1 DEF ReaderHoldsMessage
  <2>2. CASE OnMessage(s) BY <2>2 DEF OnMessage
  <2>3. CASE ReaderExits(s) BY <2>3 DEF ReaderExits
  <2>4. CASE ConnFails(s) BY <2>4 DEF ConnFails
  <2>. QED BY <1>7, <2>1, <2>2, <2>3, <2>4 DEF ReaderRuns
<1>8. CASE UNCHANGED vars BY <1>8
<1>. HIDE DEF SocketTypeOK, vars, appVars, sessVars, loopVars, socketVars, storeVars, At, Rest
<1>. QED BY <1>1, <1>2, <1>3, <1>4, <1>5, <1>6, <1>7, <1>8 DEF Next, Dial

\* The same, of the store and the UI executor.
LEMMA StoreTypeStep ==
    ASSUME AppTypeOK, LoopTypeOK, StoreTypeOK, LoopInv, [Next]_vars
    PROVE  StoreTypeOK'
<1> USE Bounds DEF AppTypeOK, StoreTypeOK, UI, Free, LoopInv, vars, appVars, sessVars, loopVars,
      socketVars, storeVars, At, Rest
<1>1. CASE UserActs
  <2>1. ASSUME NEW e \in Endpoint, PairingSaves(e) PROVE StoreTypeOK'
    BY <2>1 DEF PairingSaves
  <2>2. ASSUME NEW e \in Endpoint, SwitchDesk(e) PROVE StoreTypeOK'
    BY <2>2 DEF SwitchDesk, Connect, CancelLoop, NewSession
  <2>3. CASE ForgetDevice BY <2>3 DEF ForgetDevice, Disconnect, CancelLoop, NewSession
  <2>4. CASE RetryReads BY <2>4 DEF RetryReads
  <2>5. CASE ResumeReads BY <2>5 DEF ResumeReads
  <2>. QED BY <1>1, <2>1, <2>2, <2>3, <2>4, <2>5 DEF UserActs
<1>2. CASE UiRuns
  <2>1. CASE Boot
    <3>1. CASE active = NoEndpoint BY <2>1, <3>1 DEF Boot
    <3>2. CASE active # NoEndpoint BY <2>1, <3>2 DEF Boot, Connect, CancelLoop, NewSession
    <3>. QED BY <3>1, <3>2
  <2>2. CASE RemoveEndpoint BY <2>2 DEF RemoveEndpoint
  <2>3. CASE Rejoin
    <3>1. CASE active = NoEndpoint BY <2>3, <3>1 DEF Rejoin
    <3>2. CASE active # NoEndpoint BY <2>3, <3>2 DEF Rejoin, Connect, CancelLoop, NewSession
    <3>. QED BY <3>1, <3>2
  <2>4. CASE RetryConnects BY <2>4 DEF RetryConnects, Connect, CancelLoop, NewSession
  <2>5. CASE WakeSent BY <2>5 DEF WakeSent
  <2>. QED BY <1>2, <2>1, <2>2, <2>3, <2>4, <2>5 DEF UiRuns
<1>3. CASE PairingConnects BY <1>3 DEF PairingConnects, Connect, CancelLoop, NewSession
<1>4. ASSUME NEW g \in Gen, NEW x \in DialCauses, NEW d \in BOOLEAN, DialReturns(g, x,
      d) PROVE StoreTypeOK'
  BY <1>4 DEF DialReturns, DialCauses
<1>5. ASSUME NEW g \in Gen, LoopRuns(g) PROVE StoreTypeOK'
  <2>1. CASE LoopStart(g) BY <2>1 DEF LoopStart, SetStatus, Current
  <2>2. CASE WritePin(g) BY <2>2 DEF WritePin
  <2>3. CASE DialHardStop(g) BY <2>3 DEF DialHardStop, SetStatus, Current
  <2>4. CASE DialFailed(g) BY <2>4 DEF DialFailed, Climb, SetStatus, Current
  <2>5. CASE Attach(g) BY <2>5 DEF Attach, Current
  <2>6. CASE AttachStale(g) BY <2>6 DEF AttachStale, DropSocket, Current
  <2>7. CASE WelcomeReturns(g) BY <2>7 DEF WelcomeReturns, SetStatus, Current
  <2>8. CASE WelcomeFails(g) BY <2>8 DEF WelcomeFails
  <2>9. CASE ServeCancelled(g) BY <2>9 DEF ServeCancelled
  <2>10. CASE ServeLost(g) BY <2>10 DEF ServeLost, ConnDone, Current
  <2>11. CASE LostWaits(g) BY <2>11 DEF LostWaits, Climb, SetStatus, Current
  <2>12. CASE CloseConn(g) BY <2>12 DEF CloseConn
  <2>13. CASE AfterClose(g) BY <2>13 DEF AfterClose, Climb, SetStatus, Current
  <2>14. CASE WaitEnds(g) BY <2>14 DEF WaitEnds
  <2>. QED BY <1>5, <2>1, <2>2, <2>3, <2>4, <2>5, <2>6, <2>7, <2>8, <2>9, <2>10, <2>11, <2>12,
        <2>13, <2>14 DEF LoopRuns
<1>6. ASSUME NEW s \in Socket, NEW w \in {"ok", "refused"}, WelcomeArrives(s, w) PROVE StoreTypeOK'
  BY <1>6 DEF WelcomeArrives
<1>7. ASSUME NEW s \in Socket,
      ReaderHoldsMessage(s) \/ ReaderRuns(s) \/ ConnFails(s) PROVE StoreTypeOK'
  <2>1. CASE ReaderHoldsMessage(s) BY <2>1 DEF ReaderHoldsMessage
  <2>2. CASE OnMessage(s) BY <2>2 DEF OnMessage
  <2>3. CASE ReaderExits(s) BY <2>3 DEF ReaderExits
  <2>4. CASE ConnFails(s) BY <2>4 DEF ConnFails
  <2>. QED BY <1>7, <2>1, <2>2, <2>3, <2>4 DEF ReaderRuns
<1>8. CASE UNCHANGED vars BY <1>8
<1>. HIDE DEF AppTypeOK, StoreTypeOK, UI, Free, LoopInv, vars, appVars, sessVars, loopVars,
      socketVars, storeVars, At, Rest
<1>. QED BY <1>1, <1>2, <1>3, <1>4, <1>5, <1>6, <1>7, <1>8 DEF Next, Dial

\* Which generations have a loop, and which are cancelled.
LEMMA LoopStep ==
    ASSUME AppTypeOK, LoopTypeOK, StoreTypeOK, LoopInv, [Next]_vars
    PROVE  LoopInv'
<1> USE Bounds DEF AppTypeOK, LoopTypeOK, StoreTypeOK, LoopInv, vars, appVars, sessVars,
      loopVars, socketVars, storeVars, At, Rest
<1>1. CASE UserActs
  <2>1. ASSUME NEW e \in Endpoint, PairingSaves(e) PROVE LoopInv'
    BY <2>1 DEF PairingSaves
  <2>2. ASSUME NEW e \in Endpoint, SwitchDesk(e) PROVE LoopInv'
    BY <2>2 DEF SwitchDesk, Connect, CancelLoop, NewSession
  <2>3. CASE ForgetDevice BY <2>3 DEF ForgetDevice, Disconnect, CancelLoop, NewSession
  <2>4. CASE RetryReads BY <2>4 DEF RetryReads
  <2>5. CASE ResumeReads BY <2>5 DEF ResumeReads
  <2>. QED BY <1>1, <2>1, <2>2, <2>3, <2>4, <2>5 DEF UserActs
<1>2. CASE UiRuns
  <2>1. CASE Boot
    <3>1. CASE active = NoEndpoint BY <2>1, <3>1 DEF Boot
    <3>2. CASE active # NoEndpoint BY <2>1, <3>2 DEF Boot, Connect, CancelLoop, NewSession
    <3>. QED BY <3>1, <3>2
  <2>2. CASE RemoveEndpoint BY <2>2 DEF RemoveEndpoint
  <2>3. CASE Rejoin
    <3>1. CASE active = NoEndpoint BY <2>3, <3>1 DEF Rejoin
    <3>2. CASE active # NoEndpoint BY <2>3, <3>2 DEF Rejoin, Connect, CancelLoop, NewSession
    <3>. QED BY <3>1, <3>2
  <2>4. CASE RetryConnects BY <2>4 DEF RetryConnects, Connect, CancelLoop, NewSession
  <2>5. CASE WakeSent BY <2>5 DEF WakeSent
  <2>. QED BY <1>2, <2>1, <2>2, <2>3, <2>4, <2>5 DEF UiRuns
<1>3. CASE PairingConnects BY <1>3 DEF PairingConnects, Connect, CancelLoop, NewSession
<1>4. ASSUME NEW g \in Gen, NEW x \in DialCauses, NEW d \in BOOLEAN, DialReturns(g, x,
      d) PROVE LoopInv'
  BY <1>4 DEF DialReturns, DialCauses
<1>5. ASSUME NEW g \in Gen, LoopRuns(g) PROVE LoopInv'
  <2>1. CASE LoopStart(g) BY <2>1 DEF LoopStart, SetStatus, Current
  <2>2. CASE WritePin(g) BY <2>2 DEF WritePin
  <2>3. CASE DialHardStop(g) BY <2>3 DEF DialHardStop, SetStatus, Current
  <2>4. CASE DialFailed(g) BY <2>4 DEF DialFailed, Climb, SetStatus, Current
  <2>5. CASE Attach(g) BY <2>5 DEF Attach, Current
  <2>6. CASE AttachStale(g) BY <2>6 DEF AttachStale, DropSocket, Current
  <2>7. CASE WelcomeReturns(g) BY <2>7 DEF WelcomeReturns, SetStatus, Current
  <2>8. CASE WelcomeFails(g) BY <2>8 DEF WelcomeFails
  <2>9. CASE ServeCancelled(g) BY <2>9 DEF ServeCancelled
  <2>10. CASE ServeLost(g) BY <2>10 DEF ServeLost, ConnDone, Current
  <2>11. CASE LostWaits(g) BY <2>11 DEF LostWaits, Climb, SetStatus, Current
  <2>12. CASE CloseConn(g) BY <2>12 DEF CloseConn
  <2>13. CASE AfterClose(g) BY <2>13 DEF AfterClose, Climb, SetStatus, Current
  <2>14. CASE WaitEnds(g) BY <2>14 DEF WaitEnds
  <2>. QED BY <1>5, <2>1, <2>2, <2>3, <2>4, <2>5, <2>6, <2>7, <2>8, <2>9, <2>10, <2>11, <2>12,
        <2>13, <2>14 DEF LoopRuns
<1>6. ASSUME NEW s \in Socket, NEW w \in {"ok", "refused"}, WelcomeArrives(s, w) PROVE LoopInv'
  BY <1>6 DEF WelcomeArrives
<1>7. ASSUME NEW s \in Socket, ReaderHoldsMessage(s) \/ ReaderRuns(s) \/ ConnFails(s) PROVE LoopInv'
  <2>1. CASE ReaderHoldsMessage(s) BY <2>1 DEF ReaderHoldsMessage
  <2>2. CASE OnMessage(s) BY <2>2 DEF OnMessage
  <2>3. CASE ReaderExits(s) BY <2>3 DEF ReaderExits
  <2>4. CASE ConnFails(s) BY <2>4 DEF ConnFails
  <2>. QED BY <1>7, <2>1, <2>2, <2>3, <2>4 DEF ReaderRuns
<1>8. CASE UNCHANGED vars BY <1>8
<1>. HIDE DEF AppTypeOK, LoopTypeOK, StoreTypeOK, LoopInv, vars, appVars, sessVars, loopVars,
      socketVars, storeVars, At, Rest
<1>. QED BY <1>1, <1>2, <1>3, <1>4, <1>5, <1>6, <1>7, <1>8 DEF Next, Dial

\* The status goes with the point of the current loop.
LEMMA StatusStep ==
    ASSUME AppTypeOK, LoopTypeOK, LoopInv, StatusInv, [Next]_vars
    PROVE  StatusInv'
<1> USE Bounds DEF AppTypeOK, LoopTypeOK, LoopInv, StatusInv, Hard, vars, appVars, sessVars,
      loopVars, socketVars, storeVars, At, Rest
<1>1. CASE UserActs
  <2>1. ASSUME NEW e \in Endpoint, PairingSaves(e) PROVE StatusInv'
    BY <2>1 DEF PairingSaves
  <2>2. ASSUME NEW e \in Endpoint, SwitchDesk(e) PROVE StatusInv'
    BY <2>2 DEF SwitchDesk, Connect, CancelLoop, NewSession
  <2>3. CASE ForgetDevice BY <2>3 DEF ForgetDevice, Disconnect, CancelLoop, NewSession
  <2>4. CASE RetryReads BY <2>4 DEF RetryReads
  <2>5. CASE ResumeReads BY <2>5 DEF ResumeReads
  <2>. QED BY <1>1, <2>1, <2>2, <2>3, <2>4, <2>5 DEF UserActs
<1>2. CASE UiRuns
  <2>1. CASE Boot
    <3>1. CASE active = NoEndpoint BY <2>1, <3>1 DEF Boot
    <3>2. CASE active # NoEndpoint BY <2>1, <3>2 DEF Boot, Connect, CancelLoop, NewSession
    <3>. QED BY <3>1, <3>2
  <2>2. CASE RemoveEndpoint BY <2>2 DEF RemoveEndpoint
  <2>3. CASE Rejoin
    <3>1. CASE active = NoEndpoint BY <2>3, <3>1 DEF Rejoin
    <3>2. CASE active # NoEndpoint BY <2>3, <3>2 DEF Rejoin, Connect, CancelLoop, NewSession
    <3>. QED BY <3>1, <3>2
  <2>4. CASE RetryConnects BY <2>4 DEF RetryConnects, Connect, CancelLoop, NewSession
  <2>5. CASE WakeSent BY <2>5 DEF WakeSent
  <2>. QED BY <1>2, <2>1, <2>2, <2>3, <2>4, <2>5 DEF UiRuns
<1>3. CASE PairingConnects BY <1>3 DEF PairingConnects, Connect, CancelLoop, NewSession
<1>4. ASSUME NEW g \in Gen, NEW x \in DialCauses, NEW d \in BOOLEAN, DialReturns(g, x,
      d) PROVE StatusInv'
  BY <1>4 DEF DialReturns, DialCauses
<1>5. ASSUME NEW g \in Gen, LoopRuns(g) PROVE StatusInv'
  <2>1. CASE LoopStart(g) BY <2>1 DEF LoopStart, SetStatus, Current
  <2>2. CASE WritePin(g) BY <2>2 DEF WritePin
  <2>3. CASE DialHardStop(g) BY <2>3 DEF DialHardStop, SetStatus, Current
  <2>4. CASE DialFailed(g) BY <2>4 DEF DialFailed, Climb, SetStatus, Current
  <2>5. CASE Attach(g) BY <2>5 DEF Attach, Current
  <2>6. CASE AttachStale(g) BY <2>6 DEF AttachStale, DropSocket, Current
  <2>7. CASE WelcomeReturns(g) BY <2>7 DEF WelcomeReturns, SetStatus, Current
  <2>8. CASE WelcomeFails(g) BY <2>8 DEF WelcomeFails
  <2>9. CASE ServeCancelled(g) BY <2>9 DEF ServeCancelled
  <2>10. CASE ServeLost(g) BY <2>10 DEF ServeLost, ConnDone, Current
  <2>11. CASE LostWaits(g) BY <2>11 DEF LostWaits, Climb, SetStatus, Current
  <2>12. CASE CloseConn(g) BY <2>12 DEF CloseConn
  <2>13. CASE AfterClose(g) BY <2>13 DEF AfterClose, Climb, SetStatus, Current
  <2>14. CASE WaitEnds(g) BY <2>14 DEF WaitEnds
  <2>. QED BY <1>5, <2>1, <2>2, <2>3, <2>4, <2>5, <2>6, <2>7, <2>8, <2>9, <2>10, <2>11, <2>12,
        <2>13, <2>14 DEF LoopRuns
<1>6. ASSUME NEW s \in Socket, NEW w \in {"ok", "refused"}, WelcomeArrives(s, w) PROVE StatusInv'
  BY <1>6 DEF WelcomeArrives
<1>7. ASSUME NEW s \in Socket,
      ReaderHoldsMessage(s) \/ ReaderRuns(s) \/ ConnFails(s) PROVE StatusInv'
  <2>1. CASE ReaderHoldsMessage(s) BY <2>1 DEF ReaderHoldsMessage
  <2>2. CASE OnMessage(s) BY <2>2 DEF OnMessage
  <2>3. CASE ReaderExits(s) BY <2>3 DEF ReaderExits
  <2>4. CASE ConnFails(s) BY <2>4 DEF ConnFails
  <2>. QED BY <1>7, <2>1, <2>2, <2>3, <2>4 DEF ReaderRuns
<1>8. CASE UNCHANGED vars BY <1>8
<1>. HIDE DEF AppTypeOK, LoopTypeOK, LoopInv, StatusInv, Hard, vars, appVars, sessVars, loopVars,
      socketVars, storeVars, At, Rest
<1>. QED BY <1>1, <1>2, <1>3, <1>4, <1>5, <1>6, <1>7, <1>8 DEF Next, Dial

\* A socket goes with the point of the loop that dialled it.
LEMMA SocketStep ==
    ASSUME AppTypeOK, LoopTypeOK, SocketTypeOK, LoopInv, SocketInv, HeldInv, [Next]_vars
    PROVE  SocketInv'
<1> USE Bounds DEF AppTypeOK, LoopTypeOK, SocketTypeOK, LoopInv, SocketInv, HeldInv, Attached,
      vars, appVars, sessVars, loopVars, socketVars, storeVars, At, Rest
<1>1. CASE UserActs
  <2>1. ASSUME NEW e \in Endpoint, PairingSaves(e) PROVE SocketInv'
    BY <2>1 DEF PairingSaves
  <2>2. ASSUME NEW e \in Endpoint, SwitchDesk(e) PROVE SocketInv'
    BY <2>2 DEF SwitchDesk, Connect, CancelLoop, NewSession
  <2>3. CASE ForgetDevice BY <2>3 DEF ForgetDevice, Disconnect, CancelLoop, NewSession
  <2>4. CASE RetryReads BY <2>4 DEF RetryReads
  <2>5. CASE ResumeReads BY <2>5 DEF ResumeReads
  <2>. QED BY <1>1, <2>1, <2>2, <2>3, <2>4, <2>5 DEF UserActs
<1>2. CASE UiRuns
  <2>1. CASE Boot
    <3>1. CASE active = NoEndpoint BY <2>1, <3>1 DEF Boot
    <3>2. CASE active # NoEndpoint BY <2>1, <3>2 DEF Boot, Connect, CancelLoop, NewSession
    <3>. QED BY <3>1, <3>2
  <2>2. CASE RemoveEndpoint BY <2>2 DEF RemoveEndpoint
  <2>3. CASE Rejoin
    <3>1. CASE active = NoEndpoint BY <2>3, <3>1 DEF Rejoin
    <3>2. CASE active # NoEndpoint BY <2>3, <3>2 DEF Rejoin, Connect, CancelLoop, NewSession
    <3>. QED BY <3>1, <3>2
  <2>4. CASE RetryConnects BY <2>4 DEF RetryConnects, Connect, CancelLoop, NewSession
  <2>5. CASE WakeSent BY <2>5 DEF WakeSent
  <2>. QED BY <1>2, <2>1, <2>2, <2>3, <2>4, <2>5 DEF UiRuns
<1>3. CASE PairingConnects BY <1>3 DEF PairingConnects, Connect, CancelLoop, NewSession
<1>4. ASSUME NEW g \in Gen, NEW x \in DialCauses, NEW d \in BOOLEAN, DialReturns(g, x,
      d) PROVE SocketInv'
  <2>1. CASE x = "none"
    <3>1. PICK s \in Socket : /\ owner[s] = 0
                              /\ sock' = [sock EXCEPT ![g] = s]
                              /\ owner' = [owner EXCEPT ![s] = g]
                              /\ open' = [open EXCEPT ![s] = ~cancelled[g]]
      BY <1>4, <2>1 DEF DialReturns
    <3>2. /\ closed' = closed /\ reader' = reader /\ pc[g] = "dial"
          /\ pc' = [pc EXCEPT ![g] = IF cancelled[g] THEN "gone" ELSE IF d THEN "pin" ELSE "outcome"]
      BY <1>4 DEF DialReturns
    <3>. QED BY <1>4, <3>1, <3>2
  <2>2. CASE x # "none" BY <1>4, <2>2 DEF DialReturns, DialCauses
  <2>. QED BY <2>1, <2>2
<1>5. ASSUME NEW g \in Gen, LoopRuns(g) PROVE SocketInv'
  <2>1. CASE LoopStart(g) BY <2>1 DEF LoopStart, SetStatus, Current
  <2>2. CASE WritePin(g) BY <2>2 DEF WritePin
  <2>3. CASE DialHardStop(g) BY <2>3 DEF DialHardStop, SetStatus, Current
  <2>4. CASE DialFailed(g) BY <2>4 DEF DialFailed, Climb, SetStatus, Current
  <2>5. CASE Attach(g) BY <2>5 DEF Attach, Current
  <2>6. CASE AttachStale(g) BY <2>6 DEF AttachStale, DropSocket, Current
  <2>7. CASE WelcomeReturns(g) BY <2>7 DEF WelcomeReturns, SetStatus, Current
  <2>8. CASE WelcomeFails(g) BY <2>8 DEF WelcomeFails
  <2>9. CASE ServeCancelled(g) BY <2>9 DEF ServeCancelled
  <2>10. CASE ServeLost(g) BY <2>10 DEF ServeLost, ConnDone, Current
  <2>11. CASE LostWaits(g) BY <2>11 DEF LostWaits, Climb, SetStatus, Current
  <2>12. CASE CloseConn(g) BY <2>12 DEF CloseConn
  <2>13. CASE AfterClose(g) BY <2>13 DEF AfterClose, Climb, SetStatus, Current
  <2>14. CASE WaitEnds(g) BY <2>14 DEF WaitEnds
  <2>. QED BY <1>5, <2>1, <2>2, <2>3, <2>4, <2>5, <2>6, <2>7, <2>8, <2>9, <2>10, <2>11, <2>12,
        <2>13, <2>14 DEF LoopRuns
<1>6. ASSUME NEW s \in Socket, NEW w \in {"ok", "refused"}, WelcomeArrives(s, w) PROVE SocketInv'
  BY <1>6 DEF WelcomeArrives
<1>7. ASSUME NEW s \in Socket,
      ReaderHoldsMessage(s) \/ ReaderRuns(s) \/ ConnFails(s) PROVE SocketInv'
  <2>1. CASE ReaderHoldsMessage(s) BY <2>1 DEF ReaderHoldsMessage
  <2>2. CASE OnMessage(s) BY <2>2 DEF OnMessage
  <2>3. CASE ReaderExits(s) BY <2>3 DEF ReaderExits
  <2>4. CASE ConnFails(s) BY <2>4 DEF ConnFails
  <2>. QED BY <1>7, <2>1, <2>2, <2>3, <2>4 DEF ReaderRuns
<1>8. CASE UNCHANGED vars BY <1>8
<1>. HIDE DEF AppTypeOK, LoopTypeOK, SocketTypeOK, LoopInv, SocketInv, HeldInv, Attached, vars,
      appVars, sessVars, loopVars, socketVars, storeVars, At, Rest
<1>. QED BY <1>1, <1>2, <1>3, <1>4, <1>5, <1>6, <1>7, <1>8 DEF Next, Dial

\* A loop goes with the socket it holds.
LEMMA HeldStep ==
    ASSUME AppTypeOK, LoopTypeOK, SocketTypeOK, LoopInv, SocketInv, HeldInv, [Next]_vars
    PROVE  HeldInv'
<1> USE Bounds DEF AppTypeOK, LoopTypeOK, SocketTypeOK, LoopInv, SocketInv, HeldInv, Attached,
      vars, appVars, sessVars, loopVars, socketVars, storeVars, At, Rest
<1>1. CASE UserActs
  <2>1. ASSUME NEW e \in Endpoint, PairingSaves(e) PROVE HeldInv'
    BY <2>1 DEF PairingSaves
  <2>2. ASSUME NEW e \in Endpoint, SwitchDesk(e) PROVE HeldInv'
    BY <2>2 DEF SwitchDesk, Connect, CancelLoop, NewSession
  <2>3. CASE ForgetDevice BY <2>3 DEF ForgetDevice, Disconnect, CancelLoop, NewSession
  <2>4. CASE RetryReads BY <2>4 DEF RetryReads
  <2>5. CASE ResumeReads BY <2>5 DEF ResumeReads
  <2>. QED BY <1>1, <2>1, <2>2, <2>3, <2>4, <2>5 DEF UserActs
<1>2. CASE UiRuns
  <2>1. CASE Boot
    <3>1. CASE active = NoEndpoint BY <2>1, <3>1 DEF Boot
    <3>2. CASE active # NoEndpoint BY <2>1, <3>2 DEF Boot, Connect, CancelLoop, NewSession
    <3>. QED BY <3>1, <3>2
  <2>2. CASE RemoveEndpoint BY <2>2 DEF RemoveEndpoint
  <2>3. CASE Rejoin
    <3>1. CASE active = NoEndpoint BY <2>3, <3>1 DEF Rejoin
    <3>2. CASE active # NoEndpoint BY <2>3, <3>2 DEF Rejoin, Connect, CancelLoop, NewSession
    <3>. QED BY <3>1, <3>2
  <2>4. CASE RetryConnects BY <2>4 DEF RetryConnects, Connect, CancelLoop, NewSession
  <2>5. CASE WakeSent BY <2>5 DEF WakeSent
  <2>. QED BY <1>2, <2>1, <2>2, <2>3, <2>4, <2>5 DEF UiRuns
<1>3. CASE PairingConnects BY <1>3 DEF PairingConnects, Connect, CancelLoop, NewSession
<1>4. ASSUME NEW g \in Gen, NEW x \in DialCauses, NEW d \in BOOLEAN, DialReturns(g, x,
      d) PROVE HeldInv'
  BY <1>4 DEF DialReturns, DialCauses
<1>5. ASSUME NEW g \in Gen, LoopRuns(g) PROVE HeldInv'
  <2>1. CASE LoopStart(g) BY <2>1 DEF LoopStart, SetStatus, Current
  <2>2. CASE WritePin(g) BY <2>2 DEF WritePin
  <2>3. CASE DialHardStop(g) BY <2>3 DEF DialHardStop, SetStatus, Current
  <2>4. CASE DialFailed(g) BY <2>4 DEF DialFailed, Climb, SetStatus, Current
  <2>5. CASE Attach(g) BY <2>5 DEF Attach, Current
  <2>6. CASE AttachStale(g) BY <2>6 DEF AttachStale, DropSocket, Current
  <2>7. CASE WelcomeReturns(g) BY <2>7 DEF WelcomeReturns, SetStatus, Current
  <2>8. CASE WelcomeFails(g) BY <2>8 DEF WelcomeFails
  <2>9. CASE ServeCancelled(g) BY <2>9 DEF ServeCancelled
  <2>10. CASE ServeLost(g) BY <2>10 DEF ServeLost, ConnDone, Current
  <2>11. CASE LostWaits(g) BY <2>11 DEF LostWaits, Climb, SetStatus, Current
  <2>12. CASE CloseConn(g) BY <2>12 DEF CloseConn
  <2>13. CASE AfterClose(g) BY <2>13 DEF AfterClose, Climb, SetStatus, Current
  <2>14. CASE WaitEnds(g) BY <2>14 DEF WaitEnds
  <2>. QED BY <1>5, <2>1, <2>2, <2>3, <2>4, <2>5, <2>6, <2>7, <2>8, <2>9, <2>10, <2>11, <2>12,
        <2>13, <2>14 DEF LoopRuns
<1>6. ASSUME NEW s \in Socket, NEW w \in {"ok", "refused"}, WelcomeArrives(s, w) PROVE HeldInv'
  BY <1>6 DEF WelcomeArrives
<1>7. ASSUME NEW s \in Socket, ReaderHoldsMessage(s) \/ ReaderRuns(s) \/ ConnFails(s) PROVE HeldInv'
  <2>1. CASE ReaderHoldsMessage(s) BY <2>1 DEF ReaderHoldsMessage
  <2>2. CASE OnMessage(s) BY <2>2 DEF OnMessage
  <2>3. CASE ReaderExits(s) BY <2>3 DEF ReaderExits
  <2>4. CASE ConnFails(s) BY <2>4 DEF ConnFails
  <2>. QED BY <1>7, <2>1, <2>2, <2>3, <2>4 DEF ReaderRuns
<1>8. CASE UNCHANGED vars BY <1>8
<1>. HIDE DEF AppTypeOK, LoopTypeOK, SocketTypeOK, LoopInv, SocketInv, HeldInv, Attached, vars,
      appVars, sessVars, loopVars, socketVars, storeVars, At, Rest
<1>. QED BY <1>1, <1>2, <1>3, <1>4, <1>5, <1>6, <1>7, <1>8 DEF Next, Dial

\* c.conn is the Conn the current loop serves.
LEMMA ConnStep ==
    ASSUME AppTypeOK, LoopTypeOK, SocketTypeOK, LoopInv, SocketInv, HeldInv, ConnInv, [Next]_vars
    PROVE  ConnInv'
<1> USE Bounds DEF AppTypeOK, LoopTypeOK, SocketTypeOK, LoopInv, SocketInv, HeldInv, ConnInv,
      Attached, vars, appVars, sessVars, loopVars, socketVars, storeVars, At, Rest
<1>1. CASE UserActs
  <2>1. ASSUME NEW e \in Endpoint, PairingSaves(e) PROVE ConnInv'
    BY <2>1 DEF PairingSaves
  <2>2. ASSUME NEW e \in Endpoint, SwitchDesk(e) PROVE ConnInv'
    BY <2>2 DEF SwitchDesk, Connect, CancelLoop, NewSession
  <2>3. CASE ForgetDevice BY <2>3 DEF ForgetDevice, Disconnect, CancelLoop, NewSession
  <2>4. CASE RetryReads BY <2>4 DEF RetryReads
  <2>5. CASE ResumeReads BY <2>5 DEF ResumeReads
  <2>. QED BY <1>1, <2>1, <2>2, <2>3, <2>4, <2>5 DEF UserActs
<1>2. CASE UiRuns
  <2>1. CASE Boot
    <3>1. CASE active = NoEndpoint BY <2>1, <3>1 DEF Boot
    <3>2. CASE active # NoEndpoint BY <2>1, <3>2 DEF Boot, Connect, CancelLoop, NewSession
    <3>. QED BY <3>1, <3>2
  <2>2. CASE RemoveEndpoint BY <2>2 DEF RemoveEndpoint
  <2>3. CASE Rejoin
    <3>1. CASE active = NoEndpoint BY <2>3, <3>1 DEF Rejoin
    <3>2. CASE active # NoEndpoint BY <2>3, <3>2 DEF Rejoin, Connect, CancelLoop, NewSession
    <3>. QED BY <3>1, <3>2
  <2>4. CASE RetryConnects BY <2>4 DEF RetryConnects, Connect, CancelLoop, NewSession
  <2>5. CASE WakeSent BY <2>5 DEF WakeSent
  <2>. QED BY <1>2, <2>1, <2>2, <2>3, <2>4, <2>5 DEF UiRuns
<1>3. CASE PairingConnects BY <1>3 DEF PairingConnects, Connect, CancelLoop, NewSession
<1>4. ASSUME NEW g \in Gen, NEW x \in DialCauses, NEW d \in BOOLEAN, DialReturns(g, x,
      d) PROVE ConnInv'
  BY <1>4 DEF DialReturns, DialCauses
<1>5. ASSUME NEW g \in Gen, LoopRuns(g) PROVE ConnInv'
  <2>1. CASE LoopStart(g) BY <2>1 DEF LoopStart, SetStatus, Current
  <2>2. CASE WritePin(g) BY <2>2 DEF WritePin
  <2>3. CASE DialHardStop(g) BY <2>3 DEF DialHardStop, SetStatus, Current
  <2>4. CASE DialFailed(g) BY <2>4 DEF DialFailed, Climb, SetStatus, Current
  <2>5. CASE Attach(g) BY <2>5 DEF Attach, Current
  <2>6. CASE AttachStale(g) BY <2>6 DEF AttachStale, DropSocket, Current
  <2>7. CASE WelcomeReturns(g) BY <2>7 DEF WelcomeReturns, SetStatus, Current
  <2>8. CASE WelcomeFails(g) BY <2>8 DEF WelcomeFails
  <2>9. CASE ServeCancelled(g) BY <2>9 DEF ServeCancelled
  <2>10. CASE ServeLost(g) BY <2>10 DEF ServeLost, ConnDone, Current
  <2>11. CASE LostWaits(g) BY <2>11 DEF LostWaits, Climb, SetStatus, Current
  <2>12. CASE CloseConn(g) BY <2>12 DEF CloseConn
  <2>13. CASE AfterClose(g) BY <2>13 DEF AfterClose, Climb, SetStatus, Current
  <2>14. CASE WaitEnds(g) BY <2>14 DEF WaitEnds
  <2>. QED BY <1>5, <2>1, <2>2, <2>3, <2>4, <2>5, <2>6, <2>7, <2>8, <2>9, <2>10, <2>11, <2>12,
        <2>13, <2>14 DEF LoopRuns
<1>6. ASSUME NEW s \in Socket, NEW w \in {"ok", "refused"}, WelcomeArrives(s, w) PROVE ConnInv'
  BY <1>6 DEF WelcomeArrives
<1>7. ASSUME NEW s \in Socket, ReaderHoldsMessage(s) \/ ReaderRuns(s) \/ ConnFails(s) PROVE ConnInv'
  <2>1. CASE ReaderHoldsMessage(s) BY <2>1 DEF ReaderHoldsMessage
  <2>2. CASE OnMessage(s) BY <2>2 DEF OnMessage
  <2>3. CASE ReaderExits(s) BY <2>3 DEF ReaderExits
  <2>4. CASE ConnFails(s) BY <2>4 DEF ConnFails
  <2>. QED BY <1>7, <2>1, <2>2, <2>3, <2>4 DEF ReaderRuns
<1>8. CASE UNCHANGED vars BY <1>8
<1>. HIDE DEF AppTypeOK, LoopTypeOK, SocketTypeOK, LoopInv, SocketInv, HeldInv, ConnInv,
      Attached, vars, appVars, sessVars, loopVars, socketVars, storeVars, At, Rest
<1>. QED BY <1>1, <1>2, <1>3, <1>4, <1>5, <1>6, <1>7, <1>8 DEF Next, Dial

\* The session holds the frames of one socket.
LEMMA SessionStep ==
    ASSUME AppTypeOK, LoopTypeOK, SocketTypeOK, LoopInv, SocketInv, HeldInv, ConnInv, SessionInv,
          [Next]_vars
    PROVE  SessionInv'
<1> USE Bounds DEF AppTypeOK, LoopTypeOK, SocketTypeOK, LoopInv, SocketInv, HeldInv, ConnInv,
      SessionInv, Attached, vars, appVars, sessVars, loopVars, socketVars, storeVars, At, Rest
<1>1. CASE UserActs
  <2>1. ASSUME NEW e \in Endpoint, PairingSaves(e) PROVE SessionInv'
    BY <2>1 DEF PairingSaves
  <2>2. ASSUME NEW e \in Endpoint, SwitchDesk(e) PROVE SessionInv'
    BY <2>2 DEF SwitchDesk, Connect, CancelLoop, NewSession
  <2>3. CASE ForgetDevice BY <2>3 DEF ForgetDevice, Disconnect, CancelLoop, NewSession
  <2>4. CASE RetryReads BY <2>4 DEF RetryReads
  <2>5. CASE ResumeReads BY <2>5 DEF ResumeReads
  <2>. QED BY <1>1, <2>1, <2>2, <2>3, <2>4, <2>5 DEF UserActs
<1>2. CASE UiRuns
  <2>1. CASE Boot
    <3>1. CASE active = NoEndpoint BY <2>1, <3>1 DEF Boot
    <3>2. CASE active # NoEndpoint BY <2>1, <3>2 DEF Boot, Connect, CancelLoop, NewSession
    <3>. QED BY <3>1, <3>2
  <2>2. CASE RemoveEndpoint BY <2>2 DEF RemoveEndpoint
  <2>3. CASE Rejoin
    <3>1. CASE active = NoEndpoint BY <2>3, <3>1 DEF Rejoin
    <3>2. CASE active # NoEndpoint BY <2>3, <3>2 DEF Rejoin, Connect, CancelLoop, NewSession
    <3>. QED BY <3>1, <3>2
  <2>4. CASE RetryConnects BY <2>4 DEF RetryConnects, Connect, CancelLoop, NewSession
  <2>5. CASE WakeSent BY <2>5 DEF WakeSent
  <2>. QED BY <1>2, <2>1, <2>2, <2>3, <2>4, <2>5 DEF UiRuns
<1>3. CASE PairingConnects BY <1>3 DEF PairingConnects, Connect, CancelLoop, NewSession
<1>4. ASSUME NEW g \in Gen, NEW x \in DialCauses, NEW d \in BOOLEAN, DialReturns(g, x,
      d) PROVE SessionInv'
  BY <1>4 DEF DialReturns, DialCauses
<1>5. ASSUME NEW g \in Gen, LoopRuns(g) PROVE SessionInv'
  <2>1. CASE LoopStart(g) BY <2>1 DEF LoopStart, SetStatus, Current
  <2>2. CASE WritePin(g) BY <2>2 DEF WritePin
  <2>3. CASE DialHardStop(g) BY <2>3 DEF DialHardStop, SetStatus, Current
  <2>4. CASE DialFailed(g) BY <2>4 DEF DialFailed, Climb, SetStatus, Current
  <2>5. CASE Attach(g) BY <2>5 DEF Attach, Current
  <2>6. CASE AttachStale(g) BY <2>6 DEF AttachStale, DropSocket, Current
  <2>7. CASE WelcomeReturns(g) BY <2>7 DEF WelcomeReturns, SetStatus, Current
  <2>8. CASE WelcomeFails(g) BY <2>8 DEF WelcomeFails
  <2>9. CASE ServeCancelled(g) BY <2>9 DEF ServeCancelled
  <2>10. CASE ServeLost(g) BY <2>10 DEF ServeLost, ConnDone, Current
  <2>11. CASE LostWaits(g) BY <2>11 DEF LostWaits, Climb, SetStatus, Current
  <2>12. CASE CloseConn(g) BY <2>12 DEF CloseConn
  <2>13. CASE AfterClose(g) BY <2>13 DEF AfterClose, Climb, SetStatus, Current
  <2>14. CASE WaitEnds(g) BY <2>14 DEF WaitEnds
  <2>. QED BY <1>5, <2>1, <2>2, <2>3, <2>4, <2>5, <2>6, <2>7, <2>8, <2>9, <2>10, <2>11, <2>12,
        <2>13, <2>14 DEF LoopRuns
<1>6. ASSUME NEW s \in Socket, NEW w \in {"ok", "refused"}, WelcomeArrives(s, w) PROVE SessionInv'
  BY <1>6 DEF WelcomeArrives
<1>7. ASSUME NEW s \in Socket,
      ReaderHoldsMessage(s) \/ ReaderRuns(s) \/ ConnFails(s) PROVE SessionInv'
  <2>1. CASE ReaderHoldsMessage(s) BY <2>1 DEF ReaderHoldsMessage
  <2>2. CASE OnMessage(s) BY <2>2 DEF OnMessage
  <2>3. CASE ReaderExits(s) BY <2>3 DEF ReaderExits
  <2>4. CASE ConnFails(s) BY <2>4 DEF ConnFails
  <2>. QED BY <1>7, <2>1, <2>2, <2>3, <2>4 DEF ReaderRuns
<1>8. CASE UNCHANGED vars BY <1>8
<1>. HIDE DEF AppTypeOK, LoopTypeOK, SocketTypeOK, LoopInv, SocketInv, HeldInv, ConnInv,
      SessionInv, Attached, vars, appVars, sessVars, loopVars, socketVars, storeVars, At, Rest
<1>. QED BY <1>1, <1>2, <1>3, <1>4, <1>5, <1>6, <1>7, <1>8 DEF Next, Dial

-----------------------------------------------------------------------------

\* IInv holds before the first Connect.
LEMMA InitInv == Init => IInv
<1> SUFFICES ASSUME Init PROVE IInv
  OBVIOUS
<1>1. AppTypeOK BY Bounds DEF Init, AppTypeOK, Busy, Hard
<1>2. LoopTypeOK BY BoundsAssumption DEF Init, LoopTypeOK, LoopPc
<1>3. SocketTypeOK BY DEF Init, SocketTypeOK
<1>4. StoreTypeOK BY DesksAssumption DEF Init, StoreTypeOK, UI, Free
<1>5. LoopInv /\ StatusInv BY Bounds DEF Init, LoopInv, StatusInv
<1>6. SocketInv /\ HeldInv BY DEF Init, SocketInv, HeldInv, Attached
<1>7. ConnInv /\ SessionInv BY DEF Init, ConnInv, SessionInv
<1>. QED BY <1>1, <1>2, <1>3, <1>4, <1>5, <1>6, <1>7 DEF IInv, TypeOK

\* Every step keeps IInv.
LEMMA StepInv == IInv /\ [Next]_vars => IInv'
<1> SUFFICES ASSUME IInv, [Next]_vars PROVE IInv'
  OBVIOUS
<1> USE DEF IInv, TypeOK
<1>1. AppTypeOK' /\ LoopTypeOK' /\ SocketTypeOK' /\ StoreTypeOK'
  BY AppTypeStep, LoopTypeStep, SocketTypeStep, StoreTypeStep
<1>2. LoopInv' /\ StatusInv'
  BY LoopStep, StatusStep
<1>3. SocketInv' /\ HeldInv'
  BY SocketStep, HeldStep
<1>4. ConnInv' /\ SessionInv'
  BY ConnStep, SessionStep
<1>. QED BY <1>1, <1>2, <1>3, <1>4

\* The inductive invariant holds in every reachable state.
THEOREM Invariance == SafeSpec => []IInv
<1>. QED BY InitInv, StepInv, PTL DEF SafeSpec

\* Every variable keeps its type.
THEOREM TypeCorrect == SafeSpec => []TypeOK
<1>1. IInv => TypeOK
  BY DEF IInv
<1>. QED BY <1>1, Invariance, PTL

\* A status that promises progress is backed by the one loop that may write
\* it, and no loop is left behind a status that promises none.
THEOREM LoopsAlive == SafeSpec => []LoopAlive
<1>1. IInv => LoopAlive
  <2> SUFFICES ASSUME IInv PROVE LoopAlive
    OBVIOUS
  <2> USE DEF IInv, TypeOK, LoopInv, StatusInv, AppTypeOK, LoopTypeOK
  <2>1. gen = 0 => status = "idle"
    OBVIOUS
  <2>2. CASE status \in Busy BY <2>1, <2>2, Bounds DEF LoopAlive, Busy, Hard
  <2>3. CASE status \notin Busy BY <2>1, <2>3, Bounds DEF LoopAlive, Busy, Hard, LoopPc
  <2>. QED BY <2>2, <2>3
<1>. QED BY <1>1, Invariance, PTL

\* What a screen sends on is the current loop's own socket.
THEOREM LiveCurrent == SafeSpec => []LiveIsCurrent
<1>1. IInv => LiveIsCurrent
  BY Bounds DEF IInv, TypeOK, AppTypeOK, LoopTypeOK, SocketTypeOK, StatusInv, SocketInv, HeldInv,
        ConnInv,
                LiveIsCurrent, Live, Attached
<1>. QED BY <1>1, Invariance, PTL

\* The session never mixes two sockets' frames, nor keeps anything of an
\* older generation.
THEOREM SessionIsPure == SafeSpec => []SessionPure
<1>1. IInv => SessionPure
  <2> SUFFICES ASSUME IInv PROVE SessionPure
    OBVIOUS
  <2>1. Cardinality(grids) <= 1
    <3>1. CASE grids = {} BY <3>1, FS_EmptySet
    <3>2. ASSUME NEW s \in grids PROVE Cardinality(grids) <= 1
      <4>1. grids = {s} BY <3>2 DEF IInv, SessionInv
      <4>2. Cardinality({s}) = 1 BY FS_Singleton
      <4>. QED BY <4>1, <4>2
    <3>. QED BY <3>1, <3>2
  <2>. QED BY <2>1 DEF IInv, SessionInv, SessionPure
<1>. QED BY <1>1, Invariance, PTL

\* Every open transport has a loop that will close it.
THEOREM NothingLeaks == SafeSpec => []NoLeak
<1>1. IInv => NoLeak
  BY Bounds DEF IInv, TypeOK, LoopTypeOK, SocketTypeOK, SocketInv, HeldInv, NoLeak, Attached
<1>. QED BY <1>1, Invariance, PTL

\* What happens to the status in one step: either a new generation begins, or
\* the status moves along the reconnect loop, or it stays.
Moves ==
    \/ gen' = gen + 1 /\ status' \in {"connecting", "idle"}
    \/ gen' = gen /\ status' = status
    \/ gen' = gen /\ status = "reconnecting" /\ status' = "connecting"
    \/ gen' = gen /\ status = "connecting" /\ status' = "connected"
    \/ gen' = gen /\ status \in {"connecting", "connected"} /\ status' = "reconnecting"
    \/ gen' = gen /\ status = "connecting" /\ status' \in Hard

\* The status moves only in these ways.
LEMMA StatusMoves ==
    ASSUME AppTypeOK, LoopTypeOK, LoopInv, StatusInv, [Next]_vars
    PROVE  Moves
<1> USE Bounds DEF Moves, AppTypeOK, LoopTypeOK, LoopInv, StatusInv, Hard, vars, appVars,
      sessVars, loopVars, socketVars, storeVars, At, Rest
<1>1. CASE UserActs
  <2>1. ASSUME NEW e \in Endpoint, PairingSaves(e) PROVE Moves
    BY <2>1 DEF PairingSaves
  <2>2. ASSUME NEW e \in Endpoint, SwitchDesk(e) PROVE Moves
    BY <2>2 DEF SwitchDesk, Connect, CancelLoop, NewSession
  <2>3. CASE ForgetDevice BY <2>3 DEF ForgetDevice, Disconnect, CancelLoop, NewSession
  <2>4. CASE RetryReads BY <2>4 DEF RetryReads
  <2>5. CASE ResumeReads BY <2>5 DEF ResumeReads
  <2>. QED BY <1>1, <2>1, <2>2, <2>3, <2>4, <2>5 DEF UserActs
<1>2. CASE UiRuns
  <2>1. CASE Boot
    <3>1. CASE active = NoEndpoint BY <2>1, <3>1 DEF Boot
    <3>2. CASE active # NoEndpoint BY <2>1, <3>2 DEF Boot, Connect, CancelLoop, NewSession
    <3>. QED BY <3>1, <3>2
  <2>2. CASE RemoveEndpoint BY <2>2 DEF RemoveEndpoint
  <2>3. CASE Rejoin
    <3>1. CASE active = NoEndpoint BY <2>3, <3>1 DEF Rejoin
    <3>2. CASE active # NoEndpoint BY <2>3, <3>2 DEF Rejoin, Connect, CancelLoop, NewSession
    <3>. QED BY <3>1, <3>2
  <2>4. CASE RetryConnects BY <2>4 DEF RetryConnects, Connect, CancelLoop, NewSession
  <2>5. CASE WakeSent BY <2>5 DEF WakeSent
  <2>. QED BY <1>2, <2>1, <2>2, <2>3, <2>4, <2>5 DEF UiRuns
<1>3. CASE PairingConnects BY <1>3 DEF PairingConnects, Connect, CancelLoop, NewSession
<1>4. ASSUME NEW g \in Gen, NEW x \in DialCauses, NEW d \in BOOLEAN, DialReturns(g, x,
      d) PROVE Moves
  BY <1>4 DEF DialReturns, DialCauses
<1>5. ASSUME NEW g \in Gen, LoopRuns(g) PROVE Moves
  <2>1. CASE LoopStart(g) BY <2>1 DEF LoopStart, SetStatus, Current
  <2>2. CASE WritePin(g) BY <2>2 DEF WritePin
  <2>3. CASE DialHardStop(g) BY <2>3 DEF DialHardStop, SetStatus, Current
  <2>4. CASE DialFailed(g) BY <2>4 DEF DialFailed, Climb, SetStatus, Current
  <2>5. CASE Attach(g) BY <2>5 DEF Attach, Current
  <2>6. CASE AttachStale(g) BY <2>6 DEF AttachStale, DropSocket, Current
  <2>7. CASE WelcomeReturns(g) BY <2>7 DEF WelcomeReturns, SetStatus, Current
  <2>8. CASE WelcomeFails(g) BY <2>8 DEF WelcomeFails
  <2>9. CASE ServeCancelled(g) BY <2>9 DEF ServeCancelled
  <2>10. CASE ServeLost(g) BY <2>10 DEF ServeLost, ConnDone, Current
  <2>11. CASE LostWaits(g) BY <2>11 DEF LostWaits, Climb, SetStatus, Current
  <2>12. CASE CloseConn(g) BY <2>12 DEF CloseConn
  <2>13. CASE AfterClose(g) BY <2>13 DEF AfterClose, Climb, SetStatus, Current
  <2>14. CASE WaitEnds(g) BY <2>14 DEF WaitEnds
  <2>. QED BY <1>5, <2>1, <2>2, <2>3, <2>4, <2>5, <2>6, <2>7, <2>8, <2>9, <2>10, <2>11, <2>12,
        <2>13, <2>14 DEF LoopRuns
<1>6. ASSUME NEW s \in Socket, NEW w \in {"ok", "refused"}, WelcomeArrives(s, w) PROVE Moves
  BY <1>6 DEF WelcomeArrives
<1>7. ASSUME NEW s \in Socket, ReaderHoldsMessage(s) \/ ReaderRuns(s) \/ ConnFails(s) PROVE Moves
  <2>1. CASE ReaderHoldsMessage(s) BY <2>1 DEF ReaderHoldsMessage
  <2>2. CASE OnMessage(s) BY <2>2 DEF OnMessage
  <2>3. CASE ReaderExits(s) BY <2>3 DEF ReaderExits
  <2>4. CASE ConnFails(s) BY <2>4 DEF ConnFails
  <2>. QED BY <1>7, <2>1, <2>2, <2>3, <2>4 DEF ReaderRuns
<1>8. CASE UNCHANGED vars BY <1>8
<1>. HIDE DEF Moves, AppTypeOK, LoopTypeOK, LoopInv, StatusInv, Hard, vars, appVars, sessVars,
      loopVars, socketVars, storeVars, At, Rest
<1>. QED BY <1>1, <1>2, <1>3, <1>4, <1>5, <1>6, <1>7, <1>8 DEF Next, Dial

\* A hard stop, and the idle state, last until the user or a pairing acts.
THEOREM HardStopLasts == SafeSpec => HardStopStays
<1>1. IInv /\ [Next]_vars => [(status \in Hard \cup {"idle"} /\ gen' = gen) => status' = status]_vars
  <2> SUFFICES ASSUME IInv, [Next]_vars, status \in Hard \cup {"idle"}, gen' = gen
               PROVE  status' = status
    OBVIOUS
  <2>1. gen \in Nat BY Bounds DEF IInv, TypeOK, AppTypeOK
  <2>. QED BY <2>1, StatusMoves DEF Moves, Hard, IInv, TypeOK
<1>. QED BY <1>1, Invariance, PTL DEF SafeSpec, HardStopStays

\* The connection implements Link: its status lives the life Link allows.
THEOREM Implements == SafeSpec => Promise!SafeSpec
<1>1. Init => Promise!Init
  BY DEF Init, Promise!Init
<1>2. IInv /\ [Next]_vars => [Promise!Next]_(Promise!vars)
  <2> SUFFICES ASSUME IInv, [Next]_vars PROVE [Promise!Next]_(Promise!vars)
    OBVIOUS
  <2> USE DEF Promise!Next, Promise!vars, Promise!Goes
  <2>1. CASE gen' = gen + 1 /\ status' \in {"connecting", "idle"}
    BY <2>1 DEF Promise!Act
  <2>2. CASE gen' = gen /\ status' = status
    BY <2>2
  <2>3. CASE gen' = gen /\ status = "reconnecting" /\ status' = "connecting"
    BY <2>3 DEF Promise!Redial
  <2>4. CASE gen' = gen /\ status = "connecting" /\ status' = "connected"
    BY <2>4 DEF Promise!Up
  <2>5. CASE gen' = gen /\ status \in {"connecting", "connected"} /\ status' = "reconnecting"
    BY <2>5 DEF Promise!Drop
  <2>6. CASE gen' = gen /\ status = "connecting" /\ status' \in Hard
    BY <2>6 DEF Promise!HardStop, Promise!Hard, Hard
  <2>. QED BY <2>1, <2>2, <2>3, <2>4, <2>5, <2>6, StatusMoves DEF Moves, IInv, TypeOK
<1>. QED BY <1>1, <1>2, Invariance, PTL DEF SafeSpec, Promise!SafeSpec
=============================================================================
