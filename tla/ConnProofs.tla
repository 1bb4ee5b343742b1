----------------------------- MODULE ConnProofs -----------------------------
(***************************************************************************)
(* Theorems about Conn, for any number of calls and of closing goroutines. *)
(*                                                                         *)
(* The inductive invariant IInv adds to the properties of Conn what ties   *)
(* the ids together (IdsInv), whose result is under way (ResultInv), where *)
(* a thread may stand once the connection has failed (PhaseInv), who owes  *)
(* a call its answer (SettlerInv, the component-wise form of               *)
(* ExactlyOneSettler) and what the server has answered (AnswerInv).  Each  *)
(* part has a lemma of its own with one step per action.                   *)
(***************************************************************************)
EXTENDS Conn, TLAPS

\* A call has registered itself in the map exactly when its timer was created.
Registered(c) == timer[c] # "off"

\* Every entry of the map, every frame in flight and every command that
\* reached the server carries the id of its own call, and ids are distinct.
IdsInv ==
    /\ \A c \in Call : pc[c] = "idle" => ~Registered(c)
    /\ \A c \in Call : pc[c] \in {"send", "wait", "forget"} => Registered(c)
    /\ \A c \in Call : Registered(c) => id[c] < nextID
    /\ \A c, d \in Call : Registered(c) /\ Registered(d) /\ id[c] = id[d] => c = d
    /\ \A e \in pending : e[1] = id[e[2]] /\ Registered(e[2])
    /\ \A c \in sent : Registered(c)
    /\ \A i \in 1..Len(inbox) : inbox[i].t = "result" =>
           inbox[i].of \in sent /\ inbox[i].id = id[inbox[i].of]

\* A result on its way to a call, held by it, or returned was made for it.
ResultInv ==
    /\ taken # NoCall => reply.of = taken /\ reply # Empty
    /\ \A c \in Call : ch[c] # Empty => ch[c].of = c
    /\ \A c \in Call : pc[c] # "returned" => ret[c] = Empty
    /\ OwnResult

\* What has happened by the time a thread stands where it does.
PhaseInv ==
    /\ rpc = "new" => ~closed /\ pending = {}
    /\ rpc \in {"drain", "done"} => closed
    /\ rpc # "drain" => failing[Reader] = {}
    /\ \A k \in Closer :
         /\ cpc[k] # "idle" => rpc # "new"
         /\ cpc[k] \notin {"idle", "ping"} => closed
         /\ cpc[k] # "drain" => failing[k] = {}
         /\ cpc[k] = "returned" => rpc = "done"

\* c is still in the map; c is in the loop of some thread that runs fail.
InMap(c)  == \E e \in pending : e[2] = c
InFail(c) == \E a \in Closer \cup {Reader} : c \in failing[a]

\* The call c is owed one answer, and one place holds it: the component-wise
\* form of OneSettler.
Settler(c) ==
    /\ InMap(c) => taken # c /\ timer[c] # "expiring" /\ ch[c] = Empty /\ ~InFail(c)
    /\ taken = c => timer[c] # "expiring" /\ ch[c] = Empty /\ ~InFail(c)
    /\ timer[c] = "expiring" => ch[c] = Empty /\ ~InFail(c)
    /\ ch[c] # Empty => ~InFail(c)
    /\ \A a, b \in Closer \cup {Reader} : c \in failing[a] /\ c \in failing[b] => a = b
    /\ pc[c] \in {"send", "wait", "forget"} =>
           InMap(c) \/ taken = c \/ timer[c] = "expiring" \/ ch[c] # Empty \/ InFail(c)
    /\ pc[c] = "idle" \/ (pc[c] = "returned" /\ ret[c].kind # "dropped") =>
           ~InMap(c) /\ taken # c /\ timer[c] # "expiring" /\ ch[c] = Empty /\ ~InFail(c)
    /\ pc[c] = "returned" => ~InMap(c)
SettlerInv == \A c \in Call : Settler(c)

\* What failing the connection leaves behind.
ClosedInv == NothingPendingOnceClosed /\ WelcomeDecidedOnceClosed

\* A reply on its way to a call is one the server has given; a call is told
\* the connection is gone only when it is.
AnswerInv ==
    /\ \A i \in 1..Len(inbox) : inbox[i].t = "result" => inbox[i].of \in answered
    /\ taken # NoCall => reply.kind \in {"reply", "refused"} /\ reply.of \in answered
    /\ \A c \in Call : ch[c] # Empty =>
          /\ ch[c].kind \in {"reply", "refused"} => c \in answered
          /\ ch[c].kind = "disconnected" => closed

\* The inductive invariant.
IInv ==
    /\ TypeOK
    /\ IdsInv
    /\ ResultInv
    /\ PhaseInv
    /\ SettlerInv
    /\ ClosedInv
    /\ AnswerInv

-----------------------------------------------------------------------------

\* Receiving from a sequence.
LEMMA HeadTail ==
    ASSUME NEW S, NEW s \in Seq(S), s # <<>>
    PROVE  Head(s) \in S /\ Tail(s) \in Seq(S)
  OBVIOUS

\* The frame received and what stays in the inbox.
LEMMA InboxHead ==
    ASSUME TypeOK, inbox # <<>>
    PROVE  Head(inbox) \in Frame /\ Tail(inbox) \in Seq(Frame)
  BY HeadTail DEF TypeOK

\* The critical section of fail keeps the types.
LEMMA FailType ==
    ASSUME TypeOK, NEW a \in Closer \cup {Reader}, Fail(a)
    PROVE  /\ closed' \in BOOLEAN
           /\ failing' \in [Closer \cup {Reader} -> SUBSET Call]
           /\ pending' \in SUBSET (Nat \X Call)
           /\ welcome' \in {"none", "ok", "refused", "otherVersion", "disconnected"}
<1>1. {c \in Call : \E e \in pending : e[2] = c} \in SUBSET Call
  OBVIOUS
<1>. QED BY <1>1 DEF TypeOK, Fail, Decide

\* Every step keeps the types.
LEMMA TypeStep == TypeOK /\ [Next]_vars => TypeOK'
<1> SUFFICES ASSUME TypeOK, [Next]_vars PROVE TypeOK'
  OBVIOUS
<1> USE CloserAssumption, NoCallAssumption, PushedAssumption
    DEF TypeOK, Result, Empty, Ending, Frame, WelcomeFrame, vars, callVars, mapVars, readerVars, netVars
<1>1. CASE Handshake BY <1>1 DEF Handshake
<1>2. CASE HandshakeFails BY <1>2, FailType DEF HandshakeFails
<1>3. ASSUME NEW c \in Call, InvokeStep(c) \/ TimerStep(c) PROVE TypeOK'
  <2>1. CASE InvokeClosed(c) BY <2>1 DEF InvokeClosed
  <2>2. CASE Invoke(c) BY <2>2 DEF Invoke, Without
  <2>3. CASE InvokeSend(c)
    <3>1. pc' \in [Call -> {"idle", "send", "wait", "forget", "returned"}]
      BY <2>3 DEF InvokeSend
    <3>2. sent' \in SUBSET Call
      BY <2>3 DEF InvokeSend
    <3>. QED BY <2>3, <3>1, <3>2 DEF InvokeSend
  <2>4. CASE InvokeResult(c) BY <2>4 DEF InvokeResult
  <2>5. CASE InvokeCancelled(c) BY <2>5 DEF InvokeCancelled
  <2>6. CASE Forget(c) BY <2>6 DEF Forget, Without, Stopped
  <2>7. CASE TimerFires(c) BY <2>7 DEF TimerFires
  <2>8. CASE Expire(c) BY <2>8 DEF Expire, Without
  <2>9. CASE ExpireDelivers(c) BY <2>9 DEF ExpireDelivers, Deliver
  <2>. QED BY <1>3, <2>1, <2>2, <2>3, <2>4, <2>5, <2>6, <2>7, <2>8, <2>9 DEF InvokeStep, TimerStep
<1>4. CASE ReaderStep
  <2>1. CASE OnJunk BY <2>1 DEF OnJunk, Recv
  <2>2. CASE OnPush BY <2>2 DEF OnPush, Recv
  <2>3. CASE OnWelcome BY <2>3 DEF OnWelcome, Recv, Decide
  <2>4. CASE OnResult
    <3>0. inbox # <<>> /\ inbox' = Tail(inbox) /\ Head(inbox).t = "result"
      BY <2>4 DEF OnResult, Recv
    <3>a. Head(inbox) \in Frame /\ inbox' \in Seq(Frame)
      BY <3>0, InboxHead
    <3>1. Head(inbox).id \in Nat /\ Head(inbox).of \in Call /\ Head(inbox).ok \in BOOLEAN
          /\ inbox' \in Seq(Frame)
      BY <3>0, <3>a
    <3>2. CASE \E c \in Call : Holds(Head(inbox).id, c)
      <4>1. PICK c \in Call : /\ taken' = c
                             /\ reply' = [kind |-> IF Head(inbox).ok THEN "reply" ELSE "refused",
                                          of |-> Head(inbox).of]
                             /\ pending' = Without(Head(inbox).id)
                             /\ rpc' = "settle"
        BY <2>4, <3>2 DEF OnResult
      <4>. QED BY <2>4, <3>0, <3>1, <4>1 DEF OnResult, Without
    <3>3. CASE \A c \in Call : ~Holds(Head(inbox).id, c)
      BY <2>4, <3>1, <3>3 DEF OnResult, Recv
    <3>. QED BY <3>2, <3>3
  <2>5. CASE OnResultDelivers BY <2>5 DEF OnResultDelivers, Deliver, Stopped
  <2>6. CASE CheckClosed BY <2>6 DEF CheckClosed
  <2>7. CASE CallOnMessage BY <2>7 DEF CallOnMessage
  <2>8. CASE RecvFails BY <2>8, FailType DEF RecvFails
  <2>9. CASE ReaderFailOne BY <2>9 DEF ReaderFailOne, FailOne, Deliver, Stopped
  <2>10. CASE ReaderExit BY <2>10 DEF ReaderExit
  <2>. QED BY <1>4, <2>1, <2>2, <2>3, <2>4, <2>5, <2>6, <2>7, <2>8, <2>9, <2>10 DEF ReaderStep
<1>5. ASSUME NEW k \in Closer, CloseFail(k) \/ ProbeStart(k) \/ CloserStep(k) PROVE TypeOK'
  <2>1. CASE CloseFail(k) BY <2>1, FailType DEF CloseFail
  <2>2. CASE ProbeStart(k) BY <2>2 DEF ProbeStart
  <2>3. CASE ProbePong(k) BY <2>3 DEF ProbePong
  <2>4. CASE ProbeFails(k) BY <2>4, FailType DEF ProbeFails
  <2>5. CASE CloseFailOne(k) BY <2>5 DEF CloseFailOne, FailOne, Deliver, Stopped
  <2>6. CASE CloseDrained(k) BY <2>6 DEF CloseDrained
  <2>7. CASE CloseSocket(k) BY <2>7 DEF CloseSocket
  <2>8. CASE CloseReturns(k) BY <2>8 DEF CloseReturns
  <2>. QED BY <1>5, <2>1, <2>2, <2>3, <2>4, <2>5, <2>6, <2>7, <2>8 DEF CloserStep
<1>6. CASE KeepAlive BY <1>6 DEF KeepAlive
<1>7. CASE PeerFails BY <1>7 DEF PeerFails
<1>8. ASSUME NEW t \in Pushed, ServerPushes(t) PROVE TypeOK'
  BY <1>8 DEF ServerPushes, ServerSends
<1>9. ASSUME NEW c \in Call, NEW ok \in Verdict, ServerAnswers(c, ok) PROVE TypeOK'
  BY <1>9 DEF ServerAnswers, ServerSends
<1>10. CASE UNCHANGED vars BY <1>10
<1>. QED BY <1>1, <1>2, <1>3, <1>4, <1>5, <1>6, <1>7, <1>8, <1>9, <1>10 DEF Next

\* No id is in use at the start.
LEMMA IdsInit == Init => IdsInv
  BY DEF Init, IdsInv, Registered

\* Every step keeps ids distinct and entries, commands and frames tied to them.
LEMMA IdsStep ==
    ASSUME TypeOK, TypeOK', IdsInv, PhaseInv, [Next]_vars
    PROVE  IdsInv'
<1> USE DEF TypeOK, IdsInv, Registered, vars, callVars, mapVars, readerVars, netVars
<1>1. CASE Handshake BY <1>1 DEF Handshake
<1>2. CASE HandshakeFails BY <1>2 DEF HandshakeFails, Fail
<1>3. ASSUME NEW c \in Call, InvokeStep(c) \/ TimerStep(c) PROVE IdsInv'
  <2>1. CASE InvokeClosed(c) BY <2>1 DEF InvokeClosed
  <2>2. CASE Invoke(c) BY <2>2 DEF Invoke, Without
  <2>3. CASE InvokeSend(c) BY <2>3 DEF InvokeSend
  <2>4. CASE InvokeResult(c) BY <2>4 DEF InvokeResult
  <2>5. CASE InvokeCancelled(c) BY <2>5 DEF InvokeCancelled
  <2>6. CASE Forget(c) BY <2>6 DEF Forget, Without, Stopped
  <2>7. CASE TimerFires(c) BY <2>7 DEF TimerFires
  <2>8. CASE Expire(c) BY <2>8 DEF Expire, Without
  <2>9. CASE ExpireDelivers(c) BY <2>9 DEF ExpireDelivers, Deliver
  <2>. QED BY <1>3, <2>1, <2>2, <2>3, <2>4, <2>5, <2>6, <2>7, <2>8, <2>9 DEF InvokeStep, TimerStep
<1>4. CASE ReaderStep
  <2>1. CASE OnJunk BY <2>1 DEF OnJunk, Recv
  <2>2. CASE OnPush BY <2>2 DEF OnPush, Recv
  <2>3. CASE OnWelcome
    <3>1. /\ inbox # <<>> /\ inbox' = Tail(inbox)
          /\ UNCHANGED <<pc, id, timer, pending, nextID, sent>>
      BY <2>3 DEF OnWelcome, Recv
    <3>. QED BY <3>1
  <2>4. CASE OnResult BY <2>4 DEF OnResult, Recv, Without
  <2>5. CASE OnResultDelivers BY <2>5 DEF OnResultDelivers, Deliver, Stopped
  <2>6. CASE CheckClosed BY <2>6 DEF CheckClosed
  <2>7. CASE CallOnMessage BY <2>7 DEF CallOnMessage
  <2>8. CASE RecvFails BY <2>8 DEF RecvFails, Fail
  <2>9. CASE ReaderFailOne BY <2>9 DEF ReaderFailOne, FailOne, Deliver, Stopped
  <2>10. CASE ReaderExit BY <2>10 DEF ReaderExit
  <2>. QED BY <1>4, <2>1, <2>2, <2>3, <2>4, <2>5, <2>6, <2>7, <2>8, <2>9, <2>10 DEF ReaderStep
<1>5. ASSUME NEW k \in Closer, CloseFail(k) \/ ProbeStart(k) \/ CloserStep(k) PROVE IdsInv'
  <2>1. CASE CloseFail(k) BY <2>1 DEF CloseFail, Fail
  <2>2. CASE ProbeStart(k) BY <2>2 DEF ProbeStart
  <2>3. CASE ProbePong(k) BY <2>3 DEF ProbePong
  <2>4. CASE ProbeFails(k) BY <2>4 DEF ProbeFails, Fail
  <2>5. CASE CloseFailOne(k) BY <2>5 DEF CloseFailOne, FailOne, Deliver, Stopped
  <2>6. CASE CloseDrained(k) BY <2>6 DEF CloseDrained
  <2>7. CASE CloseSocket(k) BY <2>7 DEF CloseSocket
  <2>8. CASE CloseReturns(k) BY <2>8 DEF CloseReturns
  <2>. QED BY <1>5, <2>1, <2>2, <2>3, <2>4, <2>5, <2>6, <2>7, <2>8 DEF CloserStep
<1>6. CASE KeepAlive BY <1>6 DEF KeepAlive
<1>7. CASE PeerFails BY <1>7 DEF PeerFails
<1>8. ASSUME NEW t \in Pushed, ServerPushes(t) PROVE IdsInv'
  <2>1. t # "result"
    BY PushedAssumption DEF WelcomeFrame
  <2>2. /\ inbox' = Append(inbox, [t |-> t, id |-> 0, of |-> NoCall, ok |-> FALSE])
        /\ UNCHANGED <<pc, id, timer, pending, nextID, sent>>
    BY <1>8 DEF ServerPushes, ServerSends
  <2>. QED BY <2>1, <2>2
<1>9. ASSUME NEW c \in Call, NEW ok \in Verdict, ServerAnswers(c, ok) PROVE IdsInv'
  BY <1>9 DEF ServerAnswers, ServerSends
<1>10. CASE UNCHANGED vars BY <1>10
<1>. QED BY <1>1, <1>2, <1>3, <1>4, <1>5, <1>6, <1>7, <1>8, <1>9, <1>10 DEF Next

\* The reader takes from the map the very call the frame answers.
LEMMA ResultStep ==
    ASSUME TypeOK, IdsInv, ResultInv, [Next]_vars
    PROVE  ResultInv'
<1> USE NoCallAssumption DEF TypeOK, ResultInv, OwnResult, Result, Empty, vars, callVars, mapVars, readerVars, netVars
<1>1. CASE Handshake BY <1>1 DEF Handshake
<1>2. CASE HandshakeFails BY <1>2 DEF HandshakeFails, Fail
<1>3. ASSUME NEW c \in Call, InvokeStep(c) \/ TimerStep(c) PROVE ResultInv'
  <2>1. CASE InvokeClosed(c) BY <2>1 DEF InvokeClosed, Accepts
  <2>2. CASE Invoke(c) BY <2>2 DEF Invoke, Accepts, Without
  <2>3. CASE InvokeSend(c) BY <2>3 DEF InvokeSend
  <2>4. CASE InvokeResult(c) BY <2>4 DEF InvokeResult
  <2>5. CASE InvokeCancelled(c) BY <2>5 DEF InvokeCancelled
  <2>6. CASE Forget(c) BY <2>6 DEF Forget, Holds, Without, Stopped
  <2>7. CASE TimerFires(c) BY <2>7 DEF TimerFires
  <2>8. CASE Expire(c) BY <2>8 DEF Expire, Holds, Without
  <2>9. CASE ExpireDelivers(c) BY <2>9 DEF ExpireDelivers, Deliver
  <2>. QED BY <1>3, <2>1, <2>2, <2>3, <2>4, <2>5, <2>6, <2>7, <2>8, <2>9 DEF InvokeStep, TimerStep
<1>4. CASE ReaderStep
  <2>1. CASE OnJunk BY <2>1 DEF OnJunk, Recv
  <2>2. CASE OnPush BY <2>2 DEF OnPush, Recv
  <2>3. CASE OnWelcome BY <2>3 DEF OnWelcome, Recv
  <2>4. CASE OnResult
    <3>1. CASE \E c \in Call : Holds(Head(inbox).id, c)
      <4>1. PICK c \in Call : /\ Holds(Head(inbox).id, c) /\ taken' = c
                             /\ reply' = [kind |-> IF Head(inbox).ok THEN "reply" ELSE "refused",
                                          of |-> Head(inbox).of]
        BY <2>4, <3>1 DEF OnResult
      <4>2. inbox # <<>> /\ Head(inbox) = inbox[1] /\ 1 \in 1..Len(inbox)
            /\ Head(inbox).t = "result"
        BY <2>4 DEF OnResult, Recv
      <4>3. Head(inbox).of = c
        BY <4>1, <4>2 DEF IdsInv, Registered, Holds
      <4>4. UNCHANGED <<pc, ch, ret>>
        BY <2>4 DEF OnResult
      <4>. QED BY <4>1, <4>3, <4>4
    <3>2. CASE \A c \in Call : ~Holds(Head(inbox).id, c)
      BY <2>4, <3>2 DEF OnResult
    <3>. QED BY <3>1, <3>2
  <2>5. CASE OnResultDelivers BY <2>5 DEF OnResultDelivers, Deliver, Stopped
  <2>6. CASE CheckClosed BY <2>6 DEF CheckClosed
  <2>7. CASE CallOnMessage BY <2>7 DEF CallOnMessage
  <2>8. CASE RecvFails BY <2>8 DEF RecvFails, Fail
  <2>9. CASE ReaderFailOne BY <2>9 DEF ReaderFailOne, FailOne, Deliver, Stopped
  <2>10. CASE ReaderExit BY <2>10 DEF ReaderExit
  <2>. QED BY <1>4, <2>1, <2>2, <2>3, <2>4, <2>5, <2>6, <2>7, <2>8, <2>9, <2>10 DEF ReaderStep
<1>5. ASSUME NEW k \in Closer, CloseFail(k) \/ ProbeStart(k) \/ CloserStep(k) PROVE ResultInv'
  <2>1. CASE CloseFail(k) BY <2>1 DEF CloseFail, Fail
  <2>2. CASE ProbeStart(k) BY <2>2 DEF ProbeStart
  <2>3. CASE ProbePong(k) BY <2>3 DEF ProbePong
  <2>4. CASE ProbeFails(k) BY <2>4 DEF ProbeFails, Fail
  <2>5. CASE CloseFailOne(k) BY <2>5 DEF CloseFailOne, FailOne, Deliver, Stopped
  <2>6. CASE CloseDrained(k) BY <2>6 DEF CloseDrained
  <2>7. CASE CloseSocket(k) BY <2>7 DEF CloseSocket
  <2>8. CASE CloseReturns(k) BY <2>8 DEF CloseReturns, ReaderGone
  <2>. QED BY <1>5, <2>1, <2>2, <2>3, <2>4, <2>5, <2>6, <2>7, <2>8 DEF CloserStep
<1>6. CASE KeepAlive BY <1>6 DEF KeepAlive
<1>7. CASE PeerFails BY <1>7 DEF PeerFails
<1>8. ASSUME NEW t \in Pushed, ServerPushes(t) PROVE ResultInv'
  BY <1>8 DEF ServerPushes, ServerSends
<1>9. ASSUME NEW c \in Call, NEW ok \in Verdict, ServerAnswers(c, ok) PROVE ResultInv'
  BY <1>9 DEF ServerAnswers, ServerSends
<1>10. CASE UNCHANGED vars BY <1>10
<1>. QED BY <1>1, <1>2, <1>3, <1>4, <1>5, <1>6, <1>7, <1>8, <1>9, <1>10 DEF Next

\* Every step keeps what is known of a thread from where it stands.
LEMMA PhaseStep ==
    ASSUME TypeOK, IdsInv, PhaseInv, [Next]_vars
    PROVE  PhaseInv'
<1> USE CloserAssumption DEF TypeOK, PhaseInv, Reader, vars, callVars, mapVars, readerVars, netVars
<1>1. CASE Handshake BY <1>1 DEF Handshake
<1>2. CASE HandshakeFails BY <1>2 DEF HandshakeFails, Fail
<1>3. ASSUME NEW c \in Call, InvokeStep(c) \/ TimerStep(c) PROVE PhaseInv'
  <2>1. CASE InvokeClosed(c) BY <2>1 DEF InvokeClosed, Accepts
  <2>2. CASE Invoke(c) BY <2>2 DEF Invoke, Accepts, Without
  <2>3. CASE InvokeSend(c) BY <2>3 DEF InvokeSend
  <2>4. CASE InvokeResult(c) BY <2>4 DEF InvokeResult
  <2>5. CASE InvokeCancelled(c) BY <2>5 DEF InvokeCancelled
  <2>6. CASE Forget(c) BY <2>6 DEF Forget, Holds, Without, Stopped
  <2>7. CASE TimerFires(c) BY <2>7 DEF TimerFires
  <2>8. CASE Expire(c) BY <2>8 DEF Expire, Holds, Without
  <2>9. CASE ExpireDelivers(c) BY <2>9 DEF ExpireDelivers, Deliver
  <2>. QED BY <1>3, <2>1, <2>2, <2>3, <2>4, <2>5, <2>6, <2>7, <2>8, <2>9 DEF InvokeStep, TimerStep
<1>4. CASE ReaderStep
  <2>1. CASE OnJunk BY <2>1 DEF OnJunk, Recv
  <2>2. CASE OnPush BY <2>2 DEF OnPush, Recv
  <2>3. CASE OnWelcome BY <2>3 DEF OnWelcome, Recv
  <2>4. CASE OnResult BY <2>4 DEF OnResult, Recv, Holds, Without
  <2>5. CASE OnResultDelivers BY <2>5 DEF OnResultDelivers, Deliver, Stopped
  <2>6. CASE CheckClosed BY <2>6 DEF CheckClosed
  <2>7. CASE CallOnMessage BY <2>7 DEF CallOnMessage
  <2>8. CASE RecvFails BY <2>8 DEF RecvFails, Fail
  <2>9. CASE ReaderFailOne BY <2>9 DEF ReaderFailOne, FailOne, Deliver, Stopped
  <2>10. CASE ReaderExit BY <2>10 DEF ReaderExit
  <2>. QED BY <1>4, <2>1, <2>2, <2>3, <2>4, <2>5, <2>6, <2>7, <2>8, <2>9, <2>10 DEF ReaderStep
<1>5. ASSUME NEW k \in Closer, CloseFail(k) \/ ProbeStart(k) \/ CloserStep(k) PROVE PhaseInv'
  <2>1. CASE CloseFail(k) BY <2>1 DEF CloseFail, Fail
  <2>2. CASE ProbeStart(k) BY <2>2 DEF ProbeStart
  <2>3. CASE ProbePong(k) BY <2>3 DEF ProbePong
  <2>4. CASE ProbeFails(k) BY <2>4 DEF ProbeFails, Fail
  <2>5. CASE CloseFailOne(k) BY <2>5 DEF CloseFailOne, FailOne, Deliver, Stopped
  <2>6. CASE CloseDrained(k) BY <2>6 DEF CloseDrained
  <2>7. CASE CloseSocket(k) BY <2>7 DEF CloseSocket
  <2>8. CASE CloseReturns(k) BY <2>8 DEF CloseReturns, ReaderGone
  <2>. QED BY <1>5, <2>1, <2>2, <2>3, <2>4, <2>5, <2>6, <2>7, <2>8 DEF CloserStep
<1>6. CASE KeepAlive BY <1>6 DEF KeepAlive
<1>7. CASE PeerFails BY <1>7 DEF PeerFails
<1>8. ASSUME NEW t \in Pushed, ServerPushes(t) PROVE PhaseInv'
  BY <1>8 DEF ServerPushes, ServerSends
<1>9. ASSUME NEW c \in Call, NEW ok \in Verdict, ServerAnswers(c, ok) PROVE PhaseInv'
  BY <1>9 DEF ServerAnswers, ServerSends
<1>10. CASE UNCHANGED vars BY <1>10
<1>. QED BY <1>1, <1>2, <1>3, <1>4, <1>5, <1>6, <1>7, <1>8, <1>9, <1>10 DEF Next

-----------------------------------------------------------------------------

\* Membership in Holders, spelled out.
LEMMA HoldersDef ==
    ASSUME NEW c \in Call, NEW h
    PROVE  h \in Holders(c)
           <=> ( \/ h = "map" /\ (\E e \in pending : e[2] = c)
                 \/ h = "result" /\ taken = c
                 \/ h = "timer" /\ timer[c] = "expiring"
                 \/ h = "channel" /\ ch[c] # Empty
                 \/ h \in Closer \cup {Reader} /\ c \in failing[h] )
<1> DEFINE M == {g \in {"map"} : \E e \in pending : e[2] = c}
           R == {g \in {"result"} : taken = c}
           T == {g \in {"timer"} : timer[c] = "expiring"}
           C == {g \in {"channel"} : ch[c] # Empty}
           F == {a \in Closer \cup {Reader} : c \in failing[a]}
<1>1. h \in M <=> h = "map" /\ \E e \in pending : e[2] = c
  OBVIOUS
<1>2. h \in R <=> h = "result" /\ taken = c
  OBVIOUS
<1>3. h \in T <=> h = "timer" /\ timer[c] = "expiring"
  OBVIOUS
<1>4. h \in C <=> h = "channel" /\ ch[c] # Empty
  OBVIOUS
<1>5. h \in F <=> h \in Closer \cup {Reader} /\ c \in failing[h]
  OBVIOUS
<1>6. Holders(c) = M \cup R \cup T \cup C \cup F
  BY DEF Holders, Empty
<1>7. h \in Holders(c) <=> h \in M \/ h \in R \/ h \in T \/ h \in C \/ h \in F
  <2> HIDE DEF M, R, T, C, F
  <2>. QED BY <1>6
<1>. QED
  <2> HIDE DEF M, R, T, C, F
  <2>. QED BY <1>1, <1>2, <1>3, <1>4, <1>5, <1>7

\* The component-wise form implies the property.
LEMMA SettlerInvSuffices == SettlerInv => ExactlyOneSettler
<1> SUFFICES ASSUME SettlerInv, NEW c \in Call PROVE OneSettler(c)
  BY DEF ExactlyOneSettler
<1> DEFINE Where(h) == \/ h = "map" /\ InMap(c)
                       \/ h = "result" /\ taken = c
                       \/ h = "timer" /\ timer[c] = "expiring"
                       \/ h = "channel" /\ ch[c] # Empty
                       \/ h \in Closer \cup {Reader} /\ c \in failing[h]
<1>1. \A h : h \in Holders(c) <=> Where(h)
  BY HoldersDef DEF InMap
<1>2. \A g, h \in Holders(c) : g = h
  <2>1. SUFFICES ASSUME NEW g, NEW h, Where(g), Where(h) PROVE g = h
    BY <1>1
  <2>. QED BY <2>1 DEF SettlerInv, Settler, InFail
<1>3. pc[c] \in {"send", "wait", "forget"} => Holders(c) # {}
  BY <1>1 DEF SettlerInv, Settler, InFail
<1>4. pc[c] = "idle" \/ (pc[c] = "returned" /\ ret[c].kind # "dropped") => Holders(c) = {}
  <2>1. SUFFICES ASSUME pc[c] = "idle" \/ (pc[c] = "returned" /\ ret[c].kind # "dropped"), NEW h
        PROVE h \notin Holders(c)
    OBVIOUS
  <2>. QED BY <1>1, <2>1 DEF SettlerInv, Settler, InFail
<1>5. pc[c] = "returned" => "map" \notin Holders(c)
  BY <1>1, CloserAssumption DEF SettlerInv, Settler, Reader
<1>. QED BY <1>2, <1>3, <1>4, <1>5 DEF OneSettler

\* Taking the entry of c, looked up under its id, takes c from the map and
\* nobody else.
LEMMA TakeEntry ==
    ASSUME TypeOK, IdsInv, NEW c \in Call, Holds(id[c], c), pending' = Without(id[c]),
           NEW d \in Call
    PROVE  InMap(d)' = (InMap(d) /\ d # c)
  BY DEF TypeOK, IdsInv, Holds, Without, InMap

\* The critical section of fail takes every call in the map and no other.
LEMMA FailSettles ==
    ASSUME TypeOK, SettlerInv, NEW a \in Closer \cup {Reader}, Fail(a), failing[a] = {},
           UNCHANGED <<pc, ret, taken, timer, ch>>
    PROVE  SettlerInv'
<1>1. CASE closed
  BY <1>1 DEF Fail, SettlerInv, Settler, InMap, InFail
<1>2. CASE ~closed
  <2>1. \A d \in Call : ~InMap(d)'
    BY <1>2 DEF Fail, InMap
  <2>2. \A d \in Call : \A b \in Closer \cup {Reader} :
          d \in failing'[b] <=> IF b = a THEN InMap(d) ELSE d \in failing[b]
    BY <1>2 DEF Fail, InMap, TypeOK
  <2>3. \A d \in Call : InFail(d)' <=> InFail(d) \/ InMap(d)
    BY <2>2 DEF InFail
  <2>4. \A d \in Call : \A b \in Closer \cup {Reader} : d \in failing[b] => InFail(d)
    BY DEF InFail
  <2>. QED BY <2>1, <2>2, <2>3, <2>4 DEF SettlerInv, Settler
<1>. QED BY <1>1, <1>2

\* One thread of fail's loop answers one call.
LEMMA FailOneSettles ==
    ASSUME TypeOK, SettlerInv, NEW a \in Closer \cup {Reader}, NEW c \in Call, FailOne(a, c)
    PROVE  SettlerInv'
<1>1. \A d \in Call : InMap(d)' = InMap(d)
  BY DEF FailOne, mapVars, InMap
<1>2. \A d \in Call : \A b \in Closer \cup {Reader} :
        d \in failing'[b] <=> d \in failing[b] /\ ~(b = a /\ d = c)
  BY DEF FailOne, TypeOK
<1>3. InFail(c) /\ ~InFail(c)'
  BY <1>2 DEF FailOne, InFail, SettlerInv, Settler
<1>4. \A d \in Call : d # c => InFail(d)' = InFail(d)
  BY <1>2 DEF InFail
<1>5. \A d \in Call : pc'[d] = pc[d] /\ ret'[d] = ret[d] /\ (timer'[d] = "expiring") = (timer[d] = "expiring")
  BY DEF FailOne, callVars, Stopped, TypeOK
<1>6. taken' = taken /\ ch'[c] # Empty /\ \A d \in Call : d # c => ch'[d] = ch[d]
  BY NoCallAssumption DEF FailOne, readerVars, Deliver, TypeOK, Empty
<1>. QED BY <1>1, <1>2, <1>3, <1>4, <1>5, <1>6 DEF SettlerInv, Settler

\* Every step hands an answer over without dropping or doubling it.
LEMMA SettlerStep ==
    ASSUME TypeOK, TypeOK', IdsInv, ResultInv, PhaseInv, SettlerInv, [Next]_vars
    PROVE  SettlerInv'
<1> USE NoCallAssumption DEF TypeOK, vars, callVars, mapVars, readerVars, netVars
<1>1. CASE Handshake BY <1>1 DEF Handshake, SettlerInv, Settler, InMap, InFail
<1>2. CASE HandshakeFails
  BY <1>2, FailSettles DEF HandshakeFails, PhaseInv
<1>3. ASSUME NEW c \in Call, InvokeStep(c) \/ TimerStep(c) PROVE SettlerInv'
  <2>1. CASE InvokeClosed(c)
    <3>1. UNCHANGED <<ch, timer, taken, failing, pending>>
      BY <2>1 DEF InvokeClosed
    <3>2. pc[c] = "idle" /\ pc'[c] = "returned"
          /\ \A d \in Call : d # c => pc'[d] = pc[d] /\ ret'[d] = ret[d]
      BY <2>1 DEF InvokeClosed
    <3>3. \A d \in Call : InFail(d)' = InFail(d) /\ InMap(d)' = InMap(d)
      BY <3>1 DEF InMap, InFail
    <3>. QED
      <4> SUFFICES ASSUME NEW d \in Call PROVE Settler(d)'
        BY DEF SettlerInv
      <4>1. CASE d = c BY <3>1, <3>2, <3>3, <4>1 DEF SettlerInv, Settler
      <4>2. CASE d # c BY <3>1, <3>2, <3>3, <4>2 DEF SettlerInv, Settler
      <4>. QED BY <4>1, <4>2
  <2>2. CASE Invoke(c)
    <3>1. \A d \in Call : InMap(d)' <=> InMap(d) \/ d = c
      
      <4>1. pending' = Without(nextID) \cup {<<nextID, c>>}
        BY <2>2 DEF Invoke
      <4>2. \A e \in pending : e[1] # nextID
        BY DEF IdsInv
      <4>3. pending' = pending \cup {<<nextID, c>>}
        BY <4>1, <4>2 DEF Without
      <4> DEFINE new == <<nextID, c>>
      <4>4. new[2] = c
        OBVIOUS
      <4>5. pending' = pending \cup {new}
        BY <4>3
      <4> HIDE DEF new
      <4>. QED BY <4>4, <4>5 DEF InMap
    <3>2. UNCHANGED <<ret, ch, taken, failing>> /\ \A d \in Call : InFail(d)' = InFail(d)
      BY <2>2 DEF Invoke, InFail
    <3>3. /\ pc[c] = "idle" /\ pc'[c] = "send" /\ timer'[c] = "armed"
          /\ \A d \in Call : d # c => pc'[d] = pc[d] /\ timer'[d] = timer[d]
      BY <2>2 DEF Invoke
    <3>. QED BY <3>1, <3>2, <3>3 DEF SettlerInv, Settler
  <2>3. CASE InvokeSend(c)
    <3>1. UNCHANGED <<ret, ch, timer, taken, failing, pending>>
      BY <2>3 DEF InvokeSend
    <3>2. pc[c] = "send" /\ pc'[c] \in {"wait", "forget"} /\ \A d \in Call : d # c => pc'[d] = pc[d]
      BY <2>3 DEF InvokeSend
    <3>3. \A d \in Call : InFail(d)' = InFail(d) /\ InMap(d)' = InMap(d)
      BY <3>1 DEF InMap, InFail
    <3>. QED
      <4> SUFFICES ASSUME NEW d \in Call PROVE Settler(d)'
        BY DEF SettlerInv
      <4>1. CASE d = c BY <3>1, <3>2, <3>3, <4>1 DEF SettlerInv, Settler
      <4>2. CASE d # c BY <3>1, <3>2, <3>3, <4>2 DEF SettlerInv, Settler
      <4>. QED BY <4>1, <4>2
  <2>4. CASE InvokeResult(c) BY <2>4 DEF InvokeResult, SettlerInv, Settler, InMap, InFail
  <2>5. CASE InvokeCancelled(c) BY <2>5 DEF InvokeCancelled, SettlerInv, Settler, InMap, InFail
  <2>6. CASE Forget(c)
    <3>1. \A d \in Call : InMap(d)' = (InMap(d) /\ d # c)
      <4>1. CASE Holds(id[c], c)
        BY <2>6, <4>1, TakeEntry DEF Forget
      <4>2. CASE ~Holds(id[c], c)
        <5>1. ~InMap(c)
          <6> SUFFICES ASSUME NEW e \in pending, e[2] = c PROVE FALSE
            BY DEF InMap
          <6>1. e = <<e[1], e[2]>> /\ e[1] = id[c]
            BY DEF IdsInv
          <6>. QED BY <4>2, <6>1 DEF Holds
        <5>2. pending' = pending
          BY <2>6, <4>2 DEF Forget
        <5>. QED BY <5>1, <5>2 DEF InMap
      <4>. QED BY <4>1, <4>2
    <3>2. UNCHANGED <<ch, taken, failing>> /\ \A d \in Call : InFail(d)' = InFail(d)
      BY <2>6 DEF Forget, InFail
    <3>3. /\ pc[c] = "forget" /\ pc'[c] = "returned" /\ ret'[c].kind = "dropped"
          /\ \A d \in Call : d # c => pc'[d] = pc[d] /\ ret'[d] = ret[d]
          /\ \A d \in Call : (timer'[d] = "expiring") = (timer[d] = "expiring")
      BY <2>6 DEF Forget, Stopped
    <3>. QED
      <4> SUFFICES ASSUME NEW d \in Call PROVE Settler(d)'
        BY DEF SettlerInv
      <4>1. CASE d = c BY <3>1, <3>2, <3>3, <4>1 DEF SettlerInv, Settler
      <4>2. CASE d # c
        <5>0. InMap(d)' = (InMap(d) /\ d # c)  BY <3>1
        <5>1. (InMap(d)' <=> InMap(d)) /\ InFail(d)' = InFail(d)  BY <3>2, <4>2, <5>0
        <5>2. /\ ch' = ch /\ taken' = taken /\ failing' = failing
              /\ pc'[d] = pc[d] /\ ret'[d] = ret[d]
              /\ (timer'[d] = "expiring") = (timer[d] = "expiring")
          BY <3>2, <3>3, <4>2
        <5>3. Settler(d)  BY DEF SettlerInv
        <5>. QED BY <5>1, <5>2, <5>3 DEF Settler
      <4>. QED BY <4>1, <4>2
  <2>7. CASE TimerFires(c) BY <2>7 DEF TimerFires, SettlerInv, Settler, InMap, InFail
  <2>8. CASE Expire(c)
    <3>1. UNCHANGED <<pc, ret, ch, taken, failing>> /\ \A d \in Call : InFail(d)' = InFail(d)
      BY <2>8 DEF Expire, InFail
    <3>2. CASE Holds(id[c], c)
      <4>1. \A d \in Call : InMap(d)' = (InMap(d) /\ d # c)
        BY <2>8, <3>2, TakeEntry DEF Expire
      <4>2. InMap(c) /\ timer'[c] = "expiring" /\ \A d \in Call : d # c => timer'[d] = timer[d]
        BY <2>8, <3>2 DEF Expire, Holds, InMap
      <4>. QED
        <5> SUFFICES ASSUME NEW d \in Call PROVE Settler(d)'
          BY DEF SettlerInv
        <5>1. CASE d = c BY <3>1, <4>1, <4>2, <5>1 DEF SettlerInv, Settler
        <5>2. CASE d # c BY <3>1, <4>1, <4>2, <5>2 DEF SettlerInv, Settler
        <5>. QED BY <5>1, <5>2
    <3>3. CASE ~Holds(id[c], c)
      <4>1. \A d \in Call : InMap(d)' = InMap(d) /\ (timer'[d] = "expiring") = (timer[d] = "expiring")
        BY <2>8, <3>3 DEF Expire, InMap
      <4>. QED BY <3>1, <4>1 DEF SettlerInv, Settler
    <3>. QED BY <3>2, <3>3
  <2>9. CASE ExpireDelivers(c)
    <3>1. UNCHANGED <<pc, ret, taken, failing>>
          /\ \A d \in Call : InFail(d)' = InFail(d) /\ InMap(d)' = InMap(d)
      BY <2>9 DEF ExpireDelivers, InFail, InMap
    <3>2. timer[c] = "expiring" /\ timer'[c] = "over" /\ ch'[c] # Empty
          /\ \A d \in Call : d # c => timer'[d] = timer[d] /\ ch'[d] = ch[d]
      BY <2>9 DEF ExpireDelivers, Deliver, Empty
    <3>. QED BY <3>1, <3>2 DEF SettlerInv, Settler
  <2>. QED BY <1>3, <2>1, <2>2, <2>3, <2>4, <2>5, <2>6, <2>7, <2>8, <2>9 DEF InvokeStep, TimerStep
<1>4. CASE ReaderStep
  <2>1. CASE OnJunk BY <2>1 DEF OnJunk, Recv, SettlerInv, Settler, InMap, InFail
  <2>2. CASE OnPush BY <2>2 DEF OnPush, Recv, SettlerInv, Settler, InMap, InFail
  <2>3. CASE OnWelcome BY <2>3 DEF OnWelcome, Recv, SettlerInv, Settler, InMap, InFail
  <2>4. CASE OnResult
    <3>1. UNCHANGED <<pc, ret, ch, timer, failing>> /\ \A d \in Call : InFail(d)' = InFail(d)
      BY <2>4 DEF OnResult, InFail
    <3>2. CASE \E c \in Call : Holds(Head(inbox).id, c)
      <4>1. PICK c \in Call : /\ Holds(Head(inbox).id, c) /\ taken' = c
                             /\ pending' = Without(Head(inbox).id)
        BY <2>4, <3>2 DEF OnResult
      <4>2. Head(inbox).id = id[c]
        BY <4>1 DEF IdsInv, Holds
      <4>3. \A d \in Call : InMap(d)' = (InMap(d) /\ d # c)
        BY <4>1, <4>2, TakeEntry
      <4>4. InMap(c) /\ taken = NoCall
        BY <2>4, <4>1 DEF Holds, InMap, OnResult, Recv
      <4>. QED
        <5> SUFFICES ASSUME NEW d \in Call PROVE Settler(d)'
          BY DEF SettlerInv
        <5>1. CASE d = c BY <3>1, <4>1, <4>3, <4>4, <5>1 DEF SettlerInv, Settler
        <5>2. CASE d # c BY <3>1, <4>1, <4>3, <4>4, <5>2 DEF SettlerInv, Settler
        <5>. QED BY <5>1, <5>2
    <3>3. CASE \A c \in Call : ~Holds(Head(inbox).id, c)
      BY <2>4, <3>1, <3>3 DEF OnResult, SettlerInv, Settler, InMap
    <3>. QED BY <3>2, <3>3
  <2>5. CASE OnResultDelivers
    <3>1. UNCHANGED <<pc, ret, failing>> /\ taken \in Call /\ taken' = NoCall
          /\ \A d \in Call : InFail(d)' = InFail(d) /\ InMap(d)' = InMap(d)
      BY <2>5 DEF OnResultDelivers, InFail, InMap
    <3>2. ch'[taken] # Empty /\ \A d \in Call : d # taken => ch'[d] = ch[d]
      BY <2>5, <3>1 DEF OnResultDelivers, Deliver, ResultInv
    <3>3. \A d \in Call : (timer'[d] = "expiring") = (timer[d] = "expiring")
      BY <2>5 DEF OnResultDelivers, Stopped
    <3>. QED BY <3>1, <3>2, <3>3 DEF SettlerInv, Settler
  <2>6. CASE CheckClosed BY <2>6 DEF CheckClosed, SettlerInv, Settler, InMap, InFail
  <2>7. CASE CallOnMessage BY <2>7 DEF CallOnMessage, SettlerInv, Settler, InMap, InFail
  <2>8. CASE RecvFails
    BY <2>8, FailSettles DEF RecvFails, PhaseInv
  <2>9. CASE ReaderFailOne
    BY <2>9, FailOneSettles DEF ReaderFailOne
  <2>10. CASE ReaderExit BY <2>10 DEF ReaderExit, SettlerInv, Settler, InMap, InFail
  <2>. QED BY <1>4, <2>1, <2>2, <2>3, <2>4, <2>5, <2>6, <2>7, <2>8, <2>9, <2>10 DEF ReaderStep
<1>5. ASSUME NEW k \in Closer, CloseFail(k) \/ ProbeStart(k) \/ CloserStep(k) PROVE SettlerInv'
  <2>1. CASE CloseFail(k)
    BY <2>1, FailSettles DEF CloseFail, PhaseInv
  <2>2. CASE ProbeStart(k) BY <2>2 DEF ProbeStart, SettlerInv, Settler, InMap, InFail
  <2>3. CASE ProbePong(k) BY <2>3 DEF ProbePong, SettlerInv, Settler, InMap, InFail
  <2>4. CASE ProbeFails(k)
    BY <2>4, FailSettles DEF ProbeFails, PhaseInv
  <2>5. CASE CloseFailOne(k)
    BY <2>5, FailOneSettles DEF CloseFailOne
  <2>6. CASE CloseDrained(k) BY <2>6 DEF CloseDrained, SettlerInv, Settler, InMap, InFail
  <2>7. CASE CloseSocket(k) BY <2>7 DEF CloseSocket, SettlerInv, Settler, InMap, InFail
  <2>8. CASE CloseReturns(k) BY <2>8 DEF CloseReturns, ReaderGone, SettlerInv, Settler, InMap, InFail
  <2>. QED BY <1>5, <2>1, <2>2, <2>3, <2>4, <2>5, <2>6, <2>7, <2>8 DEF CloserStep
<1>6. CASE KeepAlive BY <1>6 DEF KeepAlive, SettlerInv, Settler, InMap, InFail
<1>7. CASE PeerFails BY <1>7 DEF PeerFails, SettlerInv, Settler, InMap, InFail
<1>8. ASSUME NEW t \in Pushed, ServerPushes(t) PROVE SettlerInv'
  BY <1>8 DEF ServerPushes, ServerSends, SettlerInv, Settler, InMap, InFail
<1>9. ASSUME NEW c \in Call, NEW ok \in Verdict, ServerAnswers(c, ok) PROVE SettlerInv'
  BY <1>9 DEF ServerAnswers, ServerSends, SettlerInv, Settler, InMap, InFail
<1>10. CASE UNCHANGED vars BY <1>10 DEF SettlerInv, Settler, InMap, InFail
<1>. QED BY <1>1, <1>2, <1>3, <1>4, <1>5, <1>6, <1>7, <1>8, <1>9, <1>10 DEF Next

-----------------------------------------------------------------------------

\* Every step keeps the map empty and the welcome decided once closed.
LEMMA ClosedStep ==
    ASSUME TypeOK, PhaseInv, ClosedInv, [Next]_vars
    PROVE  ClosedInv'
<1> USE DEF TypeOK, ClosedInv, NothingPendingOnceClosed, WelcomeDecidedOnceClosed, vars, callVars, mapVars, readerVars, netVars
<1>1. CASE Handshake BY <1>1 DEF Handshake
<1>2. CASE HandshakeFails BY <1>2 DEF HandshakeFails, Fail, Decide
<1>3. ASSUME NEW c \in Call, InvokeStep(c) \/ TimerStep(c) PROVE ClosedInv'
  <2>1. CASE InvokeClosed(c) BY <2>1 DEF InvokeClosed, Accepts
  <2>2. CASE Invoke(c) BY <2>2 DEF Invoke, Accepts, Without
  <2>3. CASE InvokeSend(c) BY <2>3 DEF InvokeSend
  <2>4. CASE InvokeResult(c) BY <2>4 DEF InvokeResult
  <2>5. CASE InvokeCancelled(c) BY <2>5 DEF InvokeCancelled
  <2>6. CASE Forget(c) BY <2>6 DEF Forget, Holds, Without, Stopped
  <2>7. CASE TimerFires(c) BY <2>7 DEF TimerFires
  <2>8. CASE Expire(c) BY <2>8 DEF Expire, Holds, Without
  <2>9. CASE ExpireDelivers(c) BY <2>9 DEF ExpireDelivers, Deliver
  <2>. QED BY <1>3, <2>1, <2>2, <2>3, <2>4, <2>5, <2>6, <2>7, <2>8, <2>9 DEF InvokeStep, TimerStep
<1>4. CASE ReaderStep
  <2>1. CASE OnJunk BY <2>1 DEF OnJunk, Recv
  <2>2. CASE OnPush BY <2>2 DEF OnPush, Recv
  <2>3. CASE OnWelcome BY <2>3 DEF OnWelcome, Recv, Decide
  <2>4. CASE OnResult BY <2>4 DEF OnResult, Recv, Holds, Without
  <2>5. CASE OnResultDelivers BY <2>5 DEF OnResultDelivers, Deliver, Stopped
  <2>6. CASE CheckClosed BY <2>6 DEF CheckClosed
  <2>7. CASE CallOnMessage BY <2>7 DEF CallOnMessage
  <2>8. CASE RecvFails BY <2>8 DEF RecvFails, Fail, Decide
  <2>9. CASE ReaderFailOne BY <2>9 DEF ReaderFailOne, FailOne, Deliver, Stopped
  <2>10. CASE ReaderExit BY <2>10 DEF ReaderExit
  <2>. QED BY <1>4, <2>1, <2>2, <2>3, <2>4, <2>5, <2>6, <2>7, <2>8, <2>9, <2>10 DEF ReaderStep
<1>5. ASSUME NEW k \in Closer, CloseFail(k) \/ ProbeStart(k) \/ CloserStep(k) PROVE ClosedInv'
  <2>1. CASE CloseFail(k) BY <2>1 DEF CloseFail, Fail, Decide
  <2>2. CASE ProbeStart(k) BY <2>2 DEF ProbeStart
  <2>3. CASE ProbePong(k) BY <2>3 DEF ProbePong
  <2>4. CASE ProbeFails(k) BY <2>4 DEF ProbeFails, Fail, Decide
  <2>5. CASE CloseFailOne(k) BY <2>5 DEF CloseFailOne, FailOne, Deliver, Stopped
  <2>6. CASE CloseDrained(k) BY <2>6 DEF CloseDrained
  <2>7. CASE CloseSocket(k) BY <2>7 DEF CloseSocket
  <2>8. CASE CloseReturns(k) BY <2>8 DEF CloseReturns, ReaderGone
  <2>. QED BY <1>5, <2>1, <2>2, <2>3, <2>4, <2>5, <2>6, <2>7, <2>8 DEF CloserStep
<1>6. CASE KeepAlive BY <1>6 DEF KeepAlive
<1>7. CASE PeerFails BY <1>7 DEF PeerFails
<1>8. ASSUME NEW t \in Pushed, ServerPushes(t) PROVE ClosedInv'
  BY <1>8 DEF ServerPushes, ServerSends
<1>9. ASSUME NEW c \in Call, NEW ok \in Verdict, ServerAnswers(c, ok) PROVE ClosedInv'
  BY <1>9 DEF ServerAnswers, ServerSends
<1>10. CASE UNCHANGED vars BY <1>10
<1>. QED BY <1>1, <1>2, <1>3, <1>4, <1>5, <1>6, <1>7, <1>8, <1>9, <1>10 DEF Next

\* Every step keeps replies tied to the server having answered.
LEMMA AnswerStep ==
    ASSUME TypeOK, TypeOK', ResultInv, PhaseInv, AnswerInv, [Next]_vars
    PROVE  AnswerInv'
<1> USE NoCallAssumption DEF TypeOK, AnswerInv, Empty, vars, callVars, mapVars, readerVars, netVars
<1>1. CASE Handshake BY <1>1 DEF Handshake
<1>2. CASE HandshakeFails BY <1>2 DEF HandshakeFails, Fail
<1>3. ASSUME NEW c \in Call, InvokeStep(c) \/ TimerStep(c) PROVE AnswerInv'
  <2>1. CASE InvokeClosed(c) BY <2>1 DEF InvokeClosed, Accepts
  <2>2. CASE Invoke(c) BY <2>2 DEF Invoke, Accepts, Without
  <2>3. CASE InvokeSend(c) BY <2>3 DEF InvokeSend
  <2>4. CASE InvokeResult(c) BY <2>4 DEF InvokeResult
  <2>5. CASE InvokeCancelled(c) BY <2>5 DEF InvokeCancelled
  <2>6. CASE Forget(c) BY <2>6 DEF Forget, Holds, Without, Stopped
  <2>7. CASE TimerFires(c) BY <2>7 DEF TimerFires
  <2>8. CASE Expire(c) BY <2>8 DEF Expire, Holds, Without
  <2>9. CASE ExpireDelivers(c) BY <2>9 DEF ExpireDelivers, Deliver
  <2>. QED BY <1>3, <2>1, <2>2, <2>3, <2>4, <2>5, <2>6, <2>7, <2>8, <2>9 DEF InvokeStep, TimerStep
<1>4. CASE ReaderStep
  <2>1. CASE OnJunk BY <2>1 DEF OnJunk, Recv
  <2>2. CASE OnPush BY <2>2 DEF OnPush, Recv
  <2>3. CASE OnWelcome 
    <3>1. /\ inbox # <<>> /\ inbox' = Tail(inbox)
          /\ UNCHANGED <<taken, reply, ch, closed, answered>>
      BY <2>3 DEF OnWelcome, Recv
    <3>. QED BY <3>1
  <2>4. CASE OnResult 
    <3>1. /\ inbox # <<>> /\ inbox' = Tail(inbox) /\ Head(inbox) = inbox[1] /\ 1 \in 1..Len(inbox)
          /\ Head(inbox).t = "result" /\ UNCHANGED <<ch, closed, answered>>
      BY <2>4 DEF OnResult, Recv
    <3>2. CASE \E c \in Call : Holds(Head(inbox).id, c)
      <4>1. reply' = [kind |-> IF Head(inbox).ok THEN "reply" ELSE "refused", of |-> Head(inbox).of]
        BY <2>4, <3>2 DEF OnResult
      <4>2. Head(inbox).of \in answered
        BY <3>1
      <4>3. \A i \in 1..Len(inbox') : inbox'[i].t = "result" => inbox'[i].of \in answered
        BY <3>1
      <4>. QED BY <3>1, <4>1, <4>2, <4>3
    <3>3. CASE \A c \in Call : ~Holds(Head(inbox).id, c)
      BY <2>4, <3>1, <3>3 DEF OnResult
    <3>. QED BY <3>2, <3>3
  <2>5. CASE OnResultDelivers BY <2>5 DEF OnResultDelivers, Deliver, Stopped, ResultInv
  <2>6. CASE CheckClosed BY <2>6 DEF CheckClosed
  <2>7. CASE CallOnMessage BY <2>7 DEF CallOnMessage
  <2>8. CASE RecvFails BY <2>8 DEF RecvFails, Fail
  <2>9. CASE ReaderFailOne BY <2>9 DEF ReaderFailOne, FailOne, Deliver, Stopped, PhaseInv
  <2>10. CASE ReaderExit BY <2>10 DEF ReaderExit
  <2>. QED BY <1>4, <2>1, <2>2, <2>3, <2>4, <2>5, <2>6, <2>7, <2>8, <2>9, <2>10 DEF ReaderStep
<1>5. ASSUME NEW k \in Closer, CloseFail(k) \/ ProbeStart(k) \/ CloserStep(k) PROVE AnswerInv'
  <2>1. CASE CloseFail(k) BY <2>1 DEF CloseFail, Fail
  <2>2. CASE ProbeStart(k) BY <2>2 DEF ProbeStart
  <2>3. CASE ProbePong(k) BY <2>3 DEF ProbePong
  <2>4. CASE ProbeFails(k) BY <2>4 DEF ProbeFails, Fail
  <2>5. CASE CloseFailOne(k) 
    <3>1. PICK c \in Call : cpc[k] = "drain" /\ FailOne(k, c)
      BY <2>5 DEF CloseFailOne
    <3>2. closed /\ ch' = [ch EXCEPT ![c] = [kind |-> "disconnected", of |-> c]]
          /\ UNCHANGED <<inbox, taken, reply, closed, answered>>
      BY <3>1 DEF FailOne, Deliver, PhaseInv
    <3>. QED BY <3>2
  <2>6. CASE CloseDrained(k) BY <2>6 DEF CloseDrained
  <2>7. CASE CloseSocket(k) BY <2>7 DEF CloseSocket
  <2>8. CASE CloseReturns(k) BY <2>8 DEF CloseReturns, ReaderGone
  <2>. QED BY <1>5, <2>1, <2>2, <2>3, <2>4, <2>5, <2>6, <2>7, <2>8 DEF CloserStep
<1>6. CASE KeepAlive BY <1>6 DEF KeepAlive
<1>7. CASE PeerFails BY <1>7 DEF PeerFails
<1>8. ASSUME NEW t \in Pushed, ServerPushes(t) PROVE AnswerInv'
  <2>1. t # "result"
    BY PushedAssumption DEF WelcomeFrame
  <2>2. /\ inbox' = Append(inbox, [t |-> t, id |-> 0, of |-> NoCall, ok |-> FALSE])
        /\ UNCHANGED <<taken, reply, ch, closed, answered>>
    BY <1>8 DEF ServerPushes, ServerSends
  <2>. QED BY <2>1, <2>2
<1>9. ASSUME NEW c \in Call, NEW ok \in Verdict, ServerAnswers(c, ok) PROVE AnswerInv'
  BY <1>9 DEF ServerAnswers, ServerSends
<1>10. CASE UNCHANGED vars BY <1>10
<1>. QED BY <1>1, <1>2, <1>3, <1>4, <1>5, <1>6, <1>7, <1>8, <1>9, <1>10 DEF Next

-----------------------------------------------------------------------------

\* The invariant holds at the start.
LEMMA InitIInv == Init => IInv
<1> SUFFICES ASSUME Init PROVE IInv
  OBVIOUS
<1> USE NoCallAssumption, CloserAssumption DEF Init
<1>1. TypeOK
  <2>1. inbox \in Seq(Frame)
    OBVIOUS
  <2>. QED BY <2>1 DEF TypeOK, Result, Empty
<1>2. IdsInv
  BY DEF IdsInv, Registered
<1>3. ResultInv
  BY DEF ResultInv, OwnResult
<1>4. PhaseInv
  BY DEF PhaseInv, Reader
<1>5. SettlerInv
  BY DEF SettlerInv, Settler, InMap, InFail, Empty
<1>6. ClosedInv
  BY DEF ClosedInv, NothingPendingOnceClosed, WelcomeDecidedOnceClosed
<1>7. AnswerInv
  BY DEF AnswerInv
<1>. QED BY <1>1, <1>2, <1>3, <1>4, <1>5, <1>6, <1>7 DEF IInv

\* The invariant is inductive.
LEMMA StepIInv == IInv /\ [Next]_vars => IInv'
<1> SUFFICES ASSUME IInv, [Next]_vars PROVE IInv'
  OBVIOUS
<1>1. TypeOK'
  BY TypeStep DEF IInv
<1>2. IdsInv'
  BY <1>1, IdsStep DEF IInv
<1>3. ResultInv'
  BY ResultStep DEF IInv
<1>4. PhaseInv'
  BY PhaseStep DEF IInv
<1>5. SettlerInv'
  BY <1>1, SettlerStep DEF IInv
<1>6. ClosedInv'
  BY ClosedStep DEF IInv
<1>7. AnswerInv'
  BY <1>1, AnswerStep DEF IInv
<1>. QED BY <1>1, <1>2, <1>3, <1>4, <1>5, <1>6, <1>7 DEF IInv

\* Hence it always holds.
LEMMA Invariance == SafeSpec => []IInv
  BY InitIInv, StepIInv, PTL DEF SafeSpec

\* The state of every thread, call and channel stays well typed, and the
\* reader never settles a nil entry.
THEOREM TypeCorrect == SafeSpec => []TypeOK
<1>1. IInv => TypeOK
  BY DEF IInv
<1>. QED BY <1>1, Invariance, PTL

\* Exactly one of onResult, expire, fail and the caller answers each call, and
\* no send on p.ch ever finds the channel full.
THEOREM SettledOnce == SafeSpec => []ExactlyOneSettler
<1>1. IInv => ExactlyOneSettler
  BY SettlerInvSuffices DEF IInv
<1>. QED BY <1>1, Invariance, PTL

\* A call returns the reply to its own command.
THEOREM ResultsAreOwn == SafeSpec => []OwnResult
<1>1. IInv => OwnResult
  BY DEF IInv, ResultInv
<1>. QED BY <1>1, Invariance, PTL

\* Once c.closed is set no call waits in the map and nobody waits in Welcome.
THEOREM ClosedIsSettled == SafeSpec => []NobodyWaitsOnceClosed
<1>1. IInv => NobodyWaitsOnceClosed
  BY DEF IInv, ClosedInv, NobodyWaitsOnceClosed
<1>. QED BY <1>1, Invariance, PTL

\* After Close has returned, the reader is gone and nothing is outstanding on it.
THEOREM CloseFinal == SafeSpec => []CloseIsFinal
<1>1. IInv => CloseIsFinal
  BY DEF IInv, CloseIsFinal, TypeOK, PhaseInv, ClosedInv, NothingPendingOnceClosed
<1>. QED BY <1>1, Invariance, PTL

\* A decided welcome and a returned result are never revised.
THEOREM Irrevocable == SafeSpec => NeverRevised
<1>1. IInv /\ [Next]_vars =>
        [ /\ welcome # "none" => welcome' = welcome
          /\ \A c \in Call : ret[c] # Empty => ret'[c] = ret[c] ]_vars
  <2> SUFFICES ASSUME IInv, [Next]_vars
      PROVE  /\ welcome # "none" => welcome' = welcome
             /\ \A c \in Call : ret[c] # Empty => ret'[c] = ret[c]
    OBVIOUS
  <2> USE DEF vars, callVars, readerVars, netVars
  <2>1. welcome # "none" => welcome' = welcome
    BY DEF Next, Handshake, HandshakeFails, InvokeStep, TimerStep, ReaderStep, CloserStep, InvokeClosed, Invoke,
       InvokeSend, InvokeResult, InvokeCancelled, Forget, TimerFires, Expire, ExpireDelivers,
       OnJunk, OnPush, OnWelcome, OnResult, OnResultDelivers, CheckClosed, CallOnMessage,
       RecvFails, ReaderFailOne, ReaderExit, CloseFail, ProbeStart, ProbePong, ProbeFails,
       CloseFailOne, CloseDrained, CloseSocket, CloseReturns, KeepAlive, PeerFails,
       ServerPushes, ServerAnswers, Fail, FailOne, Decide
  <2>2. ASSUME NEW c \in Call, ret[c] # Empty PROVE ret'[c] = ret[c]
    <3>1. pc[c] = "returned" /\ ret \in [Call -> Result \cup {Empty}]
      BY <2>2 DEF IInv, ResultInv, TypeOK
    <3>2. ASSUME NEW d \in Call, InvokeClosed(d) \/ InvokeResult(d) \/ Forget(d)
          PROVE  ret'[c] = ret[c]
      BY <3>1, <3>2 DEF InvokeClosed, InvokeResult, Forget
    <3>3. ret' = ret \/ \E d \in Call : InvokeClosed(d) \/ InvokeResult(d) \/ Forget(d)
      BY DEF Next, Handshake, HandshakeFails, InvokeStep, TimerStep, ReaderStep, CloserStep, Invoke,
         InvokeSend, InvokeCancelled, TimerFires, Expire, ExpireDelivers,
         OnJunk, OnPush, OnWelcome, OnResult, OnResultDelivers, CheckClosed, CallOnMessage,
         RecvFails, ReaderFailOne, ReaderExit, CloseFail, ProbeStart, ProbePong, ProbeFails,
         CloseFailOne, CloseDrained, CloseSocket, CloseReturns, KeepAlive, PeerFails,
         ServerPushes, ServerAnswers, FailOne
    <3>. QED BY <3>2, <3>3
  <2>. QED BY <2>1, <2>2
<1>. QED BY <1>1, Invariance, PTL DEF SafeSpec, NeverRevised

\* The safety half of the promise in Calls: every step of the threads of Conn
\* is a step of the promise, or none.
THEOREM Implements == SafeSpec => Promise!SafeSpec
<1> USE DEF Promise!vars, status, ending
<1>1. Init => Promise!Init
  BY DEF Init, Promise!Init, Empty
<1>2. IInv /\ [Next]_vars => [Promise!Next]_(Promise!vars)
  <2> SUFFICES ASSUME IInv, [Next]_vars PROVE [Promise!Next]_(Promise!vars)
    OBVIOUS
  <2> USE NoCallAssumption DEF IInv, TypeOK, vars, callVars, mapVars, readerVars, netVars
  <2>1. ASSUME UNCHANGED <<pc, ret, answered, closed>> PROVE UNCHANGED Promise!vars
    BY <2>1
  <2>2. ASSUME NEW a \in Closer \cup {Reader}, Fail(a), UNCHANGED <<pc, ret, answered>>
        PROVE  [Promise!Next]_(Promise!vars)
    BY <2>2 DEF Fail, Promise!Next, Promise!GoDown
  <2>3. CASE Handshake BY <2>3, <2>1 DEF Handshake
  <2>4. CASE HandshakeFails BY <2>4, <2>2 DEF HandshakeFails
  <2>5. ASSUME NEW c \in Call, InvokeStep(c) \/ TimerStep(c) PROVE [Promise!Next]_(Promise!vars)
    <3>1. CASE InvokeClosed(c)
      <4>1. Promise!Refuse(c)
        BY <3>1 DEF InvokeClosed, Accepts, Promise!Refuse
      <4>. QED BY <4>1 DEF Promise!Next
    <3>2. CASE Invoke(c)
      <4>1. Promise!Open(c)
        BY <3>2 DEF Invoke, Accepts, Promise!Open
      <4>. QED BY <4>1 DEF Promise!Next
    <3>3. CASE InvokeSend(c) \/ InvokeCancelled(c)
      <4>1. /\ pc[c] \in {"send", "wait"} /\ pc'[c] \in {"wait", "forget"}
            /\ \A d \in Call : d # c => pc'[d] = pc[d]
            /\ UNCHANGED <<ret, answered, closed>>
        BY <3>3 DEF InvokeSend, InvokeCancelled
      <4>2. UNCHANGED <<status, ending>>
        BY <4>1
      <4>. QED BY <4>1, <4>2
    <3>4. CASE InvokeResult(c)
      <4>1. PICK e \in Promise!Ending : e = ch[c].kind
        BY <3>4 DEF InvokeResult, Promise!Ending, Result, Ending
      <4>2. Promise!Return(c, e)
        BY <3>4, <4>1 DEF InvokeResult, Promise!Return, AnswerInv
      <4>. QED BY <4>1, <4>2 DEF Promise!Next
    <3>5. CASE Forget(c)
      <4>1. Promise!Return(c, "dropped")
        BY <3>5 DEF Forget, Promise!Return
      <4>. QED BY <4>1 DEF Promise!Next, Promise!Ending
    <3>6. CASE TimerStep(c)
      BY <3>6, <2>1 DEF TimerStep, TimerFires, Expire, ExpireDelivers
    <3>. QED BY <2>5, <3>1, <3>2, <3>3, <3>4, <3>5, <3>6 DEF InvokeStep
  <2>6. CASE ReaderStep
    <3>1. CASE RecvFails BY <3>1, <2>2 DEF RecvFails
    <3>2. CASE ~RecvFails
      <4>1. UNCHANGED <<pc, ret, answered, closed>>
        BY <2>6, <3>2 DEF ReaderStep, OnJunk, OnPush, OnWelcome, OnResult, OnResultDelivers,
           CheckClosed, CallOnMessage, ReaderFailOne, FailOne, ReaderExit
      <4>. QED BY <4>1, <2>1
    <3>. QED BY <3>1, <3>2
  <2>7. ASSUME NEW k \in Closer, CloseFail(k) \/ ProbeStart(k) \/ CloserStep(k)
        PROVE  [Promise!Next]_(Promise!vars)
    <3>1. CASE CloseFail(k) \/ ProbeFails(k) BY <3>1, <2>2 DEF CloseFail, ProbeFails
    <3>2. CASE ~(CloseFail(k) \/ ProbeFails(k))
      <4>1. UNCHANGED <<pc, ret, answered, closed>>
        BY <2>7, <3>2 DEF CloserStep, ProbeStart, ProbePong, CloseFailOne, FailOne, CloseDrained,
           CloseSocket, CloseReturns
      <4>. QED BY <4>1, <2>1
    <3>. QED BY <3>1, <3>2
  <2>8. CASE KeepAlive BY <2>8, <2>1 DEF KeepAlive
  <2>9. CASE PeerFails BY <2>9, <2>1 DEF PeerFails
  <2>10. ASSUME NEW t \in Pushed, ServerPushes(t) PROVE [Promise!Next]_(Promise!vars)
    BY <2>10, <2>1 DEF ServerPushes
  <2>11. ASSUME NEW c \in Call, NEW ok \in Verdict, ServerAnswers(c, ok)
         PROVE  [Promise!Next]_(Promise!vars)
    <3>1. pc[c] # "idle"
      BY <2>11 DEF ServerAnswers, IdsInv
    <3>2. Promise!Answer(c)
      BY <2>11, <3>1 DEF ServerAnswers, Promise!Answer
    <3>. QED BY <3>2 DEF Promise!Next
  <2>12. CASE UNCHANGED vars BY <2>12, <2>1
  <2>. QED BY <2>3, <2>4, <2>5, <2>6, <2>7, <2>8, <2>9, <2>10, <2>11, <2>12 DEF Next
<1>. QED BY <1>1, <1>2, Invariance, PTL DEF SafeSpec, Promise!SafeSpec
=============================================================================
