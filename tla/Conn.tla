-------------------------------- MODULE Conn --------------------------------
(***************************************************************************)
(* One live catway socket: type Conn of src/internal/catsclient/conn.go    *)
(* over a WSSocket (src/internal/catsclient/ws.go).                        *)
(*                                                                         *)
(* Threads: one goroutine per Invoke call, one timer goroutine per call,   *)
(* the reader, the goroutines that call Close (the reconnect loop) or      *)
(* Probe (the foreground transition), and the keep-alive.  A step is what  *)
(* one of them does between two points where another can run: one critical *)
(* section of c.mu, one channel operation, or one socket operation.        *)
(***************************************************************************)
EXTENDS Naturals, Sequences

CONSTANTS
    Call,         \* the Invoke calls made on this connection
    Closer,       \* the goroutines that call Close, directly or from Probe
    NoCall,
    MaxInbox,     \* bound on the frames in flight from the server
    Pushed,       \* the frames the server sends of its own accord
    Verdict       \* what a CmdResult may say in "ok"

ASSUME MaxInboxAssumption == MaxInbox \in Nat \ {0}
ASSUME NoCallAssumption == NoCall \notin Call

Reader == "reader"
ASSUME CloserAssumption == Closer \cap {Reader, "map", "result", "timer", "channel"} = {}

Ending  == {"reply", "refused", "timeout", "disconnected", "dropped"}
Result  == [kind : Ending, of : Call]
Empty   == [kind |-> "none", of |-> NoCall]

\* A frame from the server.  "result" carries the id of the command it
\* answers; "of" is the call the server meant, which the client never sees.
\* "push" is any message of the session (layout, frame, roster...), "junk"
\* what DecodeDown rejects.
WelcomeFrame == {"welcome", "welcomeRefused", "welcomeOtherVersion"}
ASSUME PushedAssumption ==
    /\ Pushed \subseteq WelcomeFrame \cup {"push", "junk"}
    /\ Verdict \subseteq BOOLEAN
Frame == [t : WelcomeFrame \cup {"push", "junk"}, id : {0}, of : {NoCall}, ok : {FALSE}]
         \cup [t : {"result"}, id : Nat, of : Call, ok : BOOLEAN]

VARIABLES
    pc,           \* [Call -> where the goroutine in Invoke is]
    id,           \* [Call -> Nat], the local id of Invoke
    ch,           \* [Call -> the buffered channel p.ch: Empty or a result]
    ret,          \* [Call -> what Invoke returned, Empty before]
    timer,        \* [Call -> state of p.timer]
    pending,      \* c.pending as the set of its <<id, call>> entries
    nextID,       \* c.nextID
    closed,       \* c.closed (c.closeErr is non-nil exactly with it)
    failing,      \* [threads that run fail -> the calls still to be failed]
    welcome,      \* how the welcome was decided, "none" before
    rpc,          \* where the reader is
    taken,        \* the call the reader took from the map, NoCall if none
    reply,        \* the result it is about to send to that call
    cpc,          \* [Closer -> where it is]
    socket,       \* "open", "stalled" (peer silent), "dead" (reset), "closed"
    inbox,        \* frames sent by the server and not yet received
    sent,         \* the calls whose Cmd reached the server
    answered      \* the calls the server has answered

callVars   == <<pc, id, ret>>
mapVars    == <<pending, nextID>>
readerVars == <<rpc, taken, reply>>
netVars    == <<inbox, sent, answered>>
vars == <<callVars, ch, timer, mapVars, closed, failing, welcome, readerVars,
          cpc, socket, netVars>>

TypeOK ==
    /\ pc \in [Call -> {"idle", "send", "wait", "forget", "returned"}]
    /\ id \in [Call -> Nat]
    /\ ch \in [Call -> Result \cup {Empty}]
    /\ ret \in [Call -> Result \cup {Empty}]
    /\ timer \in [Call -> {"off", "armed", "fired", "expiring", "over"}]
    /\ pending \in SUBSET (Nat \X Call)
    /\ nextID \in Nat
    /\ closed \in BOOLEAN
    /\ failing \in [Closer \cup {Reader} -> SUBSET Call]
    /\ welcome \in {"none", "ok", "refused", "otherVersion", "disconnected"}
    /\ rpc \in {"new", "recv", "settle", "check", "deliver", "drain", "done"}
    /\ taken \in Call \cup {NoCall}
    /\ reply \in Result \cup {Empty}
    /\ (rpc = "settle") = (taken # NoCall)      \* the reader never settles a nil pending
    /\ cpc \in [Closer -> {"idle", "ping", "drain", "close", "join", "returned"}]
    /\ socket \in {"open", "stalled", "dead", "closed"}
    /\ inbox \in Seq(Frame)
    /\ sent \in SUBSET Call
    /\ answered \in SUBSET Call

Init ==
    /\ pc = [c \in Call |-> "idle"]
    /\ id = [c \in Call |-> 0]
    /\ ch = [c \in Call |-> Empty]
    /\ ret = [c \in Call |-> Empty]
    /\ timer = [c \in Call |-> "off"]
    /\ pending = {}
    /\ nextID = 0
    /\ closed = FALSE
    /\ failing = [a \in Closer \cup {Reader} |-> {}]
    /\ welcome = "none"
    /\ rpc = "new"
    /\ taken = NoCall
    /\ reply = Empty
    /\ cpc = [k \in Closer |-> "idle"]
    /\ socket = "open"
    /\ inbox = <<>>
    /\ sent = {}
    /\ answered = {}

-----------------------------------------------------------------------------
(* The pieces several threads share.                                       *)

\* c.pending without the entry under i.
Without(i) == {e \in pending : e[1] # i}

\* c.pending[i] == p
Holds(i, c) == <<i, c>> \in pending

\* decideWelcomeLocked: the first decision stands.
Decide(w) == IF welcome = "none" THEN w ELSE welcome

Stopped(t) == IF t = "armed" THEN "over" ELSE t

\* A mutant: failing leaves the welcome undecided.
FailNoWelcome(a) ==
    /\ IF closed
         THEN UNCHANGED <<closed, failing, pending, welcome>>
         ELSE /\ closed' = TRUE
              /\ failing' = [failing EXCEPT ![a] = {c \in Call : \E e \in pending : e[2] = c}]
              /\ pending' = {}
              /\ UNCHANGED welcome

\* The critical section of fail, run by thread a: the calls in the map become
\* a's to answer.
Fail(a) ==
    /\ IF closed
         THEN UNCHANGED <<closed, failing, pending, welcome>>
         ELSE /\ closed' = TRUE
              /\ failing' = [failing EXCEPT ![a] = {c \in Call : \E e \in pending : e[2] = c}]
              /\ pending' = {}
              /\ welcome' = Decide("disconnected")

\* p.ch <- r: the channel holds one result, so a second send would block.
Deliver(c, r) ==
    /\ ch[c] = Empty
    /\ ch' = [ch EXCEPT ![c] = r]

\* fail's loop over the swapped-out map, one call at a time.
FailOne(a, c) ==
    /\ c \in failing[a]
    /\ Deliver(c, [kind |-> "disconnected", of |-> c])
    /\ timer' = [timer EXCEPT ![c] = Stopped(@)]
    /\ failing' = [failing EXCEPT ![a] = @ \ {c}]
    /\ UNCHANGED <<callVars, mapVars, closed, welcome, readerVars, cpc, socket, netVars>>

-----------------------------------------------------------------------------
(* New: the handshake, then the reader starts.  Nobody has c before.       *)

Handshake ==
    /\ rpc = "new"
    /\ socket = "open"
    /\ rpc' = "recv"
    /\ UNCHANGED <<callVars, ch, timer, mapVars, closed, failing, welcome, taken, reply,
                   cpc, socket, netVars>>

HandshakeFails ==
    /\ rpc = "new"
    /\ socket # "open"
    /\ Fail(Reader)
    /\ rpc' = "recv"
    /\ UNCHANGED <<callVars, ch, timer, nextID, taken, reply, cpc, socket, netVars>>

-----------------------------------------------------------------------------
(* Invoke, forget and expire.                                              *)

\* A mutant: a closed connection registers the call.
AcceptsAnyway == rpc # "new"

\* The check of c.closed in Invoke, under the lock that registers the call.
Accepts == rpc # "new" /\ ~closed

InvokeClosed(c) ==
    /\ pc[c] = "idle"
    /\ rpc # "new"
    /\ ~Accepts
    /\ pc' = [pc EXCEPT ![c] = "returned"]
    /\ ret' = [ret EXCEPT ![c] = [kind |-> "disconnected", of |-> c]]
    /\ UNCHANGED <<id, ch, timer, mapVars, closed, failing, welcome, readerVars, cpc,
                   socket, netVars>>

\* A mutant: the id is not used up.
InvokeSameId(c) ==
    /\ pc[c] = "idle"
    /\ Accepts
    /\ pc' = [pc EXCEPT ![c] = "send"]
    /\ id' = [id EXCEPT ![c] = nextID]
    /\ pending' = Without(nextID) \cup {<<nextID, c>>}
    /\ timer' = [timer EXCEPT ![c] = "armed"]
    /\ UNCHANGED <<nextID, ret, ch, closed, failing, welcome, readerVars, cpc, socket, netVars>>

Invoke(c) ==
    /\ pc[c] = "idle"
    /\ Accepts
    /\ pc' = [pc EXCEPT ![c] = "send"]
    /\ id' = [id EXCEPT ![c] = nextID]
    /\ nextID' = nextID + 1
    /\ pending' = Without(nextID) \cup {<<nextID, c>>}
    /\ timer' = [timer EXCEPT ![c] = "armed"]
    /\ UNCHANGED <<ret, ch, closed, failing, welcome, readerVars, cpc, socket, netVars>>

\* socket.Send accepted the command, or failed.  On a stalled socket it does
\* neither: the write waits.
InvokeSend(c) ==
    /\ pc[c] = "send"
    /\ \/ /\ socket = "open"
          /\ pc' = [pc EXCEPT ![c] = "wait"]
          /\ sent' = sent \cup {c}
       \/ /\ socket \in {"dead", "closed"}
          /\ pc' = [pc EXCEPT ![c] = "forget"]
          /\ UNCHANGED sent
    /\ UNCHANGED <<id, ret, ch, timer, mapVars, closed, failing, welcome, readerVars, cpc,
                   socket, inbox, answered>>

\* The two arms of the select that ends Invoke.
InvokeResult(c) ==
    /\ pc[c] = "wait"
    /\ ch[c] # Empty
    /\ pc' = [pc EXCEPT ![c] = "returned"]
    /\ ret' = [ret EXCEPT ![c] = ch[c]]
    /\ ch' = [ch EXCEPT ![c] = Empty]
    /\ UNCHANGED <<id, timer, mapVars, closed, failing, welcome, readerVars, cpc, socket,
                   netVars>>

InvokeCancelled(c) ==
    /\ pc[c] = "wait"
    /\ pc' = [pc EXCEPT ![c] = "forget"]
    /\ UNCHANGED <<id, ret, ch, timer, mapVars, closed, failing, welcome, readerVars, cpc,
                   socket, netVars>>

\* forget: withdraw the entry if it is still this call's, stop the timer.
Forget(c) ==
    /\ pc[c] = "forget"
    /\ pending' = IF Holds(id[c], c) THEN Without(id[c]) ELSE pending
    /\ timer' = [timer EXCEPT ![c] = Stopped(@)]
    /\ pc' = [pc EXCEPT ![c] = "returned"]
    /\ ret' = [ret EXCEPT ![c] = [kind |-> "dropped", of |-> c]]
    /\ UNCHANGED <<id, ch, nextID, closed, failing, welcome, readerVars, cpc, socket, netVars>>

\* time.AfterFunc starts expire in a goroutine of its own...
TimerFires(c) ==
    /\ timer[c] = "armed"
    /\ timer' = [timer EXCEPT ![c] = "fired"]
    /\ UNCHANGED <<callVars, ch, mapVars, closed, failing, welcome, readerVars, cpc, socket,
                   netVars>>

\* A mutant: the timer answers whether or not the entry is still there.
ExpireBlind(c) ==
    /\ timer[c] = "fired"
    /\ pending' = Without(id[c])
    /\ timer' = [timer EXCEPT ![c] = "expiring"]
    /\ UNCHANGED <<callVars, ch, nextID, closed, failing, welcome, readerVars, cpc, socket,
                   netVars>>

\* ... which takes the entry if it is still there, ...
Expire(c) ==
    /\ timer[c] = "fired"
    /\ pending' = IF Holds(id[c], c) THEN Without(id[c]) ELSE pending
    /\ timer' = [timer EXCEPT ![c] = IF Holds(id[c], c) THEN "expiring" ELSE "over"]
    /\ UNCHANGED <<callVars, ch, nextID, closed, failing, welcome, readerVars, cpc, socket,
                   netVars>>

\* ... and answers it after the lock is released.
ExpireDelivers(c) ==
    /\ timer[c] = "expiring"
    /\ Deliver(c, [kind |-> "timeout", of |-> c])
    /\ timer' = [timer EXCEPT ![c] = "over"]
    /\ UNCHANGED <<callVars, mapVars, closed, failing, welcome, readerVars, cpc, socket,
                   netVars>>

-----------------------------------------------------------------------------
(* The reader: read, onText, onWelcome, onResult.                          *)

\* Recv hands over the next frame, in order; one already buffered may still
\* come out of a socket that has just died.  A frame is handled in the step
\* that receives it: whatever happens in between could as well happen before.
Recv(t) ==
    /\ rpc = "recv"
    /\ inbox # <<>>
    /\ Head(inbox).t \in t
    /\ inbox' = Tail(inbox)

\* Recv with an error, then fail: from here on nothing is received.
RecvFails ==
    /\ rpc = "recv"
    /\ socket \in {"dead", "closed"}
    /\ Fail(Reader)
    /\ rpc' = "drain"
    /\ UNCHANGED <<callVars, ch, timer, nextID, taken, reply, cpc, socket, netVars>>

ReaderFailOne == \E c \in Call : rpc = "drain" /\ FailOne(Reader, c)

\* close(c.readerDone)
ReaderExit ==
    /\ rpc = "drain"
    /\ failing[Reader] = {}
    /\ rpc' = "done"
    /\ UNCHANGED <<callVars, ch, timer, mapVars, closed, failing, welcome, taken, reply, cpc,
                   socket, netVars>>

\* DecodeDown drops a junk frame without a trace.
OnJunk ==
    /\ Recv({"junk"})
    /\ UNCHANGED <<callVars, ch, timer, mapVars, closed, failing, welcome, readerVars, cpc,
                   socket, sent, answered>>

OnPush ==
    /\ Recv({"push"})
    /\ rpc' = "check"
    /\ UNCHANGED <<callVars, ch, timer, mapVars, closed, failing, welcome, taken, reply, cpc,
                   socket, sent, answered>>

OnWelcome ==
    /\ Recv(WelcomeFrame)
    /\ welcome' = Decide(CASE Head(inbox).t = "welcome" -> "ok"
                           [] Head(inbox).t = "welcomeRefused" -> "refused"
                           [] Head(inbox).t = "welcomeOtherVersion" -> "otherVersion")
    /\ rpc' = "check"
    /\ UNCHANGED <<callVars, ch, timer, mapVars, closed, failing, taken, reply, cpc, socket,
                   sent, answered>>

\* A mutant: a reply nobody waits for is settled like the others.
OnResultUnchecked ==
    /\ Recv({"result"})
    /\ LET f == Head(inbox) IN
         /\ taken' = IF \E c \in Call : Holds(f.id, c)
                       THEN CHOOSE c \in Call : Holds(f.id, c) ELSE NoCall
         /\ reply' = [kind |-> "reply", of |-> f.of]
         /\ pending' = Without(f.id)
    /\ rpc' = "settle"
    /\ UNCHANGED <<callVars, ch, timer, nextID, closed, failing, welcome, cpc, socket, sent,
                   answered>>

\* onResult takes the entry under the lock; a reply nobody waits for is only
\* passed on.
OnResult ==
    /\ Recv({"result"})
    /\ LET f == Head(inbox) IN
         \/ \E c \in Call :
              /\ Holds(f.id, c)
              /\ taken' = c
              /\ reply' = [kind |-> IF f.ok THEN "reply" ELSE "refused", of |-> f.of]
              /\ pending' = Without(f.id)
              /\ rpc' = "settle"
         \/ /\ \A c \in Call : ~Holds(f.id, c)
            /\ rpc' = "check"
            /\ UNCHANGED <<taken, reply, pending>>
    /\ UNCHANGED <<callVars, ch, timer, nextID, closed, failing, welcome, cpc, socket, sent,
                   answered>>

\* p.timer.Stop(); p.ch <- result
OnResultDelivers ==
    /\ rpc = "settle"
    /\ Deliver(taken, reply)
    /\ timer' = [timer EXCEPT ![taken] = Stopped(@)]
    /\ taken' = NoCall
    /\ reply' = Empty
    /\ rpc' = "check"
    /\ UNCHANGED <<callVars, mapVars, closed, failing, welcome, cpc, socket, netVars>>

\* The tail of onText: closed is read under the lock, OnMessage is called
\* after the lock is released.
CheckClosed ==
    /\ rpc = "check"
    /\ rpc' = IF closed THEN "recv" ELSE "deliver"
    /\ UNCHANGED <<callVars, ch, timer, mapVars, closed, failing, welcome, taken, reply, cpc,
                   socket, netVars>>

CallOnMessage ==
    /\ rpc = "deliver"
    /\ rpc' = "recv"
    /\ UNCHANGED <<callVars, ch, timer, mapVars, closed, failing, welcome, taken, reply, cpc,
                   socket, netVars>>

-----------------------------------------------------------------------------
(* Close and Probe.                                                        *)

\* Close: fail first...
CloseFail(k) ==
    /\ cpc[k] = "idle"
    /\ rpc # "new"
    /\ Fail(k)
    /\ cpc' = [cpc EXCEPT ![k] = "drain"]
    /\ UNCHANGED <<callVars, ch, timer, nextID, readerVars, socket, netVars>>

\* Probe: a connection already closed reports its error and stops there.
ProbeStart(k) ==
    /\ cpc[k] = "idle"
    /\ rpc # "new"
    /\ ~closed
    /\ cpc' = [cpc EXCEPT ![k] = "ping"]
    /\ UNCHANGED <<callVars, ch, timer, mapVars, closed, failing, welcome, readerVars, socket,
                   netVars>>

ProbePong(k) ==
    /\ cpc[k] = "ping"
    /\ socket = "open"
    /\ cpc' = [cpc EXCEPT ![k] = "idle"]
    /\ UNCHANGED <<callVars, ch, timer, mapVars, closed, failing, welcome, readerVars, socket,
                   netVars>>

\* The ping's deadline or the dead socket's error, then Close.
ProbeFails(k) ==
    /\ cpc[k] = "ping"
    /\ socket # "open"
    /\ Fail(k)
    /\ cpc' = [cpc EXCEPT ![k] = "drain"]
    /\ UNCHANGED <<callVars, ch, timer, nextID, readerVars, socket, netVars>>

CloseFailOne(k) == \E c \in Call : cpc[k] = "drain" /\ FailOne(k, c)

CloseDrained(k) ==
    /\ cpc[k] = "drain"
    /\ failing[k] = {}
    /\ cpc' = [cpc EXCEPT ![k] = "close"]
    /\ UNCHANGED <<callVars, ch, timer, mapVars, closed, failing, welcome, readerVars, socket,
                   netVars>>

\* A mutant: Close fails the calls and leaves the socket open.
CloseSocketLater(k) ==
    /\ cpc[k] = "close"
    /\ cpc' = [cpc EXCEPT ![k] = "join"]
    /\ UNCHANGED <<callVars, ch, timer, mapVars, closed, failing, welcome, readerVars, socket,
                   netVars>>

CloseSocket(k) ==
    /\ cpc[k] = "close"
    /\ socket' = "closed"
    /\ cpc' = [cpc EXCEPT ![k] = "join"]
    /\ UNCHANGED <<callVars, ch, timer, mapVars, closed, failing, welcome, readerVars, netVars>>

\* A mutant: Close does not wait for the reader.
ReaderGoneUnasked == TRUE

\* <-c.readerDone
ReaderGone == rpc = "done"

CloseReturns(k) ==
    /\ cpc[k] = "join"
    /\ ReaderGone
    /\ cpc' = [cpc EXCEPT ![k] = "returned"]
    /\ UNCHANGED <<callVars, ch, timer, mapVars, closed, failing, welcome, readerVars, socket,
                   netVars>>

-----------------------------------------------------------------------------
(* The network, the server and WSSocket.keepAlive.                         *)

\* A mutant: no keep-alive.
KeepAliveOff == FALSE /\ UNCHANGED vars

\* keepAlive: a ping that gets no pong within the interval closes the socket.
KeepAlive ==
    /\ socket = "stalled"
    /\ socket' = "closed"
    /\ UNCHANGED <<callVars, ch, timer, mapVars, closed, failing, welcome, readerVars, cpc,
                   netVars>>

PeerFails ==
    /\ socket = "open"
    /\ socket' \in {"stalled", "dead"}
    /\ UNCHANGED <<callVars, ch, timer, mapVars, closed, failing, welcome, readerVars, cpc,
                   netVars>>

ServerSends(f) ==
    /\ socket = "open"
    /\ rpc # "new"
    /\ Len(inbox) < MaxInbox
    /\ inbox' = Append(inbox, f)

ServerPushes(t) ==
    /\ ServerSends([t |-> t, id |-> 0, of |-> NoCall, ok |-> FALSE])
    /\ UNCHANGED <<callVars, ch, timer, mapVars, closed, failing, welcome, readerVars, cpc,
                   socket, sent, answered>>

\* The server answers a command it got, at any time and possibly twice.
ServerAnswers(c, ok) ==
    /\ c \in sent
    /\ ServerSends([t |-> "result", id |-> id[c], of |-> c, ok |-> ok])
    /\ answered' = answered \cup {c}
    /\ UNCHANGED <<callVars, ch, timer, mapVars, closed, failing, welcome, readerVars, cpc,
                   socket, sent>>

-----------------------------------------------------------------------------

InvokeStep(c) ==
    \/ InvokeClosed(c)
    \/ Invoke(c)
    \/ InvokeSend(c)
    \/ InvokeResult(c)
    \/ InvokeCancelled(c)
    \/ Forget(c)

TimerStep(c) ==
    \/ TimerFires(c)
    \/ Expire(c)
    \/ ExpireDelivers(c)

ReaderStep ==
    \/ OnJunk \/ OnPush \/ OnWelcome \/ OnResult
    \/ OnResultDelivers
    \/ CheckClosed
    \/ CallOnMessage
    \/ RecvFails
    \/ ReaderFailOne
    \/ ReaderExit

CloserStep(k) ==
    \/ ProbePong(k)
    \/ ProbeFails(k)
    \/ CloseFailOne(k)
    \/ CloseDrained(k)
    \/ CloseSocket(k)
    \/ CloseReturns(k)

Next ==
    \/ Handshake \/ HandshakeFails
    \/ \E c \in Call : InvokeStep(c) \/ TimerStep(c)
    \/ ReaderStep
    \/ \E k \in Closer : CloseFail(k) \/ ProbeStart(k) \/ CloserStep(k)
    \/ KeepAlive \/ PeerFails
    \/ \E t \in Pushed : ServerPushes(t)
    \/ \E c \in Call, ok \in Verdict : ServerAnswers(c, ok)

SafeSpec == Init /\ [][Next]_vars

\* The Go scheduler runs every runnable goroutine and every timer fires.  The
\* server, the network, the user and a caller's context promise nothing.
Fairness ==
    /\ WF_vars(Handshake \/ HandshakeFails)
    /\ \A c \in Call : /\ WF_vars(InvokeSend(c) \/ InvokeResult(c) \/ Forget(c))
                       /\ WF_vars(TimerStep(c))
    /\ WF_vars(ReaderStep)
    /\ \A k \in Closer : WF_vars(CloserStep(k))
    /\ WF_vars(KeepAlive)

Spec == SafeSpec /\ Fairness

-----------------------------------------------------------------------------
(* Safety.                                                                 *)

\* Who still owes call c an answer, or holds it: the map, the reader between
\* take and send, the expired timer between take and send, a thread in fail's
\* loop, or the channel nobody has received from.
Holders(c) ==
    {h \in {"map"}     : \E e \in pending : e[2] = c}
    \cup {h \in {"result"}  : taken = c}
    \cup {h \in {"timer"}   : timer[c] = "expiring"}
    \cup {h \in {"channel"} : ch[c] # Empty}
    \cup {a \in Closer \cup {Reader} : c \in failing[a]}

OneSettler(c) ==
    /\ \A g, h \in Holders(c) : g = h
    /\ pc[c] \in {"send", "wait", "forget"} => Holders(c) # {}
    /\ pc[c] = "idle" => Holders(c) = {}
    /\ pc[c] = "returned" /\ ret[c].kind # "dropped" => Holders(c) = {}
    /\ pc[c] = "returned" => "map" \notin Holders(c)

\* "Exactly one of onResult, expire and fail delivers to ch, because each
\* removes the entry from the map under the lock before sending; ch is
\* buffered so that send never blocks": a registered call that has not
\* returned has exactly one holder, and one that returned with a result has
\* none.
ExactlyOneSettler == \A c \in Call : OneSettler(c)

\* Every result a call returns was made for that call: a reply is matched by
\* its id only, and no two calls of a connection share one.
OwnResult == \A c \in Call : ret[c] # Empty => ret[c].of = c

\* No leaked waiter: once the connection is closed no call is in the map,
\* where only a timer, minutes away, would find it.
NothingPendingOnceClosed == closed => pending = {}

\* A goroutine in Welcome cannot outlive the connection: failing decides the
\* welcome, and a welcome the server decided is not taken back.
WelcomeDecidedOnceClosed == closed => welcome # "none"

\* A closed connection keeps nobody waiting, neither for an answer nor for the
\* welcome, from the step that closes it on.
NobodyWaitsOnceClosed == NothingPendingOnceClosed /\ WelcomeDecidedOnceClosed

\* When Close has returned the reader is gone: no OnMessage runs and none
\* will, so the owner may reuse what OnMessage writes to.  Nothing is pending
\* and no new call gets in.
CloseIsFinal ==
    \A k \in Closer : cpc[k] = "returned" =>
        /\ rpc = "done" /\ closed /\ pending = {}
        /\ failing[k] = {} /\ failing[Reader] = {} /\ taken = NoCall

\* The decision in welcome and a returned result are never revised.
NeverRevised ==
    [][ /\ welcome # "none" => welcome' = welcome
        /\ \A c \in Call : ret[c] # Empty => ret'[c] = ret[c] ]_vars

-----------------------------------------------------------------------------
(* The promise, and liveness.                                              *)

status == [c \in Call |-> CASE pc[c] = "idle" -> "idle"
                            [] pc[c] = "returned" -> "returned"
                            [] OTHER -> "open"]
ending == [c \in Call |-> ret[c].kind]

Promise == INSTANCE Calls WITH down <- closed

\* The code keeps the promise made in Calls, the fairness of it included:
\* "Every call is bounded", a goroutine that enters Invoke comes out, however
\* the server and the network behave.
KeepsPromise == Promise!Spec

\* Close returns: the reader it waits for is unblocked by the socket's close.
CloseReturnsEventually == \A k \in Closer : (cpc[k] = "drain") ~> (cpc[k] = "returned")
=============================================================================
