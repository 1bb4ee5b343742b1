---------------------------- MODULE FollowProofs ----------------------------
(***************************************************************************)
(* Theorems about Follow, for any set of workspaces, windows and commands  *)
(* and any bounds.                                                         *)
(*                                                                         *)
(* The inductive invariant IInv says what may be on the wires and where    *)
(* the commands stand (WireInv, CapInv), which pins the server has         *)
(* accepted (AcceptedInv), that the last push of each kind in flight, or   *)
(* what is folded when there is none, is the server's own picture          *)
(* (PictureInv), and, for a person who waits for each answer, where the    *)
(* pin of the current socket is on its way (PinInv).                       *)
(***************************************************************************)
EXTENDS Follow, SequenceTheorems, TLAPS

\* A dead socket has nothing in flight, and the loop dials only without one.
WireInv ==
    /\ up => sock # 0 /\ ~dialling
    /\ ~dialling => sock # 0
    /\ ~up => down = <<>> /\ upward = <<>>
    /\ \A s \in Socket : s > sock => ~welcomed[s]
    /\ \A c \in Call : pc[c] # "idle" => on[c] \in 1..sock
    /\ \A i \in 1..Len(upward) : pc[upward[i]] # "idle"
    /\ \A i \in 1..Len(down) : down[i].t = "result" => pc[down[i].call] # "idle"

\* A welcomed Conn knows whether its server can follow; a command on its way
\* was checked against that, so a server it reaches is able.
CapInv ==
    /\ sock # 0 /\ welcomed[sock] => capable[sock] = able
    /\ \A i \in 1..Len(down) : down[i].t = "welcome" => down[i].able = able
    /\ \A c \in Call : pc[c] = "invoke" => welcomed[on[c]] /\ capable[on[c]]
    /\ upward # <<>> => able /\ welcomed[sock]

\* What was answered ok was accepted.
AcceptedInv ==
    /\ \A i \in 1..Len(down) : down[i].t = "result" /\ down[i].ok => ask[down[i].call] \in accepted
    /\ \A c \in Call : pc[c] = "acked" => ask[c] \in accepted

\* m is in s, and the last of its kind.
Latest(s, m) == \E i \in 1..Len(s) : s[i] = m /\ \A j \in 1..Len(s) : j > i => s[j].t # m.t

\* No message of kind t in s.
NoneOf(s, t) == \A i \in 1..Len(s) : s[i].t # t

\* The last push of a kind tells the server's picture, in flight or folded.
PictureInv ==
    up => LET l == Layout(viewPin, exists, shows)
              c == Clients(viewPin, exists, shows)
          IN  /\ Latest(down, l) \/ (NoneOf(down, "layout") /\ layout = l.active)
              /\ Latest(down, c) \/ (NoneOf(down, "clients") /\ clients = c.views)

\* What the session holds, this socket has told.
ToldInv ==
    /\ layout # None => "layout" \in told
    /\ clients # NoCensus => "clients" \in told

\* The replies in flight; the commands of the current socket that are in flight,
\* sent and not answered, answered ok and about to set the pin.
Results == {i \in 1..Len(down) : down[i].t = "result"}
Current(c)  == Flying(c) /\ on[c] = sock
OnItsWay(c) == pc[c] = "sent" /\ on[c] = sock
Acked(c)    == pc[c] = "acked" /\ on[c] = sock

\* One command at a time: it is on the way up, or its answer is on the way
\* down, or it is about to set the pin; otherwise the Conn has the server's pin.
PinInv ==
    ~hasty =>
        /\ \A c, d \in Call : Current(c) /\ Current(d) => c = d
        /\ \A i \in 1..Len(upward) : OnItsWay(upward[i])
        /\ \A i \in Results : OnItsWay(down[i].call)
        /\ Len(upward) <= 1 /\ (upward # <<>> => Results = {})
        /\ \A i, j \in Results : i = j
        /\ \A i \in Results : down[i].ok => viewPin = ask[down[i].call]
        /\ \A c \in Call : Acked(c) => viewPin = ask[c]
        /\ \/ sock = 0
           \/ \E i \in Results : down[i].ok
           \/ \E c \in Call : Acked(c)
           \/ viewPin = pinned[sock]
        /\ ~up => \A c \in Call : ~Acked(c) /\ ~OnItsWay(c)
        /\ dialling /\ sock # 0 => workspace = viewPin

\* Before the welcome no command can have moved the view the Init asked for.
UnwelcomedInv == sock # 0 /\ ~welcomed[sock] => workspace = viewPin

\* The inductive invariant.
IInv == /\ TypeOK /\ WireInv /\ CapInv /\ AcceptedInv /\ NeverMovesDesk /\ PinsWereAccepted
        /\ PictureInv /\ ToldInv /\ PinInv /\ UnwelcomedInv

-----------------------------------------------------------------------------

\* What is used of the sequences.
LEMMA Taken ==
    ASSUME NEW S, NEW s \in Seq(S), s # <<>>
    PROVE  /\ Tail(s) \in Seq(S) /\ Head(s) = s[1] /\ Head(s) \in S /\ 1 \in 1..Len(s)
           /\ Len(s) \in Nat /\ Len(s) = Len(Tail(s)) + 1 /\ Len(Tail(s)) \in Nat
           /\ \A i \in 1..Len(Tail(s)) : i + 1 \in 1..Len(s) /\ Tail(s)[i] = s[i + 1]
<1>1. Len(s) \in Nat /\ Len(s) # 0
  BY EmptySeq, LenProperties
<1>. QED BY <1>1, HeadTailProperties, ElementOfSeq

\* A workspace of the desk is what a connection is shown.
LEMMA ViewIsThere ==
    ASSUME NEW p, NEW ex \in SUBSET Workspace, ex # {}, NEW sh \in [Window -> ex \cup {None}]
    PROVE  View(p, ex, sh) \in ex
<1>1. CASE p \in ex
  BY <1>1 DEF View
<1>2. CASE p \notin ex /\ Open(sh) # {}
  <2>1. \E w \in Window : sh[w] # None
    BY <1>2 DEF Open
  <2>2. sh[CHOOSE w \in Window : sh[w] # None] \in ex
    BY <2>1
  <2>. QED BY <1>2, <2>2 DEF View
<1>3. CASE p \notin ex /\ Open(sh) = {}
  BY <1>3 DEF View
<1>. QED BY <1>1, <1>2, <1>3

\* The two pushes are messages.
LEMMA PushTypes ==
    ASSUME NEW p, NEW ex \in SUBSET Workspace, ex # {}, NEW sh \in [Window -> ex \cup {None}]
    PROVE  /\ Layout(p, ex, sh) \in Message /\ Layout(p, ex, sh).t = "layout"
           /\ Clients(p, ex, sh) \in Message /\ Clients(p, ex, sh).t = "clients"
<1>1. View(p, ex, sh) \in Workspace
  BY ViewIsThere
<1>2. [w \in Window \cup {Phone} |-> IF w = Phone THEN View(p, ex, sh) ELSE sh[w]] \in Census
  BY <1>1 DEF Census
<1>. QED BY <1>1, <1>2 DEF Layout, Clients, Message

\* A sequence of messages with the two pushes behind it.
LEMMA Pushed ==
    ASSUME NEW s \in Seq(Message), NEW p, NEW ex \in SUBSET Workspace, ex # {},
           NEW sh \in [Window -> ex \cup {None}], NEW push \in Pushes(p, ex, sh)
    PROVE  /\ s \o push \in Seq(Message) /\ Len(s) \in Nat /\ Len(s \o push) = Len(s) + 2
           /\ Latest(s \o push, Layout(p, ex, sh)) /\ Latest(s \o push, Clients(p, ex, sh))
           /\ \A i \in 1..Len(s) : i \in 1..Len(s \o push) /\ (s \o push)[i] = s[i]
           /\ \A i \in 1..Len(s \o push) : i \in 1..Len(s) \/ (s \o push)[i].t \in {"layout", "clients"}
<1> DEFINE l == Layout(p, ex, sh)
           c == Clients(p, ex, sh)
           z == s \o push
           n == Len(s)
<1>1. l \in Message /\ l.t = "layout" /\ c \in Message /\ c.t = "clients"
  BY PushTypes
<1>2. push = <<l, c>> \/ push = <<c, l>>
  BY DEF Pushes
<1> HIDE DEF l, c
<1>3. push \in Seq(Message) /\ Len(push) = 2
  <2>1. <<l, c>> \in Seq(Message) /\ Len(<<l, c>>) = 2
    BY <1>1
  <2>2. <<c, l>> \in Seq(Message) /\ Len(<<c, l>>) = 2
    BY <1>1
  <2>. QED BY <1>2, <2>1, <2>2
<1>4. z \in Seq(Message) /\ n \in Nat /\ Len(z) = n + 2 /\ \A i \in 1..n : z[i] = s[i]
  <2>1. n \in Nat
    BY LenProperties
  <2>0. /\ s \o push \in Seq(Message)
        /\ Len(s \o push) = Len(s) + Len(push)
        /\ \A i \in 1 .. Len(s) + Len(push) : (s \o push)[i] = IF i <= Len(s) THEN s[i] ELSE push[i - Len(s)]
    BY <1>3, ConcatProperties
  <2>2. z \in Seq(Message) /\ Len(z) = n + 2
    BY <1>3, <2>0
  <2>3. \A i \in 1..n : i \in 1..Len(s) + Len(push) /\ i <= Len(s)
    BY <1>3, <2>1
  <2>4. \A i \in 1..n : z[i] = s[i]
    BY <2>0, <2>3
  <2>. QED BY <2>1, <2>2, <2>4
<1>5. z[n + 1] = push[1] /\ z[n + 2] = push[2]
  BY <1>3, <1>4
<1>6. n + 1 \in 1..Len(z) /\ n + 2 \in 1..Len(z)
      /\ (\A i \in 1..Len(z) : i \in 1..n \/ i = n + 1 \/ i = n + 2)
      /\ (\A j \in 1..Len(z) : j > n + 1 => j = n + 2)
      /\ (\A j \in 1..Len(z) : ~(j > n + 2))
  BY <1>4
<1>7. z[n + 1].t # z[n + 2].t /\ {z[n + 1], z[n + 2]} = {l, c}
  BY <1>1, <1>2, <1>5
<1>8. Latest(z, z[n + 1]) /\ Latest(z, z[n + 2])
  BY <1>6, <1>7 DEF Latest
<1>9. Latest(z, l) /\ Latest(z, c)
  BY <1>7, <1>8
<1>10. \A i \in 1..Len(z) : i \in 1..n \/ z[i].t \in {"layout", "clients"}
  BY <1>1, <1>6, <1>7
<1>11. \A i \in 1..n : i \in 1..Len(z)
  BY <1>4
<1>. QED BY <1>4, <1>9, <1>10, <1>11 DEF l, c

\* What taking the first message leaves.
LEMMA LatestTaken ==
    ASSUME NEW s \in Seq(Message), s # <<>>
    PROVE  /\ \A m : Latest(s, m) => (Latest(Tail(s), m) \/ (Head(s) = m /\ NoneOf(Tail(s), m.t)))
           /\ \A t : NoneOf(s, t) => NoneOf(Tail(s), t)
<1> DEFINE z == Tail(s)
<1>1. /\ Head(s) = s[1] /\ Len(s) \in Nat /\ Len(s) = Len(z) + 1 /\ Len(z) \in Nat
      /\ \A i \in 1..Len(z) : i + 1 \in 1..Len(s) /\ z[i] = s[i + 1]
  BY Taken
<1> HIDE DEF z
<1>2. ASSUME NEW m, Latest(s, m) PROVE Latest(z, m) \/ (Head(s) = m /\ NoneOf(z, m.t))
  <2>1. PICK k \in 1..Len(s) : s[k] = m /\ \A j \in 1..Len(s) : j > k => s[j].t # m.t
    BY <1>2 DEF Latest
  <2>2. CASE k = 1
    <3>1. \A i \in 1..Len(z) : i + 1 > k
      BY <2>2, <1>1
    <3>. QED BY <1>1, <2>1, <2>2, <3>1 DEF NoneOf
  <2>3. CASE k # 1
    <3>1. k - 1 \in 1..Len(z) /\ z[k - 1] = m
      BY <2>1, <2>3, <1>1
    <3>2. \A j \in 1..Len(z) : j > k - 1 => j + 1 > k
      BY <1>1
    <3>3. \A j \in 1..Len(z) : j > k - 1 => z[j].t # m.t
      BY <1>1, <2>1, <3>2
    <3>. QED BY <3>1, <3>3 DEF Latest
  <2>. QED BY <2>2, <2>3
<1>3. ASSUME NEW t, NoneOf(s, t) PROVE NoneOf(z, t)
  BY <1>1, <1>3 DEF NoneOf
<1>. QED BY <1>2, <1>3 DEF z

\* What a change at the desk sends.
LEMMA SendsPushes ==
    ASSUME TypeOK, NEW p, NEW ex \in SUBSET Workspace, ex # {}, NEW sh \in [Window -> ex \cup {None}],
           Sends(<<>>, p, ex, sh)
    PROVE  /\ down' \in Seq(Message)
           /\ Latest(down', Layout(p, ex, sh)) /\ Latest(down', Clients(p, ex, sh))
           /\ \A i \in 1..Len(down') :
                (i \in 1..Len(down) /\ down'[i] = down[i]) \/ down'[i].t \in {"layout", "clients"}
           /\ \A i \in 1..Len(down) : i \in 1..Len(down') /\ down'[i] = down[i]
<1>1. down \in Seq(Message)
  BY DEF TypeOK
<1>2. PICK push \in Pushes(p, ex, sh) : down' = down \o <<>> \o push
  BY DEF Sends
<1>3. down' = down \o push
  <2>1. down \o <<>> = down
    BY <1>1, ConcatEmptySeq
  <2>. QED BY <1>2, <2>1
<1>4. /\ down \o push \in Seq(Message) /\ Len(down) \in Nat /\ Len(down \o push) = Len(down) + 2
      /\ Latest(down \o push, Layout(p, ex, sh)) /\ Latest(down \o push, Clients(p, ex, sh))
      /\ \A i \in 1..Len(down) : i \in 1..Len(down \o push) /\ (down \o push)[i] = down[i]
      /\ \A i \in 1..Len(down \o push) : i \in 1..Len(down) \/ (down \o push)[i].t \in {"layout", "clients"}
  BY <1>1, Pushed
<1>. QED BY <1>3, <1>4

\* What a command that was executed sends: its result is in front of the pushes.
LEMMA SendsResult ==
    ASSUME TypeOK, NEW p, NEW ex \in SUBSET Workspace, ex # {}, NEW sh \in [Window -> ex \cup {None}],
           NEW r \in Message, Sends(<<r>>, p, ex, sh)
    PROVE  /\ down' \in Seq(Message) /\ Len(down) \in Nat
           /\ Latest(down', Layout(p, ex, sh)) /\ Latest(down', Clients(p, ex, sh))
           /\ \A i \in 1..Len(down') :
                \/ i \in 1..Len(down) /\ down'[i] = down[i]
                \/ i = Len(down) + 1
                \/ down'[i].t \in {"layout", "clients"}
           /\ \A i \in 1..Len(down) : i \in 1..Len(down') /\ down'[i] = down[i]
           /\ Len(down) + 1 \in 1..Len(down') /\ down'[Len(down) + 1] = r
<1> DEFINE z == Append(down, r)
<1>1. down \in Seq(Message) /\ Len(down) \in Nat
  BY LenProperties DEF TypeOK
<1>2. PICK push \in Pushes(p, ex, sh) : down' = down \o <<r>> \o push
  BY DEF Sends
<1>3. z \in Seq(Message) /\ down' = z \o push
  BY <1>1, <1>2
<1>4. Len(z) = Len(down) + 1 /\ z[Len(down) + 1] = r /\ \A i \in 1..Len(down) : z[i] = down[i]
  BY <1>1
<1> HIDE DEF z
<1>5. /\ z \o push \in Seq(Message) /\ Len(z) \in Nat /\ Len(z \o push) = Len(z) + 2
      /\ Latest(z \o push, Layout(p, ex, sh)) /\ Latest(z \o push, Clients(p, ex, sh))
      /\ \A i \in 1..Len(z) : i \in 1..Len(z \o push) /\ (z \o push)[i] = z[i]
      /\ \A i \in 1..Len(z \o push) : i \in 1..Len(z) \/ (z \o push)[i].t \in {"layout", "clients"}
  BY <1>3, Pushed
<1>6. /\ \A i \in 1..Len(z) : i \in 1..Len(down) \/ i = Len(down) + 1
      /\ \A i \in 1..Len(down) : i \in 1..Len(z)
      /\ Len(down) + 1 \in 1..Len(z)
  BY <1>1, <1>4
<1>. QED BY <1>1, <1>3, <1>4, <1>5, <1>6

\* What a socket starts with.
LEMMA StartsWith ==
    ASSUME TypeOK, NEW a \in BOOLEAN, Attach(a)
    PROVE  /\ exists' \in SUBSET Workspace /\ exists' # {} /\ shows' \in [Window -> exists' \cup {None}]
           /\ down' \in Seq(Message)
           /\ Latest(down', Layout(viewPin', exists', shows')) /\ Latest(down', Clients(viewPin', exists', shows'))
           /\ \A i \in 1..Len(down') :
                down'[i] = [t |-> "welcome", able |-> a] \/ down'[i].t \in {"layout", "clients"}
<1> DEFINE w == <<[t |-> "welcome", able |-> a]>>
<1>1. exists' \in SUBSET Workspace /\ exists' # {} /\ shows' \in [Window -> exists' \cup {None}]
  <2>1. exists' \in (SUBSET Workspace) \ {{}}
    BY DEF Attach
  <2>2. shows' \in [Window -> exists' \cup {None}]
    BY DEF Attach
  <2>. QED BY <2>1, <2>2
<1>2. w \in Seq(Message) /\ Len(w) = 1 /\ w[1] = [t |-> "welcome", able |-> a]
  <2>1. [t |-> "welcome", able |-> a] \in Message
    BY DEF Message
  <2>. QED BY <2>1
<1>3. PICK push \in Pushes(viewPin', exists', shows') : down' = w \o push
  BY DEF Attach
<1> HIDE DEF w
<1>4. /\ w \o push \in Seq(Message) /\ Len(w) \in Nat /\ Len(w \o push) = Len(w) + 2
      /\ Latest(w \o push, Layout(viewPin', exists', shows')) /\ Latest(w \o push, Clients(viewPin', exists', shows'))
      /\ \A i \in 1..Len(w) : i \in 1..Len(w \o push) /\ (w \o push)[i] = w[i]
      /\ \A i \in 1..Len(w \o push) : i \in 1..Len(w) \/ (w \o push)[i].t \in {"layout", "clients"}
  BY <1>1, <1>2, <1>3, Pushed
<1>5. \A i \in 1..Len(w) : i = 1
  BY <1>2
<1>. QED BY <1>1, <1>2, <1>3, <1>4, <1>5

\* What the reader takes off the wire.
LEMMA Received1 ==
    ASSUME TypeOK, NEW t, Received(t)
    PROVE  /\ down # <<>> /\ down' = Tail(down) /\ down' \in Seq(Message)
           /\ Head(down) = down[1] /\ 1 \in 1..Len(down) /\ Head(down).t = t /\ Head(down) \in Message
           /\ \A i \in 1..Len(down') : i + 1 \in 1..Len(down) /\ down'[i] = down[i + 1]
  BY Taken DEF Received, TypeOK

\* The parts of a message.
LEMMA MessageFields ==
    ASSUME NEW m \in Message
    PROVE  /\ m.t = "welcome" => m.able \in BOOLEAN
           /\ m.t = "layout" => m.active \in Workspace
           /\ m.t = "clients" => m.views \in Census
           /\ m.t = "result" => m.call \in Call /\ m.ok \in BOOLEAN
  BY DEF Message

\* What the server executes.
LEMMA Executes ==
    ASSUME TypeOK, NEW ok \in BOOLEAN, ServerExecutes(ok)
    PROVE  LET c == Head(upward) IN
           /\ c \in Call /\ c = upward[1] /\ 1 \in 1..Len(upward) /\ upward' = Tail(upward)
           /\ [t |-> "result", call |-> c, ok |-> ok] \in Message
           /\ ask[c] \in Pin /\ viewPin' \in Pin
           /\ Sends(<<[t |-> "result", call |-> c, ok |-> ok]>>, viewPin', exists, shows)
           /\ upward' \in Seq(Call) /\ Len(upward) \in Nat /\ Len(upward) = Len(upward') + 1 /\ Len(upward') \in Nat
           /\ \A i \in 1..Len(upward') : i + 1 \in 1..Len(upward) /\ upward'[i] = upward[i + 1]
<1>1. upward \in Seq(Call) /\ upward # <<>> /\ upward' = Tail(upward)
  BY DEF ServerExecutes, TypeOK
<1>2. Head(upward) \in Call
  BY <1>1, Taken
<1>3. ask[Head(upward)] \in Pin
  BY <1>2 DEF TypeOK
<1>4. viewPin' = IF ok THEN ask[Head(upward)] ELSE viewPin
  BY DEF ServerExecutes
<1>5. viewPin' \in Pin
  BY <1>3, <1>4 DEF TypeOK
<1>6. [t |-> "result", call |-> Head(upward), ok |-> ok] \in Message
  BY <1>2 DEF Message
<1>7. Sends(<<[t |-> "result", call |-> Head(upward), ok |-> ok]>>, viewPin', exists, shows)
  BY DEF ServerExecutes
<1>. QED BY <1>1, <1>2, <1>3, <1>5, <1>6, <1>7, Taken

\* Its result is in front of the pushes.
LEMMA Answers ==
    ASSUME TypeOK, NEW ok \in BOOLEAN, ServerExecutes(ok)
    PROVE  /\ down' \in Seq(Message) /\ Len(down) \in Nat
           /\ Latest(down', Layout(viewPin', exists, shows)) /\ Latest(down', Clients(viewPin', exists, shows))
           /\ \A i \in 1..Len(down') :
                \/ i \in 1..Len(down) /\ down'[i] = down[i]
                \/ i = Len(down) + 1
                \/ down'[i].t \in {"layout", "clients"}
           /\ \A i \in 1..Len(down) : i \in 1..Len(down') /\ down'[i] = down[i]
           /\ Len(down) + 1 \in 1..Len(down')
           /\ down'[Len(down) + 1] = [t |-> "result", call |-> Head(upward), ok |-> ok]
<1> DEFINE r == [t |-> "result", call |-> Head(upward), ok |-> ok]
<1>1. r \in Message /\ Sends(<<r>>, viewPin', exists, shows)
  BY Executes
<1>2. exists \in SUBSET Workspace /\ exists # {} /\ shows \in [Window -> exists \cup {None}]
  BY DEF TypeOK
<1> HIDE DEF r
<1>3. /\ down' \in Seq(Message) /\ Len(down) \in Nat
      /\ Latest(down', Layout(viewPin', exists, shows)) /\ Latest(down', Clients(viewPin', exists, shows))
      /\ \A i \in 1..Len(down') :
           \/ i \in 1..Len(down) /\ down'[i] = down[i]
           \/ i = Len(down) + 1
           \/ down'[i].t \in {"layout", "clients"}
      /\ \A i \in 1..Len(down) : i \in 1..Len(down') /\ down'[i] = down[i]
      /\ Len(down) + 1 \in 1..Len(down') /\ down'[Len(down) + 1] = r
  BY <1>1, <1>2, SendsResult
<1>. QED BY <1>3 DEF r

-----------------------------------------------------------------------------

\* Every step keeps the types.
LEMMA TypeStep ==
    ASSUME TypeOK, WireInv, [Next]_vars
    PROVE  TypeOK'
<1> USE NamesAssumption, SocketAssumption DEF TypeOK, Pin, Socket, serverVars, wireVars, connVars, loopVars, sessVars, callVars, histVars, vars
<1>1. ASSUME NEW w \in Window, NEW ws \in Workspace \cup {None}, WindowMoves(w, ws) PROVE TypeOK'
  <2>1. /\ exists' \in SUBSET Workspace /\ exists' # {} /\ shows' \in [Window -> exists' \cup {None}]
        /\ UNCHANGED exists
    BY <1>1 DEF WindowMoves
  <2>2. down' \in Seq(Message)
    BY <1>1, <2>1, SendsPushes DEF WindowMoves
  <2>. QED BY <1>1, <2>1, <2>2 DEF WindowMoves
<1>2. ASSUME NEW ws \in Workspace, WorkspaceCloses(ws) PROVE TypeOK'
  <2>1. exists' = exists \ {ws} /\ exists' \in SUBSET Workspace /\ exists' # {}
    BY <1>2 DEF WorkspaceCloses
  <2>2. (CHOOSE x \in exists' : TRUE) \in exists'
    BY <2>1
  <2>3. shows' \in [Window -> exists' \cup {None}]
    BY <1>2, <2>1, <2>2 DEF WorkspaceCloses
  <2>4. down' \in Seq(Message)
    BY <1>2, <2>1, <2>3, SendsPushes DEF WorkspaceCloses
  <2>. QED BY <1>2, <2>1, <2>3, <2>4 DEF WorkspaceCloses
<1>3. ASSUME NEW ok \in BOOLEAN, ServerExecutes(ok) PROVE TypeOK'
  <2> DEFINE c == Head(upward)
  <2>1. c \in Call /\ ask[c] \in Pin /\ viewPin' \in Pin /\ upward' \in Seq(Call)
    BY <1>3, Executes
  <2>2. down' \in Seq(Message)
    BY <1>3, Executes, SendsResult
  <2>3. accepted' \in SUBSET Pin
    BY <1>3, <2>1 DEF ServerExecutes
  <2>4. deskMoved' \in BOOLEAN
    BY <1>3 DEF ServerExecutes
  <2>. QED BY <1>3, <2>1, <2>2, <2>3, <2>4 DEF ServerExecutes
<1>4. ASSUME NEW a \in BOOLEAN, Attach(a) PROVE TypeOK'
  <2>1. sock' \in 0..MaxSocket /\ sock' \in Socket
    BY <1>4 DEF Attach
  <2>2. viewPin' \in Pin /\ pinned' \in [Socket -> Pin]
    BY <1>4, <2>1 DEF Attach, InitWorkspace
  <2>3. upward' \in Seq(Call)
    BY <1>4 DEF Attach
  <2>4. exists' \in SUBSET Workspace /\ exists' # {} /\ shows' \in [Window -> exists' \cup {None}] /\ down' \in Seq(Message)
    BY <1>4, StartsWith
  <2>5. layout' \in Workspace \cup {None} /\ clients' \in Census \cup {<<>>}
    BY <1>4 DEF Attach, ResetForNewSocket, NoCensus
  <2>. QED BY <1>4, <2>1, <2>2, <2>3, <2>4, <2>5 DEF Attach
<1>5. CASE SocketDies
  <2>1. down' \in Seq(Message) /\ upward' \in Seq(Call)
    BY <1>5 DEF SocketDies
  <2>2. exists' \in SUBSET Workspace /\ exists' # {} /\ shows' \in [Window -> exists' \cup {None}]
    BY <1>5 DEF SocketDies
  <2>3. pc' \in [Call -> {"idle", "check", "invoke", "sent", "acked", "returned"}]
    BY <1>5 DEF SocketDies
  <2>4. hasty' \in BOOLEAN
    BY <1>5 DEF SocketDies
  <2>. QED BY <1>5, <2>1, <2>2, <2>3, <2>4 DEF SocketDies
<1>6. CASE LoopCarries
  <2>1. sock \in Socket
    BY <1>6 DEF LoopCarries, WireInv
  <2>2. workspace' \in Pin
    BY <1>6, <2>1 DEF LoopCarries, Carried
  <2>. QED BY <1>6, <2>2 DEF LoopCarries
<1>7. CASE Draw
  <2>1. ASSUME NEW w \in DesktopWindows PROVE clients[w] \in Pin
    BY <2>1, NamesAssumption DEF DesktopWindows, Census, NoCensus
  <2>2. drawn' \in SUBSET Pin
    BY <1>7, <2>1 DEF Draw, Offered, FollowedWindows
  <2>. QED BY <1>7, <2>2 DEF Draw
<1>8. CASE OnWelcome
  <2>1. down' \in Seq(Message) /\ Head(down) \in Message /\ Head(down).t = "welcome"
    BY <1>8, Received1 DEF OnWelcome
  <2>2. welcomed' \in [Socket -> BOOLEAN] /\ capable' \in [Socket -> BOOLEAN]
    BY <1>8, <2>1, MessageFields DEF OnWelcome
  <2>. QED BY <1>8, <2>1, <2>2 DEF OnWelcome
<1>9. CASE OnLayout
  <2>1. down' \in Seq(Message) /\ Head(down) \in Message /\ Head(down).t = "layout"
    BY <1>9, Received1 DEF OnLayout
  <2>2. layout' \in Workspace \cup {None} /\ told' \in SUBSET {"layout", "clients"}
    BY <1>9, <2>1, MessageFields DEF OnLayout
  <2>. QED BY <1>9, <2>1, <2>2 DEF OnLayout
<1>10. CASE OnClients
  <2>1. down' \in Seq(Message) /\ Head(down) \in Message /\ Head(down).t = "clients"
    BY <1>10, Received1 DEF OnClients
  <2>2. clients' \in Census \cup {<<>>} /\ told' \in SUBSET {"layout", "clients"}
    BY <1>10, <2>1, MessageFields DEF OnClients
  <2>. QED BY <1>10, <2>1, <2>2 DEF OnClients
<1>11. CASE OnResult
  <2>1. down' \in Seq(Message) /\ Head(down) \in Message /\ Head(down).t = "result"
    BY <1>11, Received1 DEF OnResult
  <2>2. pc' \in [Call -> {"idle", "check", "invoke", "sent", "acked", "returned"}]
    BY <1>11 DEF OnResult
  <2>. QED BY <1>11, <2>1, <2>2 DEF OnResult
<1>12. ASSUME NEW c \in Call, NEW p \in Pin, Tap(c, p) PROVE TypeOK'
  <2>1. pc' \in [Call -> {"idle", "check", "invoke", "sent", "acked", "returned"}]
    BY <1>12 DEF Tap
  <2>2. on' \in [Call -> 0..MaxSocket] /\ ask' \in [Call -> Pin]
    BY <1>12 DEF Tap
  <2>3. hasty' \in BOOLEAN
    BY <1>12 DEF Tap
  <2>. QED BY <1>12, <2>1, <2>2, <2>3 DEF Tap
<1>13. ASSUME NEW c \in Call, CallRuns(c) PROVE TypeOK'
  <2>1. CASE ChecksCap(c)
    BY <2>1 DEF ChecksCap, HasWindowCap, Welcomed
  <2>2. CASE Invokes(c)
    <3>1. upward' = Append(upward, c) \/ upward' = upward
      BY <2>2 DEF Invokes
    <3>2. Append(upward, c) \in Seq(Call)
      OBVIOUS
    <3>3. upward' \in Seq(Call)
      BY <3>1, <3>2
    <3>4. pc' \in [Call -> {"idle", "check", "invoke", "sent", "acked", "returned"}]
      <4>1. pc' = [pc EXCEPT ![c] = "sent"] \/ pc' = [pc EXCEPT ![c] = "returned"]
        BY <2>2, Zenon DEF Invokes
      <4>2. pc \in [Call -> {"idle", "check", "invoke", "sent", "acked", "returned"}]
        OBVIOUS
      <4>. QED BY <4>1, <4>2
    <3>5. UNCHANGED <<serverVars, sock, up, down, connVars, loopVars, sessVars, on, ask, drawn, histVars>>
      BY <2>2 DEF Invokes
    <3>. QED BY <3>3, <3>4, <3>5
  <2>3. CASE Expires(c)
    BY <2>3 DEF Expires
  <2>4. CASE SetsPin(c)
    <3>1. pinned' \in [Socket -> Pin]
      BY <2>4 DEF SetsPin
    <3>. QED BY <2>4, <3>1 DEF SetsPin
  <2>. QED BY <1>13, <2>1, <2>2, <2>3, <2>4 DEF CallRuns
<1>14. CASE UNCHANGED vars
  BY <1>14 DEF vars
<1>. QED BY <1>1, <1>2, <1>3, <1>4, <1>5, <1>6, <1>7, <1>8, <1>9, <1>10, <1>11, <1>12, <1>13, <1>14 DEF Next

\* What a closing workspace leaves.
LEMMA ClosesTypes ==
    ASSUME TypeOK, NEW ws \in Workspace, WorkspaceCloses(ws)
    PROVE  exists' \in SUBSET Workspace /\ exists' # {} /\ shows' \in [Window -> exists' \cup {None}]
<1>1. exists' = exists \ {ws} /\ exists' \in SUBSET Workspace /\ exists' # {}
  BY DEF WorkspaceCloses, TypeOK
<1>2. (CHOOSE x \in exists' : TRUE) \in exists'
  BY <1>1
<1>. QED BY <1>1, <1>2 DEF WorkspaceCloses, TypeOK

\* What lies on the wire is messages.
LEMMA OnWire ==
    ASSUME NEW s \in Seq(Message)
    PROVE  \A i \in 1..Len(s) : s[i] \in Message
  BY ElementOfSeq

\* A command goes to the end of what is on the way to the server.
LEMMA Invoked ==
    ASSUME TypeOK, NEW c \in Call, Invokes(c)
    PROVE  /\ \A i \in 1..Len(upward') : (i \in 1..Len(upward) /\ upward'[i] = upward[i]) \/ upward'[i] = c
           /\ (up /\ on[c] = sock) \/ upward' = upward
<1>1. CASE up /\ on[c] = sock
  <2>1. upward' = Append(upward, c) /\ upward \in Seq(Call)
    BY <1>1 DEF Invokes, TypeOK
  <2>. QED BY <1>1, <2>1
<1>2. CASE ~(up /\ on[c] = sock)
  BY <1>2 DEF Invokes
<1>. QED BY <1>1, <1>2

\* Every step keeps the wires and the commands in step.
LEMMA WireStep ==
    ASSUME TypeOK, WireInv, [Next]_vars
    PROVE  WireInv'
<1> USE NamesAssumption, SocketAssumption DEF WireInv, Socket, serverVars, wireVars, connVars, loopVars, sessVars, callVars, histVars, vars
<1>1. ASSUME NEW w \in Window, NEW ws \in Workspace \cup {None}, WindowMoves(w, ws) PROVE WireInv'
  <2>1. /\ exists' \in SUBSET Workspace /\ exists' # {} /\ shows' \in [Window -> exists' \cup {None}]
        /\ UNCHANGED exists
    BY <1>1 DEF WindowMoves, TypeOK
  <2>2. \A i \in 1..Len(down') :
          (i \in 1..Len(down) /\ down'[i] = down[i]) \/ down'[i].t \in {"layout", "clients"}
    BY <1>1, <2>1, SendsPushes DEF WindowMoves
  <2>. QED BY <1>1, <2>2 DEF WindowMoves
<1>2. ASSUME NEW ws \in Workspace, WorkspaceCloses(ws) PROVE WireInv'
  <2>1. /\ exists' \in SUBSET Workspace /\ exists' # {} /\ shows' \in [Window -> exists' \cup {None}]
    BY <1>2, ClosesTypes
  <2>2. \A i \in 1..Len(down') :
          (i \in 1..Len(down) /\ down'[i] = down[i]) \/ down'[i].t \in {"layout", "clients"}
    BY <1>2, <2>1, SendsPushes DEF WorkspaceCloses
  <2>. QED BY <1>2, <2>2 DEF WorkspaceCloses
<1>3. ASSUME NEW ok \in BOOLEAN, ServerExecutes(ok) PROVE WireInv'
  <2> DEFINE c == Head(upward)
             r == [t |-> "result", call |-> c, ok |-> ok]
  <2>1. /\ c = upward[1] /\ 1 \in 1..Len(upward) /\ r.call = c
        /\ \A i \in 1..Len(upward') : i + 1 \in 1..Len(upward) /\ upward'[i] = upward[i + 1]
    BY <1>3, Executes
  <2>2. pc[c] # "idle"
    BY <2>1
  <2>3. /\ \A i \in 1..Len(down') :
             \/ i \in 1..Len(down) /\ down'[i] = down[i]
             \/ i = Len(down) + 1
             \/ down'[i].t \in {"layout", "clients"}
        /\ down'[Len(down) + 1] = r
    BY <1>3, Answers
  <2>4. UNCHANGED <<pc, on, sock, up, dialling, welcomed>> /\ up
    BY <1>3 DEF ServerExecutes
  <2> HIDE DEF c, r
  <2>5. \A i \in 1..Len(down') : down'[i].t = "result" => pc[down'[i].call] # "idle"
    BY <2>1, <2>2, <2>3
  <2>6. \A i \in 1..Len(upward') : pc[upward'[i]] # "idle"
    BY <2>1
  <2>. QED BY <2>4, <2>5, <2>6
<1>4. ASSUME NEW a \in BOOLEAN, Attach(a) PROVE WireInv'
  <2>1. \A i \in 1..Len(down') :
          down'[i] = [t |-> "welcome", able |-> a] \/ down'[i].t \in {"layout", "clients"}
    BY <1>4, StartsWith
  <2>2. \A i \in 1..Len(down') : down'[i].t # "result"
    BY <2>1
  <2>3. upward' = <<>> /\ Len(<<>>) = 0
    BY <1>4 DEF Attach
  <2>4. sock' = sock + 1 /\ sock \in Nat /\ up' /\ ~dialling' /\ UNCHANGED <<pc, on, welcomed>>
    BY <1>4 DEF Attach, TypeOK
  <2>5. \A c \in Call : on[c] \in Nat
    BY DEF TypeOK
  <2>. QED BY <2>2, <2>3, <2>4, <2>5
<1>5. CASE SocketDies
  <2>1. down' = <<>> /\ upward' = <<>> /\ Len(<<>>) = 0 /\ ~up'
    BY <1>5 DEF SocketDies
  <2>. QED BY <1>5, <2>1 DEF SocketDies, TypeOK
<1>6. CASE LoopCarries
  BY <1>6 DEF LoopCarries, Carried
<1>7. CASE Draw
  BY <1>7 DEF Draw
<1>8. CASE OnWelcome
  <2>1. down # <<>> /\ \A i \in 1..Len(down') : i + 1 \in 1..Len(down) /\ down'[i] = down[i + 1]
    BY <1>8, Received1 DEF OnWelcome
  <2>2. up /\ UNCHANGED <<pc, on, up, sock, dialling, upward>> /\ sock \in Nat
    BY <1>8, <2>1 DEF OnWelcome, TypeOK
  <2>3. \A s \in Socket : s > sock => ~welcomed'[s]
    BY <1>8, <2>2 DEF OnWelcome, TypeOK
  <2>. QED BY <2>1, <2>2, <2>3
<1>9. CASE OnLayout
  <2>1. down # <<>> /\ \A i \in 1..Len(down') : i + 1 \in 1..Len(down) /\ down'[i] = down[i + 1]
    BY <1>9, Received1 DEF OnLayout
  <2>. QED BY <1>9, <2>1 DEF OnLayout
<1>10. CASE OnClients
  <2>1. down # <<>> /\ \A i \in 1..Len(down') : i + 1 \in 1..Len(down) /\ down'[i] = down[i + 1]
    BY <1>10, Received1 DEF OnClients
  <2>. QED BY <1>10, <2>1 DEF OnClients
<1>11. CASE OnResult
  <2>1. down # <<>> /\ \A i \in 1..Len(down') : i + 1 \in 1..Len(down) /\ down'[i] = down[i + 1]
    BY <1>11, Received1 DEF OnResult
  <2>2. up /\ UNCHANGED <<on, up, sock, dialling, upward, welcomed>>
    BY <1>11, <2>1 DEF OnResult
  <2>3. \A c \in Call : pc[c] = "idle" <=> pc'[c] = "idle"
    BY <1>11 DEF OnResult, TypeOK
  <2>4. \A i \in 1..Len(upward) : upward[i] \in Call
    BY ElementOfSeq DEF TypeOK
  <2>5. \A i \in 1..Len(down) : down[i].t = "result" => down[i].call \in Call
    BY OnWire, MessageFields DEF TypeOK
  <2>. QED BY <2>1, <2>2, <2>3, <2>4, <2>5
<1>12. ASSUME NEW c \in Call, NEW p \in Pin, Tap(c, p) PROVE WireInv'
  <2>1. /\ \A d \in Call : pc[d] # "idle" => pc'[d] # "idle"
        /\ \A d \in Call : pc'[d] # "idle" => on'[d] \in 1..sock
    <3>1. sock \in 1..sock
      BY <1>12 DEF Tap, TypeOK
    <3>. QED BY <1>12, <3>1 DEF Tap, TypeOK
  <2>2. \A i \in 1..Len(upward) : upward[i] \in Call
    BY ElementOfSeq DEF TypeOK
  <2>3. \A i \in 1..Len(down) : down[i].t = "result" => down[i].call \in Call
    BY OnWire, MessageFields DEF TypeOK
  <2>. QED BY <1>12, <2>1, <2>2, <2>3 DEF Tap
<1>13. ASSUME NEW c \in Call, CallRuns(c) PROVE WireInv'
  <2>1. CASE ChecksCap(c)
    <3>1. \A d \in Call : pc[d] = "idle" <=> pc'[d] = "idle"
      BY <2>1 DEF ChecksCap, TypeOK
    <3>2. \A i \in 1..Len(upward) : upward[i] \in Call
      BY ElementOfSeq DEF TypeOK
    <3>3. \A i \in 1..Len(down) : down[i].t = "result" => down[i].call \in Call
      BY OnWire, MessageFields DEF TypeOK
    <3>. QED BY <2>1, <3>1, <3>2, <3>3 DEF ChecksCap
  <2>2. CASE Invokes(c)
    <3>1. \A d \in Call : pc[d] = "idle" <=> pc'[d] = "idle"
      BY <2>2 DEF Invokes, TypeOK
    <3>2. \A i \in 1..Len(upward) : upward[i] \in Call
      BY ElementOfSeq DEF TypeOK
    <3>3. \A i \in 1..Len(down) : down[i].t = "result" => down[i].call \in Call
      BY OnWire, MessageFields DEF TypeOK
    <3>4. /\ \A i \in 1..Len(upward') : (i \in 1..Len(upward) /\ upward'[i] = upward[i]) \/ upward'[i] = c
          /\ ~up => upward' = upward
      BY <2>2, Invoked
    <3>5. pc[c] # "idle"
      BY <2>2 DEF Invokes
    <3>6. \A i \in 1..Len(upward') : pc'[upward'[i]] # "idle"
      BY <3>1, <3>2, <3>4, <3>5
    <3>. QED BY <2>2, <3>1, <3>3, <3>4, <3>6 DEF Invokes
  <2>3. CASE Expires(c)
    <3>1. \A d \in Call : pc[d] = "idle" <=> pc'[d] = "idle"
      BY <2>3 DEF Expires, TypeOK
    <3>2. \A i \in 1..Len(upward) : upward[i] \in Call
      BY ElementOfSeq DEF TypeOK
    <3>3. \A i \in 1..Len(down) : down[i].t = "result" => down[i].call \in Call
      BY OnWire, MessageFields DEF TypeOK
    <3>. QED BY <2>3, <3>1, <3>2, <3>3 DEF Expires
  <2>4. CASE SetsPin(c)
    <3>1. \A d \in Call : pc[d] = "idle" <=> pc'[d] = "idle"
      BY <2>4 DEF SetsPin, PinsWhenAcked, TypeOK
    <3>2. \A i \in 1..Len(upward) : upward[i] \in Call
      BY ElementOfSeq DEF TypeOK
    <3>3. \A i \in 1..Len(down) : down[i].t = "result" => down[i].call \in Call
      BY OnWire, MessageFields DEF TypeOK
    <3>. QED BY <2>4, <3>1, <3>2, <3>3 DEF SetsPin
  <2>. QED BY <1>13, <2>1, <2>2, <2>3, <2>4 DEF CallRuns
<1>14. CASE UNCHANGED vars
  BY <1>14 DEF vars
<1>. QED BY <1>1, <1>2, <1>3, <1>4, <1>5, <1>6, <1>7, <1>8, <1>9, <1>10, <1>11, <1>12, <1>13, <1>14 DEF Next

\* What the two changes at the desk send.
LEMMA MovesSends ==
    ASSUME TypeOK, NEW w \in Window, NEW ws \in Workspace \cup {None}, WindowMoves(w, ws)
    PROVE  /\ down' \in Seq(Message)
           /\ Latest(down', Layout(viewPin', exists', shows')) /\ Latest(down', Clients(viewPin', exists', shows'))
           /\ \A i \in 1..Len(down') :
                (i \in 1..Len(down) /\ down'[i] = down[i]) \/ down'[i].t \in {"layout", "clients"}
           /\ \A i \in 1..Len(down) : i \in 1..Len(down') /\ down'[i] = down[i]
<1>1. /\ exists \in SUBSET Workspace /\ exists # {} /\ shows' \in [Window -> exists \cup {None}]
      /\ Sends(<<>>, viewPin, exists, shows')
  BY DEF WindowMoves, TypeOK
<1>2. /\ down' \in Seq(Message)
      /\ Latest(down', Layout(viewPin, exists, shows')) /\ Latest(down', Clients(viewPin, exists, shows'))
      /\ \A i \in 1..Len(down') :
           (i \in 1..Len(down) /\ down'[i] = down[i]) \/ down'[i].t \in {"layout", "clients"}
      /\ \A i \in 1..Len(down) : i \in 1..Len(down') /\ down'[i] = down[i]
  BY <1>1, SendsPushes
<1>3. viewPin' = viewPin /\ exists' = exists
  BY DEF WindowMoves
<1>. QED BY <1>2, <1>3

\* The same of a workspace that closes.
LEMMA ClosesSends ==
    ASSUME TypeOK, NEW ws \in Workspace, WorkspaceCloses(ws)
    PROVE  /\ down' \in Seq(Message)
           /\ Latest(down', Layout(viewPin', exists', shows')) /\ Latest(down', Clients(viewPin', exists', shows'))
           /\ \A i \in 1..Len(down') :
                (i \in 1..Len(down) /\ down'[i] = down[i]) \/ down'[i].t \in {"layout", "clients"}
           /\ \A i \in 1..Len(down) : i \in 1..Len(down') /\ down'[i] = down[i]
<1>1. /\ exists' \in SUBSET Workspace /\ exists' # {} /\ shows' \in [Window -> exists' \cup {None}]
  BY ClosesTypes
<1>2. Sends(<<>>, viewPin, exists', shows') /\ viewPin' = viewPin
  BY DEF WorkspaceCloses
<1>3. /\ down' \in Seq(Message)
      /\ Latest(down', Layout(viewPin, exists', shows')) /\ Latest(down', Clients(viewPin, exists', shows'))
      /\ \A i \in 1..Len(down') :
           (i \in 1..Len(down) /\ down'[i] = down[i]) \/ down'[i].t \in {"layout", "clients"}
      /\ \A i \in 1..Len(down) : i \in 1..Len(down') /\ down'[i] = down[i]
  BY <1>1, <1>2, SendsPushes
<1>. QED BY <1>2, <1>3

\* Every step keeps what a Conn knows of its server, and leaves the desk alone.
LEMMA CapStep ==
    ASSUME TypeOK, WireInv, CapInv, NeverMovesDesk, [Next]_vars
    PROVE  CapInv' /\ NeverMovesDesk'
<1> USE NamesAssumption, SocketAssumption DEF CapInv, NeverMovesDesk, Socket, serverVars, wireVars, connVars, loopVars, sessVars, callVars, histVars, vars
<1>1. ASSUME NEW w \in Window, NEW ws \in Workspace \cup {None}, WindowMoves(w, ws) PROVE CapInv' /\ NeverMovesDesk'
  <2>1. \A i \in 1..Len(down') :
          (i \in 1..Len(down) /\ down'[i] = down[i]) \/ down'[i].t \in {"layout", "clients"}
    BY <1>1, MovesSends
  <2>. QED BY <1>1, <2>1 DEF WindowMoves, TypeOK
<1>2. ASSUME NEW ws \in Workspace, WorkspaceCloses(ws) PROVE CapInv' /\ NeverMovesDesk'
  <2>1. \A i \in 1..Len(down') :
          (i \in 1..Len(down) /\ down'[i] = down[i]) \/ down'[i].t \in {"layout", "clients"}
    BY <1>2, ClosesSends
  <2>. QED BY <1>2, <2>1 DEF WorkspaceCloses, TypeOK
<1>3. ASSUME NEW ok \in BOOLEAN, ServerExecutes(ok) PROVE CapInv' /\ NeverMovesDesk'
  <2>1. /\ \A i \in 1..Len(down') :
             \/ i \in 1..Len(down) /\ down'[i] = down[i]
             \/ i = Len(down) + 1
             \/ down'[i].t \in {"layout", "clients"}
        /\ down'[Len(down) + 1] = [t |-> "result", call |-> Head(upward), ok |-> ok]
    BY <1>3, Answers
  <2>2. UNCHANGED <<able, sock, up, welcomed, capable, pc, on>> /\ upward # <<>>
    BY <1>3 DEF ServerExecutes
  <2>3. able
    BY <2>2
  <2>4. deskMoved' = (deskMoved \/ (ok /\ ~able))
    BY <1>3 DEF ServerExecutes
  <2>5. ~deskMoved'
    BY <2>3, <2>4
  <2>6. \A i \in 1..Len(down') : down'[i].t = "welcome" => down'[i].able = able
    BY <2>1
  <2>. QED BY <2>2, <2>5, <2>6
<1>4. ASSUME NEW a \in BOOLEAN, Attach(a) PROVE CapInv' /\ NeverMovesDesk'
  <2>1. \A i \in 1..Len(down') :
          down'[i] = [t |-> "welcome", able |-> a] \/ down'[i].t \in {"layout", "clients"}
    BY <1>4, StartsWith
  <2>2. \A i \in 1..Len(down') : down'[i].t = "welcome" => down'[i].able = a
    BY <2>1
  <2>3. sock' \in Socket /\ sock' > sock /\ able' = a /\ upward' = <<>> /\ UNCHANGED <<welcomed, capable, pc, on, deskMoved>>
    BY <1>4 DEF Attach, TypeOK
  <2>4. ~welcomed'[sock']
    BY <2>3 DEF WireInv
  <2>. QED BY <2>2, <2>3, <2>4
<1>5. CASE SocketDies
  <2>1. down' = <<>> /\ upward' = <<>> /\ Len(<<>>) = 0
    BY <1>5 DEF SocketDies
  <2>2. \A c \in Call : pc'[c] = "invoke" => pc[c] = "invoke"
    BY <1>5 DEF SocketDies
  <2>. QED BY <1>5, <2>1, <2>2 DEF SocketDies
<1>6. CASE LoopCarries
  BY <1>6 DEF LoopCarries, Carried
<1>7. CASE Draw
  BY <1>7 DEF Draw
<1>8. CASE OnWelcome
  <2>1. down # <<>> /\ \A i \in 1..Len(down') : i + 1 \in 1..Len(down) /\ down'[i] = down[i + 1]
    BY <1>8, Received1 DEF OnWelcome
  <2>2. /\ 1 \in 1..Len(down) /\ Head(down) = down[1] /\ down[1].t = "welcome"
    BY <1>8, Received1 DEF OnWelcome
  <2>3. Head(down).able = able
    BY <2>2
  <2>4. sock \in Socket
    BY <2>1 DEF WireInv, TypeOK
  <2>5. welcomed' = [welcomed EXCEPT ![sock] = TRUE] /\ capable' = [capable EXCEPT ![sock] = able]
    BY <1>8, <2>3 DEF OnWelcome
  <2>6. UNCHANGED <<able, sock, upward, pc, on, deskMoved>>
    BY <1>8 DEF OnWelcome
  <2>7. welcomed'[sock] /\ capable'[sock] = able
    BY <2>4, <2>5 DEF TypeOK
  <2>8. ASSUME NEW c \in Call, pc[c] = "invoke" PROVE welcomed'[on[c]] /\ capable'[on[c]]
    <3>1. welcomed[on[c]] /\ capable[on[c]] /\ on[c] \in Socket
      BY <2>8 DEF WireInv, TypeOK
    <3>2. CASE on[c] = sock
      BY <3>1, <3>2, <2>4, <2>7
    <3>3. CASE on[c] # sock
      BY <3>1, <3>3, <2>5 DEF TypeOK
    <3>. QED BY <3>2, <3>3
  <2>. QED BY <2>1, <2>6, <2>7, <2>8
<1>9. CASE OnLayout
  <2>1. down # <<>> /\ \A i \in 1..Len(down') : i + 1 \in 1..Len(down) /\ down'[i] = down[i + 1]
    BY <1>9, Received1 DEF OnLayout
  <2>. QED BY <1>9, <2>1 DEF OnLayout
<1>10. CASE OnClients
  <2>1. down # <<>> /\ \A i \in 1..Len(down') : i + 1 \in 1..Len(down) /\ down'[i] = down[i + 1]
    BY <1>10, Received1 DEF OnClients
  <2>. QED BY <1>10, <2>1 DEF OnClients
<1>11. CASE OnResult
  <2>1. down # <<>> /\ \A i \in 1..Len(down') : i + 1 \in 1..Len(down) /\ down'[i] = down[i + 1]
    BY <1>11, Received1 DEF OnResult
  <2>2. \A c \in Call : pc'[c] = "invoke" => pc[c] = "invoke"
    BY <1>11 DEF OnResult, TypeOK
  <2>. QED BY <1>11, <2>1, <2>2 DEF OnResult
<1>12. ASSUME NEW c \in Call, NEW p \in Pin, Tap(c, p) PROVE CapInv' /\ NeverMovesDesk'
  <2>1. \A d \in Call : pc'[d] = "invoke" => pc[d] = "invoke" /\ on'[d] = on[d]
    BY <1>12 DEF Tap, TypeOK
  <2>. QED BY <1>12, <2>1 DEF Tap
<1>13. ASSUME NEW c \in Call, CallRuns(c) PROVE CapInv' /\ NeverMovesDesk'
  <2>1. CASE ChecksCap(c)
    <3>1. \A d \in Call : pc'[d] = "invoke" => pc[d] = "invoke" \/ (welcomed[on[d]] /\ capable[on[d]])
      BY <2>1 DEF ChecksCap, HasWindowCap, Welcomed, TypeOK
    <3>. QED BY <2>1, <3>1 DEF ChecksCap
  <2>2. CASE Invokes(c)
    <3>1. \A d \in Call : pc'[d] = "invoke" => pc[d] = "invoke"
      BY <2>2 DEF Invokes, TypeOK
    <3>2. (up /\ on[c] = sock) \/ upward' = upward
      BY <2>2, Invoked
    <3>3. welcomed[on[c]] /\ capable[on[c]]
      BY <2>2 DEF Invokes
    <3>4. up => sock # 0
      BY DEF WireInv
    <3>5. upward' # <<>> => able /\ welcomed[sock]
      BY <3>2, <3>3, <3>4
    <3>. QED BY <2>2, <3>1, <3>5 DEF Invokes
  <2>3. CASE Expires(c)
    <3>1. \A d \in Call : pc'[d] = "invoke" => pc[d] = "invoke"
      BY <2>3 DEF Expires, TypeOK
    <3>. QED BY <2>3, <3>1 DEF Expires
  <2>4. CASE SetsPin(c)
    <3>1. \A d \in Call : pc'[d] = "invoke" => pc[d] = "invoke"
      BY <2>4 DEF SetsPin, TypeOK
    <3>. QED BY <2>4, <3>1 DEF SetsPin
  <2>. QED BY <1>13, <2>1, <2>2, <2>3, <2>4 DEF CallRuns
<1>14. CASE UNCHANGED vars
  BY <1>14 DEF vars
<1>. QED BY <1>1, <1>2, <1>3, <1>4, <1>5, <1>6, <1>7, <1>8, <1>9, <1>10, <1>11, <1>12, <1>13, <1>14 DEF Next

\* Every step keeps the pins among those the server accepted.
LEMMA AcceptedStep ==
    ASSUME TypeOK, WireInv, AcceptedInv, PinsWereAccepted, [Next]_vars
    PROVE  AcceptedInv' /\ PinsWereAccepted'
<1> USE NamesAssumption, SocketAssumption DEF AcceptedInv, PinsWereAccepted, Socket, serverVars, wireVars, connVars, loopVars, sessVars, callVars, histVars, vars
<1>1. ASSUME NEW w \in Window, NEW ws \in Workspace \cup {None}, WindowMoves(w, ws) PROVE AcceptedInv' /\ PinsWereAccepted'
  <2>1. \A i \in 1..Len(down') :
          (i \in 1..Len(down) /\ down'[i] = down[i]) \/ down'[i].t \in {"layout", "clients"}
    BY <1>1, MovesSends
  <2>. QED BY <1>1, <2>1 DEF WindowMoves
<1>2. ASSUME NEW ws \in Workspace, WorkspaceCloses(ws) PROVE AcceptedInv' /\ PinsWereAccepted'
  <2>1. \A i \in 1..Len(down') :
          (i \in 1..Len(down) /\ down'[i] = down[i]) \/ down'[i].t \in {"layout", "clients"}
    BY <1>2, ClosesSends
  <2>. QED BY <1>2, <2>1 DEF WorkspaceCloses
<1>3. ASSUME NEW ok \in BOOLEAN, ServerExecutes(ok) PROVE AcceptedInv' /\ PinsWereAccepted'
  <2> DEFINE c == Head(upward)
             r == [t |-> "result", call |-> c, ok |-> ok]
  <2>1. /\ \A i \in 1..Len(down') :
             \/ i \in 1..Len(down) /\ down'[i] = down[i]
             \/ i = Len(down) + 1
             \/ down'[i].t \in {"layout", "clients"}
        /\ down'[Len(down) + 1] = r
    BY <1>3, Answers
  <2>2. UNCHANGED <<pinned, workspace, pc, ask>>
    BY <1>3 DEF ServerExecutes
  <2>3. accepted' = IF ok THEN accepted \cup {ask[c]} ELSE accepted
    BY <1>3 DEF ServerExecutes
  <2>4. r.call = c /\ r.ok = ok
    OBVIOUS
  <2> HIDE DEF c, r
  <2>5. \A i \in 1..Len(down') : down'[i].t = "result" /\ down'[i].ok => ask[down'[i].call] \in accepted'
    BY <2>1, <2>3, <2>4
  <2>. QED BY <2>2, <2>3, <2>5
<1>4. ASSUME NEW a \in BOOLEAN, Attach(a) PROVE AcceptedInv' /\ PinsWereAccepted'
  <2>1. \A i \in 1..Len(down') :
          down'[i] = [t |-> "welcome", able |-> a] \/ down'[i].t \in {"layout", "clients"}
    BY <1>4, StartsWith
  <2>2. \A i \in 1..Len(down') : down'[i].t # "result"
    BY <2>1
  <2>3. sock' \in Socket /\ pinned' = [pinned EXCEPT ![sock'] = workspace] /\ UNCHANGED <<workspace, accepted, pc, ask>>
    BY <1>4 DEF Attach, InitWorkspace, TypeOK
  <2>4. \A s \in Socket : pinned'[s] \in accepted \cup {Primary}
    BY <2>3 DEF TypeOK
  <2>. QED BY <2>2, <2>3, <2>4
<1>5. CASE SocketDies
  <2>1. down' = <<>> /\ Len(<<>>) = 0
    BY <1>5 DEF SocketDies
  <2>2. \A c \in Call : pc'[c] = "acked" => pc[c] = "acked"
    BY <1>5 DEF SocketDies
  <2>. QED BY <1>5, <2>1, <2>2 DEF SocketDies
<1>6. CASE LoopCarries
  <2>1. sock \in Socket
    BY <1>6 DEF LoopCarries, WireInv, TypeOK
  <2>. QED BY <1>6, <2>1 DEF LoopCarries, Carried
<1>7. CASE Draw
  BY <1>7 DEF Draw
<1>8. CASE OnWelcome
  <2>1. down # <<>> /\ \A i \in 1..Len(down') : i + 1 \in 1..Len(down) /\ down'[i] = down[i + 1]
    BY <1>8, Received1 DEF OnWelcome
  <2>. QED BY <1>8, <2>1 DEF OnWelcome
<1>9. CASE OnLayout
  <2>1. down # <<>> /\ \A i \in 1..Len(down') : i + 1 \in 1..Len(down) /\ down'[i] = down[i + 1]
    BY <1>9, Received1 DEF OnLayout
  <2>. QED BY <1>9, <2>1 DEF OnLayout
<1>10. CASE OnClients
  <2>1. down # <<>> /\ \A i \in 1..Len(down') : i + 1 \in 1..Len(down) /\ down'[i] = down[i + 1]
    BY <1>10, Received1 DEF OnClients
  <2>. QED BY <1>10, <2>1 DEF OnClients
<1>11. CASE OnResult
  <2>1. down # <<>> /\ \A i \in 1..Len(down') : i + 1 \in 1..Len(down) /\ down'[i] = down[i + 1]
    BY <1>11, Received1 DEF OnResult
  <2>2. /\ 1 \in 1..Len(down) /\ Head(down) = down[1] /\ down[1].t = "result" /\ Head(down) \in Message
    BY <1>11, Received1 DEF OnResult
  <2>3. Head(down).ok \in BOOLEAN
    BY <2>2, MessageFields
  <2>4. Head(down).ok => ask[Head(down).call] \in accepted
    BY <2>2
  <2>5. ASSUME NEW c \in Call, pc'[c] = "acked", pc[c] # "acked" PROVE ask[c] \in accepted
    <3>1. pc' = [pc EXCEPT ![Head(down).call] = IF Head(down).ok THEN "acked" ELSE "returned"]
      BY <1>11, <2>5 DEF OnResult
    <3>2. c = Head(down).call /\ Head(down).ok
      BY <2>5, <3>1 DEF TypeOK
    <3>. QED BY <2>4, <3>2
  <2>. QED BY <1>11, <2>1, <2>5 DEF OnResult
<1>12. ASSUME NEW c \in Call, NEW p \in Pin, Tap(c, p) PROVE AcceptedInv' /\ PinsWereAccepted'
  <2>1. \A d \in Call : pc'[d] = "acked" => pc[d] = "acked"
    BY <1>12 DEF Tap, TypeOK
  <2>2. \A d \in Call : pc[d] # "idle" => ask'[d] = ask[d]
    BY <1>12 DEF Tap, TypeOK
  <2>3. \A i \in 1..Len(down) : down[i].t = "result" => down[i].call \in Call /\ pc[down[i].call] # "idle"
    BY OnWire, MessageFields DEF TypeOK, WireInv
  <2>. QED BY <1>12, <2>1, <2>2, <2>3 DEF Tap
<1>13. ASSUME NEW c \in Call, CallRuns(c) PROVE AcceptedInv' /\ PinsWereAccepted'
  <2>1. CASE ChecksCap(c)
    <3>1. \A d \in Call : pc'[d] = "acked" => pc[d] = "acked"
      BY <2>1 DEF ChecksCap, TypeOK
    <3>. QED BY <2>1, <3>1 DEF ChecksCap
  <2>2. CASE Invokes(c)
    <3>1. \A d \in Call : pc'[d] = "acked" => pc[d] = "acked"
      BY <2>2 DEF Invokes, TypeOK
    <3>. QED BY <2>2, <3>1 DEF Invokes
  <2>3. CASE Expires(c)
    <3>1. \A d \in Call : pc'[d] = "acked" => pc[d] = "acked"
      BY <2>3 DEF Expires, TypeOK
    <3>. QED BY <2>3, <3>1 DEF Expires
  <2>4. CASE SetsPin(c)
    <3>1. \A d \in Call : pc'[d] = "acked" => pc[d] = "acked"
      BY <2>4 DEF SetsPin, TypeOK
    <3>2. ask[c] \in accepted
      BY <2>4 DEF SetsPin, PinsWhenAcked
    <3>3. \A s \in Socket : pinned'[s] \in accepted \cup {Primary}
      BY <2>4, <3>2 DEF SetsPin, TypeOK
    <3>. QED BY <2>4, <3>1, <3>3 DEF SetsPin
  <2>. QED BY <1>13, <2>1, <2>2, <2>3, <2>4 DEF CallRuns
<1>14. CASE UNCHANGED vars
  BY <1>14 DEF vars
<1>. QED BY <1>1, <1>2, <1>3, <1>4, <1>5, <1>6, <1>7, <1>8, <1>9, <1>10, <1>11, <1>12, <1>13, <1>14 DEF Next

\* Every step keeps the server's picture in flight or folded.
LEMMA PictureStep ==
    ASSUME TypeOK, WireInv, PictureInv, [Next]_vars
    PROVE  PictureInv'
<1> DEFINE l == Layout(viewPin, exists, shows)
           c == Clients(viewPin, exists, shows)
           picture == <<viewPin, exists, shows, up, down, layout, clients>>
<1> USE NamesAssumption, SocketAssumption DEF serverVars, wireVars, connVars, loopVars, sessVars, callVars, histVars, vars
<1>0. l.t = "layout" /\ c.t = "clients"
  BY PushTypes DEF TypeOK
<1>1. ASSUME NEW w \in Window, NEW ws \in Workspace \cup {None}, WindowMoves(w, ws) PROVE PictureInv'
  <2>. QED BY <1>1, MovesSends DEF PictureInv
<1>2. ASSUME NEW ws \in Workspace, WorkspaceCloses(ws) PROVE PictureInv'
  <2>. QED BY <1>2, ClosesSends DEF PictureInv
<1>3. ASSUME NEW ok \in BOOLEAN, ServerExecutes(ok) PROVE PictureInv'
  <2>1. UNCHANGED <<exists, shows>>
    BY <1>3 DEF ServerExecutes
  <2>2. Latest(down', Layout(viewPin', exists, shows)) /\ Latest(down', Clients(viewPin', exists, shows))
    BY <1>3, Answers
  <2>. QED BY <2>1, <2>2 DEF PictureInv
<1>4. ASSUME NEW a \in BOOLEAN, Attach(a) PROVE PictureInv'
  <2>. QED BY <1>4, StartsWith DEF PictureInv
<1>5. CASE SocketDies
  <2>1. ~up'
    BY <1>5 DEF SocketDies
  <2>. QED BY <2>1 DEF PictureInv
<1>6. CASE LoopCarries
  <2>1. UNCHANGED picture
    BY <1>6 DEF LoopCarries
  <2>. QED BY <2>1 DEF PictureInv
<1>7. CASE Draw
  <2>1. UNCHANGED picture
    BY <1>7 DEF Draw
  <2>. QED BY <2>1 DEF PictureInv
<1>8. CASE OnWelcome
  <2>1. /\ down # <<>> /\ down \in Seq(Message) /\ down' = Tail(down) /\ Head(down).t = "welcome"
        /\ UNCHANGED <<viewPin, exists, shows, up>>
    BY <1>8, Received1 DEF OnWelcome, TypeOK
  <2>2. /\ Latest(down', l) \/ (Head(down) = l /\ NoneOf(down', l.t)) \/ ~Latest(down, l)
        /\ Latest(down', c) \/ (Head(down) = c /\ NoneOf(down', c.t)) \/ ~Latest(down, c)
        /\ NoneOf(down, "layout") => NoneOf(down', "layout")
        /\ NoneOf(down, "clients") => NoneOf(down', "clients")
    BY <2>1, LatestTaken
  <2>3. UNCHANGED <<layout, clients>>
    BY <1>8 DEF OnWelcome
  <2>. QED BY <1>0, <2>1, <2>2, <2>3 DEF PictureInv
<1>9. CASE OnLayout
  <2>1. /\ down # <<>> /\ down \in Seq(Message) /\ down' = Tail(down) /\ Head(down).t = "layout"
        /\ UNCHANGED <<viewPin, exists, shows, up>>
    BY <1>9, Received1 DEF OnLayout, TypeOK
  <2>2. /\ Latest(down', l) \/ (Head(down) = l /\ NoneOf(down', l.t)) \/ ~Latest(down, l)
        /\ Latest(down', c) \/ (Head(down) = c /\ NoneOf(down', c.t)) \/ ~Latest(down, c)
        /\ NoneOf(down, "layout") => NoneOf(down', "layout")
        /\ NoneOf(down, "clients") => NoneOf(down', "clients")
    BY <2>1, LatestTaken
  <2>3. layout' = Head(down).active /\ UNCHANGED clients
    BY <1>9 DEF OnLayout
  <2>4. ~NoneOf(down, "layout")
    BY <1>9, Received1 DEF NoneOf, OnLayout
  <2>. QED BY <1>0, <2>1, <2>2, <2>3, <2>4 DEF PictureInv
<1>10. CASE OnClients
  <2>1. /\ down # <<>> /\ down \in Seq(Message) /\ down' = Tail(down) /\ Head(down).t = "clients"
        /\ UNCHANGED <<viewPin, exists, shows, up>>
    BY <1>10, Received1 DEF OnClients, TypeOK
  <2>2. /\ Latest(down', l) \/ (Head(down) = l /\ NoneOf(down', l.t)) \/ ~Latest(down, l)
        /\ Latest(down', c) \/ (Head(down) = c /\ NoneOf(down', c.t)) \/ ~Latest(down, c)
        /\ NoneOf(down, "layout") => NoneOf(down', "layout")
        /\ NoneOf(down, "clients") => NoneOf(down', "clients")
    BY <2>1, LatestTaken
  <2>3. clients' = Head(down).views /\ UNCHANGED layout
    BY <1>10 DEF OnClients
  <2>4. ~NoneOf(down, "clients")
    BY <1>10, Received1 DEF NoneOf, OnClients
  <2>. QED BY <1>0, <2>1, <2>2, <2>3, <2>4 DEF PictureInv
<1>11. CASE OnResult
  <2>1. /\ down # <<>> /\ down \in Seq(Message) /\ down' = Tail(down) /\ Head(down).t = "result"
        /\ UNCHANGED <<viewPin, exists, shows, up>>
    BY <1>11, Received1 DEF OnResult, TypeOK
  <2>2. /\ Latest(down', l) \/ (Head(down) = l /\ NoneOf(down', l.t)) \/ ~Latest(down, l)
        /\ Latest(down', c) \/ (Head(down) = c /\ NoneOf(down', c.t)) \/ ~Latest(down, c)
        /\ NoneOf(down, "layout") => NoneOf(down', "layout")
        /\ NoneOf(down, "clients") => NoneOf(down', "clients")
    BY <2>1, LatestTaken
  <2>3. UNCHANGED <<layout, clients>>
    BY <1>11 DEF OnResult
  <2>. QED BY <1>0, <2>1, <2>2, <2>3 DEF PictureInv
<1>12. ASSUME NEW d \in Call, NEW p \in Pin, Tap(d, p) PROVE PictureInv'
  <2>1. UNCHANGED picture
    BY <1>12 DEF Tap
  <2>. QED BY <2>1 DEF PictureInv
<1>13. ASSUME NEW d \in Call, CallRuns(d) PROVE PictureInv'
  <2>1. CASE ChecksCap(d)
    <3>1. UNCHANGED picture
      BY <2>1 DEF ChecksCap
    <3>. QED BY <3>1 DEF PictureInv
  <2>2. CASE Invokes(d)
    <3>1. UNCHANGED picture
      BY <2>2 DEF Invokes
    <3>. QED BY <3>1 DEF PictureInv
  <2>3. CASE Expires(d)
    <3>1. UNCHANGED picture
      BY <2>3 DEF Expires
    <3>. QED BY <3>1 DEF PictureInv
  <2>4. CASE SetsPin(d)
    <3>1. UNCHANGED picture
      BY <2>4 DEF SetsPin
    <3>. QED BY <3>1 DEF PictureInv
  <2>. QED BY <1>13, <2>1, <2>2, <2>3, <2>4 DEF CallRuns
<1>14. CASE UNCHANGED vars
  <2>1. UNCHANGED picture
    BY <1>14
  <2>. QED BY <2>1 DEF PictureInv
<1>. QED BY <1>1, <1>2, <1>3, <1>4, <1>5, <1>6, <1>7, <1>8, <1>9, <1>10, <1>11, <1>12, <1>13, <1>14 DEF Next

\* Every step keeps it known what the session was told.
LEMMA ToldStep ==
    ASSUME ToldInv, [Next]_vars
    PROVE  ToldInv'
<1> USE DEF ToldInv, serverVars, wireVars, connVars, loopVars, sessVars, callVars, histVars, vars
<1>1. ASSUME NEW w \in Window, NEW ws \in Workspace \cup {None}, WindowMoves(w, ws) PROVE ToldInv'
  BY <1>1 DEF WindowMoves
<1>2. ASSUME NEW ws \in Workspace, WorkspaceCloses(ws) PROVE ToldInv'
  BY <1>2 DEF WorkspaceCloses
<1>3. ASSUME NEW ok \in BOOLEAN, ServerExecutes(ok) PROVE ToldInv'
  BY <1>3 DEF ServerExecutes
<1>4. ASSUME NEW a \in BOOLEAN, Attach(a) PROVE ToldInv'
  BY <1>4 DEF Attach, ResetForNewSocket
<1>5. CASE SocketDies
  BY <1>5 DEF SocketDies
<1>6. CASE LoopCarries
  BY <1>6 DEF LoopCarries, Carried
<1>7. CASE Draw
  BY <1>7 DEF Draw
<1>8. CASE OnWelcome
  BY <1>8 DEF OnWelcome, Received
<1>9. CASE OnLayout
  BY <1>9 DEF OnLayout, Received
<1>10. CASE OnClients
  BY <1>10 DEF OnClients, Received
<1>11. CASE OnResult
  BY <1>11 DEF OnResult, Received
<1>12. ASSUME NEW c \in Call, NEW p \in Pin, Tap(c, p) PROVE ToldInv'
  BY <1>12 DEF Tap
<1>13. ASSUME NEW c \in Call, CallRuns(c) PROVE ToldInv'
  <2>1. CASE ChecksCap(c)
    BY <2>1 DEF ChecksCap, HasWindowCap, Welcomed
  <2>2. CASE Invokes(c)
    BY <2>2 DEF Invokes
  <2>3. CASE Expires(c)
    BY <2>3 DEF Expires
  <2>4. CASE SetsPin(c)
    BY <2>4 DEF SetsPin, PinsWhenAcked
  <2>. QED BY <1>13, <2>1, <2>2, <2>3, <2>4 DEF CallRuns
<1>14. CASE UNCHANGED vars
  BY <1>14 DEF vars
<1>. QED BY <1>1, <1>2, <1>3, <1>4, <1>5, <1>6, <1>7, <1>8, <1>9, <1>10, <1>11, <1>12, <1>13, <1>14 DEF Next

\* With everything folded the screen is the server's picture.
LEMMA PictureShown ==
    ASSUME TypeOK, PictureInv, up, down = <<>>
    PROVE  LET v == View(viewPin, exists, shows)
           IN  /\ ViewWorkspace = v
               /\ DesktopWindows = Open(shows)
               /\ FollowedWindows = {w \in Window : shows[w] = v}
               /\ ViewWithoutWindow = IF \E w \in Window : shows[w] = v THEN None ELSE v
<1> DEFINE v == View(viewPin, exists, shows)
<1> USE NamesAssumption
<1>1. v \in Workspace /\ v # None
  BY ViewIsThere DEF TypeOK
<1>2. \A m : ~Latest(down, m)
  <2>1. Len(<<>>) = 0
    OBVIOUS
  <2>. QED BY <2>1 DEF Latest
<1>3. layout = v /\ clients = [w \in Window \cup {Phone} |-> IF w = Phone THEN v ELSE shows[w]]
  BY <1>2 DEF PictureInv, Layout, Clients
<1> HIDE DEF v
<1>4. clients # NoCensus /\ \A w \in Window : clients[w] = shows[w]
  <2>1. Phone \in DOMAIN clients
    BY <1>3
  <2>2. Phone \notin DOMAIN <<>>
    OBVIOUS
  <2>. QED BY <1>3, <2>1, <2>2 DEF NoCensus
<1>5. DesktopWindows = Open(shows)
  BY <1>4 DEF DesktopWindows, Open
<1>6. FollowedWindows = {w \in Window : shows[w] = v}
  BY <1>1, <1>3, <1>4 DEF DesktopWindows, FollowedWindows, ViewWorkspace
<1>7. ViewWithoutWindow = IF \E w \in Window : shows[w] = v THEN None ELSE v
  BY <1>1, <1>3, <1>4, <1>6 DEF ViewWithoutWindow, ViewWorkspace
<1>. QED BY <1>3, <1>5, <1>6, <1>7 DEF ViewWorkspace, v

\* The commands named on the wires.
LEMMA Named ==
    ASSUME TypeOK
    PROVE  /\ \A i \in 1..Len(upward) : upward[i] \in Call
           /\ \A i \in Results : i \in 1..Len(down) /\ down[i].t = "result" /\ down[i].call \in Call /\ down[i].ok \in BOOLEAN
<1>1. \A i \in 1..Len(upward) : upward[i] \in Call
  BY ElementOfSeq DEF TypeOK
<1>2. ASSUME NEW i \in Results PROVE i \in 1..Len(down) /\ down[i].t = "result" /\ down[i] \in Message
  BY OnWire DEF TypeOK, Results
<1>. QED BY <1>1, <1>2, MessageFields

\* A step that moves no command keeps PinInv, if the results stay as they are
\* or move up.
LEMMA SamePin ==
    ASSUME TypeOK, PinInv,
           UNCHANGED <<upward, viewPin, pinned, workspace, sock, up, dialling, hasty, pc, on, ask>>,
           \/ Results' = Results /\ \A i \in Results : down'[i] = down[i]
           \/ /\ \A i \in Results' : i + 1 \in Results /\ i \in Nat /\ down'[i] = down[i + 1]
              /\ \A i \in Results : i - 1 \in Results' /\ i \in Nat /\ down'[i - 1] = down[i]
    PROVE  PinInv'
<1> SUFFICES ASSUME ~hasty' PROVE PinInv'
  BY DEF PinInv
<1>1. \A c \in Call : (Acked(c)' <=> Acked(c)) /\ (OnItsWay(c)' <=> OnItsWay(c)) /\ (Current(c)' <=> Current(c))
  BY DEF Acked, OnItsWay, Current, Flying
<1>2. \A i \in Results' : \E j \in Results : down'[i] = down[j]
  OBVIOUS
<1>3. \A j \in Results : \E i \in Results' : down'[i] = down[j]
  OBVIOUS
<1>4. (\A i, j \in Results : i = j) => (\A i, j \in Results' : i = j)
  <2>1. CASE Results' = Results
    BY <2>1
  <2>2. CASE \A i \in Results' : i + 1 \in Results /\ i \in Nat
    BY <2>2
  <2>. QED BY <2>1, <2>2
<1>5. \A i \in Results : down[i].call \in Call
  BY Named
<1>6. \A i \in Results' : OnItsWay(down[i].call)'
  <2>1. SUFFICES ASSUME NEW i \in Results' PROVE OnItsWay(down[i].call)'
    OBVIOUS
  <2>2. PICK j \in Results : down'[i] = down[j]
    BY <1>2
  <2>3. OnItsWay(down[j].call)
    BY DEF PinInv
  <2>. QED BY <2>2, <2>3 DEF OnItsWay
<1>7. \A i \in 1..Len(upward') : OnItsWay(upward[i])'
  BY DEF PinInv, OnItsWay
<1>8. \A i \in Results' : down'[i].ok => viewPin' = ask'[down'[i].call]
  BY <1>2 DEF PinInv
<1>9. \/ sock' = 0
      \/ \E i \in Results' : down'[i].ok
      \/ \E c \in Call : Acked(c)'
      \/ viewPin' = pinned'[sock']
  <2>1. CASE \E j \in Results : down[j].ok
    BY <2>1, <1>3
  <2>2. CASE ~\E j \in Results : down[j].ok
    BY <2>2, <1>1 DEF PinInv
  <2>. QED BY <2>1, <2>2
<1>10. ~hasty /\ UNCHANGED <<upward, viewPin, sock, up, dialling, workspace, ask>>
  OBVIOUS
<1>11. /\ \A c, d \in Call : Current(c)' /\ Current(d)' => c = d
       /\ Len(upward') <= 1 /\ (upward' # <<>> => Results' = {})
       /\ \A i, j \in Results' : i = j
       /\ \A c \in Call : Acked(c)' => viewPin' = ask'[c]
       /\ ~up' => \A c \in Call : ~Acked(c)' /\ ~OnItsWay(c)'
       /\ dialling' /\ sock' # 0 => workspace' = viewPin'
  BY <1>1, <1>2, <1>4, <1>10 DEF PinInv
<1>. QED BY <1>6, <1>7, <1>8, <1>9, <1>11 DEF PinInv

\* A message that is no result leaves the results behind it in their order.
LEMMA OtherTaken ==
    ASSUME TypeOK, NEW t, Received(t), t # "result"
    PROVE  /\ \A i \in Results' : i + 1 \in Results /\ i \in Nat /\ down'[i] = down[i + 1]
           /\ \A i \in Results : i - 1 \in Results' /\ i \in Nat /\ down'[i - 1] = down[i]
<1>1. /\ down \in Seq(Message) /\ down # <<>> /\ down' = Tail(down)
      /\ down[1].t # "result" /\ Len(down) \in Nat /\ Len(down) = Len(down') + 1 /\ Len(down') \in Nat
      /\ \A i \in 1..Len(down') : i + 1 \in 1..Len(down) /\ down'[i] = down[i + 1]
  BY Received1, Taken DEF TypeOK
<1>2. \A i \in Results' : i + 1 \in Results /\ i \in Nat /\ down'[i] = down[i + 1]
  BY <1>1 DEF Results
<1>3. ASSUME NEW i \in Results PROVE i - 1 \in Results' /\ i \in Nat /\ down'[i - 1] = down[i]
  <2>1. i \in 1..Len(down) /\ i # 1 /\ down[i].t = "result"
    BY <1>1, <1>3 DEF Results
  <2>2. i - 1 \in 1..Len(down') /\ (i - 1) + 1 = i /\ i \in Nat
    BY <1>1, <2>1
  <2>3. down'[i - 1] = down[i]
    BY <1>1, <2>2
  <2>. QED BY <2>1, <2>2, <2>3 DEF Results
<1>. QED BY <1>2, <1>3

\* A step that lets no command onto the wires or off them keeps PinInv, though
\* a command that has not been sent may return.
LEMMA KeepsPlaces ==
    ASSUME TypeOK, PinInv,
           UNCHANGED <<down, upward, viewPin, workspace, sock, up, dialling, hasty, ask>>,
           sock # 0 => pinned'[sock] = pinned[sock],
           \A c \in Call : (Current(c)' => Current(c)) /\ (Acked(c)' <=> Acked(c)) /\ (OnItsWay(c)' <=> OnItsWay(c))
    PROVE  PinInv'
<1> SUFFICES ASSUME ~hasty' PROVE PinInv'
  BY DEF PinInv
<1>1. Results' = Results
  BY DEF Results
<1>2. ~hasty
  OBVIOUS
<1>3. \A i \in Results' : OnItsWay(down[i].call)'
  <2>1. SUFFICES ASSUME NEW i \in Results PROVE OnItsWay(down[i].call)'
    BY <1>1
  <2>2. OnItsWay(down[i].call) /\ down[i].call \in Call
    BY <1>2, Named DEF PinInv
  <2>. QED BY <2>2 DEF OnItsWay
<1>4. \A i \in 1..Len(upward') : OnItsWay(upward[i])'
  <2>1. SUFFICES ASSUME NEW i \in 1..Len(upward) PROVE OnItsWay(upward[i])'
    OBVIOUS
  <2>2. OnItsWay(upward[i]) /\ upward[i] \in Call
    BY <1>2, Named DEF PinInv
  <2>. QED BY <2>2 DEF OnItsWay
<1>5. \A a, b \in Call : Current(a)' /\ Current(b)' => a = b
  BY <1>2 DEF PinInv
<1>6. /\ Len(upward') <= 1 /\ (upward' # <<>> => Results' = {})
      /\ \A i, j \in Results' : i = j
      /\ \A i \in Results' : down'[i].ok => viewPin' = ask'[down'[i].call]
      /\ \A c \in Call : Acked(c)' => viewPin' = ask'[c]
      /\ ~up' => \A c \in Call : ~Acked(c)' /\ ~OnItsWay(c)'
      /\ dialling' /\ sock' # 0 => workspace' = viewPin'
  BY <1>1, <1>2 DEF PinInv
<1>7. \/ sock' = 0
      \/ \E i \in Results' : down'[i].ok
      \/ \E c \in Call : Acked(c)'
      \/ viewPin' = pinned'[sock']
  BY <1>1, <1>2 DEF PinInv
<1>. QED BY <1>3, <1>4, <1>5, <1>6, <1>7 DEF PinInv

\* Every step keeps the pin of a person who waits for each answer on its way.
LEMMA PinStep ==
    ASSUME TypeOK, WireInv, CapInv, UnwelcomedInv, PinInv, [Next]_vars
    PROVE  PinInv'
<1> USE NamesAssumption, SocketAssumption DEF Socket, serverVars, wireVars, connVars, loopVars, sessVars, callVars, histVars, vars
<1>1. ASSUME NEW w \in Window, NEW ws \in Workspace \cup {None}, WindowMoves(w, ws) PROVE PinInv'
  <2>1. \A i \in 1..Len(down') :
          (i \in 1..Len(down) /\ down'[i] = down[i]) \/ down'[i].t \in {"layout", "clients"}
    BY <1>1, MovesSends
  <2>2. \A i \in 1..Len(down) : i \in 1..Len(down') /\ down'[i] = down[i]
    BY <1>1, MovesSends
  <2>3. UNCHANGED <<upward, viewPin, pinned, workspace, sock, up, dialling, hasty, pc, on, ask>>
    BY <1>1 DEF WindowMoves
  <2>4. Results' = Results /\ \A i \in Results : down'[i] = down[i]
    BY <2>1, <2>2 DEF Results
  <2>. QED BY <2>3, <2>4, SamePin
<1>2. ASSUME NEW ws \in Workspace, WorkspaceCloses(ws) PROVE PinInv'
  <2>1. \A i \in 1..Len(down') :
          (i \in 1..Len(down) /\ down'[i] = down[i]) \/ down'[i].t \in {"layout", "clients"}
    BY <1>2, ClosesSends
  <2>2. \A i \in 1..Len(down) : i \in 1..Len(down') /\ down'[i] = down[i]
    BY <1>2, ClosesSends
  <2>3. UNCHANGED <<upward, viewPin, pinned, workspace, sock, up, dialling, hasty, pc, on, ask>>
    BY <1>2 DEF WorkspaceCloses
  <2>4. Results' = Results /\ \A i \in Results : down'[i] = down[i]
    BY <2>1, <2>2 DEF Results
  <2>. QED BY <2>3, <2>4, SamePin
<1>3. ASSUME NEW ok \in BOOLEAN, ServerExecutes(ok) PROVE PinInv'
  <2> DEFINE c == Head(upward)
             r == [t |-> "result", call |-> c, ok |-> ok]
             k == Len(down) + 1
  <2> SUFFICES ASSUME ~hasty' PROVE PinInv'
    BY DEF PinInv
  <2>1. /\ upward # <<>> /\ UNCHANGED <<pinned, workspace, sock, up, dialling, hasty, pc, on, ask>>
        /\ viewPin' = IF ok THEN ask[c] ELSE viewPin
    BY <1>3 DEF ServerExecutes
  <2>2. c \in Call /\ c = upward[1] /\ 1 \in 1..Len(upward) /\ Len(upward) = Len(upward') + 1 /\ Len(upward') \in Nat
    BY <1>3, Executes
  <2>3. OnItsWay(c) /\ Len(upward) <= 1 /\ Results = {}
    BY <2>1, <2>2 DEF PinInv
  <2>4. Len(upward') = 0 /\ upward' = <<>>
    <3>1. Len(upward') = 0
      BY <2>2, <2>3
    <3>2. upward' \in Seq(Call)
      BY <1>3, Executes
    <3>. QED BY <3>1, <3>2, EmptySeq
  <2>5. Results' = {k} /\ down'[k] = r
    <3>1. /\ \A i \in 1..Len(down') :
               \/ i \in 1..Len(down) /\ down'[i] = down[i]
               \/ i = Len(down) + 1
               \/ down'[i].t \in {"layout", "clients"}
          /\ k \in 1..Len(down') /\ down'[k] = r
      BY <1>3, Answers
    <3>2. \A i \in 1..Len(down) : down[i].t # "result"
      BY <2>3 DEF Results
    <3>3. r.t = "result"
      OBVIOUS
    <3> HIDE DEF r, k
    <3>4. \A i \in 1..Len(down') : down'[i].t = "result" => i = k
      BY <3>1, <3>2 DEF k
    <3>. QED BY <3>1, <3>3, <3>4 DEF Results
  <2>6. r.call = c /\ r.ok = ok
    OBVIOUS
  <2> HIDE DEF c, r, k
  <2>7. \A d \in Call : ~Acked(d)
    <3>1. \A d \in Call : Acked(d) => Current(d)
      BY DEF Acked, Current, Flying
    <3>2. Current(c)
      BY <2>3 DEF OnItsWay, Current, Flying
    <3>3. ~Acked(c)
      BY <2>3 DEF OnItsWay, Acked
    <3>. QED BY <2>1, <2>2, <3>1, <3>2, <3>3 DEF PinInv
  <2>8. sock = 0 \/ viewPin = pinned[sock]
    BY <2>1, <2>3, <2>7 DEF PinInv
  <2>9. \A d \in Call : Acked(d)' <=> Acked(d)
    BY <2>1 DEF Acked
  <2>10. \A d \in Call : OnItsWay(d)' <=> OnItsWay(d)
    BY <2>1 DEF OnItsWay
  <2>11. \A d \in Call : Current(d)' <=> Current(d)
    BY <2>1 DEF Current, Flying
  <2>12. up /\ ~dialling
    BY <2>1 DEF WireInv
  <2>13. ok => viewPin' = ask'[c]
    BY <2>1
  <2>14. ~ok => sock' = 0 \/ viewPin' = pinned'[sock']
    BY <2>1, <2>8
  <2>15. \A i \in Results' : down'[i].call = c /\ down'[i].ok = ok /\ i = k
    BY <2>5, <2>6
  <2>16. k \in Results'
    BY <2>5
  <2>17. ~hasty /\ \A a, b \in Call : Current(a) /\ Current(b) => a = b
    BY <2>1 DEF PinInv
  <2>18. /\ \A a, b \in Call : Current(a)' /\ Current(b)' => a = b
         /\ \A i \in 1..Len(upward') : OnItsWay(upward[i])'
         /\ \A i \in Results' : OnItsWay(down[i].call)'
         /\ Len(upward') <= 1 /\ upward' = <<>>
         /\ \A i, j \in Results' : i = j
    <3>1. \A i \in Results' : OnItsWay(down[i].call)'
      BY <2>1, <2>3, <2>15 DEF OnItsWay
    <3>. QED BY <2>4, <2>11, <2>15, <2>17, <3>1
  <2>19. /\ \A i \in Results' : down'[i].ok => viewPin' = ask'[down'[i].call]
         /\ \A d \in Call : Acked(d)' => viewPin' = ask'[d]
         /\ \/ sock' = 0
            \/ \E i \in Results' : down'[i].ok
            \/ viewPin' = pinned'[sock']
         /\ up' /\ ~dialling'
    BY <2>1, <2>7, <2>9, <2>12, <2>13, <2>14, <2>15, <2>16
  <2>. QED BY <2>18, <2>19 DEF PinInv
<1>4. ASSUME NEW a \in BOOLEAN, Attach(a) PROVE PinInv'
  <2> SUFFICES ASSUME ~hasty' PROVE PinInv'
    BY DEF PinInv
  <2>1. \A i \in 1..Len(down') :
          down'[i] = [t |-> "welcome", able |-> a] \/ down'[i].t \in {"layout", "clients"}
    BY <1>4, StartsWith
  <2>2. Results' = {}
    BY <2>1 DEF Results
  <2>3. /\ upward' = <<>> /\ Len(<<>>) = 0 /\ sock' = sock + 1 /\ sock' \in Socket /\ up' /\ ~dialling'
        /\ viewPin' = workspace /\ pinned' = [pinned EXCEPT ![sock'] = workspace] /\ UNCHANGED <<pc, on>>
    BY <1>4 DEF Attach, InitWorkspace, TypeOK
  <2>4. viewPin' = pinned'[sock']
    BY <2>3 DEF TypeOK
  <2>5. \A c \in Call : pc[c] # "idle" => on[c] # sock'
    BY <2>3 DEF WireInv, TypeOK
  <2>6. \A c \in Call : ~Current(c)' /\ ~Acked(c)'
    BY <2>3, <2>5 DEF Current, Flying, Acked
  <2>. QED BY <2>2, <2>3, <2>4, <2>6 DEF PinInv
<1>5. CASE SocketDies
  <2> SUFFICES ASSUME ~hasty' PROVE PinInv'
    BY DEF PinInv
  <2>1. /\ down' = <<>> /\ upward' = <<>> /\ Len(<<>>) = 0 /\ ~up' /\ ~dialling'
        /\ UNCHANGED <<viewPin, sock, pinned, workspace, on, ask>>
    BY <1>5 DEF SocketDies, WireInv
  <2>2. ~hasty /\ \A c \in Call : pc[c] \notin {"sent", "acked"}
    BY <1>5 DEF SocketDies, TypeOK
  <2>3. pc' = pc
    BY <1>5, <2>2 DEF SocketDies, TypeOK
  <2>4. Results' = {}
    BY <2>1 DEF Results
  <2>5. \A i \in Results : down[i].call \in Call
    BY Named
  <2>6. Results = {}
    BY <2>2, <2>5 DEF PinInv, OnItsWay
  <2>7. sock = 0 \/ viewPin = pinned[sock]
    BY <2>2, <2>6 DEF PinInv, Acked
  <2>8. \A c \in Call : (Current(c)' <=> Current(c)) /\ ~Acked(c)' /\ ~OnItsWay(c)'
    BY <2>1, <2>2, <2>3 DEF Current, Flying, Acked, OnItsWay
  <2>9. \A a, b \in Call : Current(a)' /\ Current(b)' => a = b
    BY <2>2, <2>8 DEF PinInv
  <2>. QED BY <2>1, <2>4, <2>7, <2>8, <2>9 DEF PinInv
<1>6. CASE LoopCarries
  <2> SUFFICES ASSUME ~hasty' PROVE PinInv'
    BY DEF PinInv
  <2>1. /\ ~up /\ ~dialling /\ sock # 0 /\ UNCHANGED <<down, upward, viewPin, pinned, sock, up, hasty, pc, on, ask>>
        /\ workspace' = Carried
    BY <1>6 DEF LoopCarries, WireInv
  <2>2. ~hasty /\ \A c \in Call : ~Acked(c) /\ ~OnItsWay(c)
    BY <2>1 DEF PinInv
  <2>3. Results = {} /\ Results' = {}
    <3>1. down = <<>> /\ Len(<<>>) = 0
      BY <2>1 DEF WireInv
    <3>. QED BY <2>1, <3>1 DEF Results
  <2>4. viewPin = pinned[sock]
    BY <2>1, <2>2, <2>3 DEF PinInv
  <2>5. workspace' = viewPin
    BY <2>1, <2>4 DEF Carried, UnwelcomedInv
  <2>6. \A c \in Call : (Current(c)' <=> Current(c)) /\ ~Acked(c)' /\ ~OnItsWay(c)'
    BY <2>1, <2>2 DEF Current, Flying, Acked, OnItsWay
  <2>7. \A a, b \in Call : Current(a)' /\ Current(b)' => a = b
    BY <2>2, <2>6 DEF PinInv
  <2>8. upward' = <<>> /\ Len(<<>>) = 0
    BY <2>1 DEF WireInv
  <2>. QED BY <2>1, <2>3, <2>4, <2>5, <2>6, <2>7, <2>8 DEF PinInv
<1>7. CASE Draw
  <2>1. UNCHANGED <<down, upward, viewPin, pinned, workspace, sock, up, dialling, hasty, pc, on, ask>>
    BY <1>7 DEF Draw
  <2>2. Results' = Results
    BY <2>1 DEF Results
  <2>. QED BY <2>1, <2>2, SamePin
<1>8. CASE OnWelcome
  <2>1. UNCHANGED <<upward, viewPin, pinned, workspace, sock, up, dialling, hasty, pc, on, ask>>
    BY <1>8 DEF OnWelcome
  <2>2. Received("welcome")
    BY <1>8 DEF OnWelcome
  <2>. QED BY <2>1, <2>2, OtherTaken, SamePin
<1>9. CASE OnLayout
  <2>1. UNCHANGED <<upward, viewPin, pinned, workspace, sock, up, dialling, hasty, pc, on, ask>>
    BY <1>9 DEF OnLayout
  <2>2. Received("layout")
    BY <1>9 DEF OnLayout
  <2>. QED BY <2>1, <2>2, OtherTaken, SamePin
<1>10. CASE OnClients
  <2>1. UNCHANGED <<upward, viewPin, pinned, workspace, sock, up, dialling, hasty, pc, on, ask>>
    BY <1>10 DEF OnClients
  <2>2. Received("clients")
    BY <1>10 DEF OnClients
  <2>. QED BY <2>1, <2>2, OtherTaken, SamePin
<1>11. CASE OnResult
  <2> DEFINE m == Head(down)
  <2> SUFFICES ASSUME ~hasty' PROVE PinInv'
    BY DEF PinInv
  <2>1. UNCHANGED <<upward, viewPin, pinned, workspace, sock, up, dialling, hasty, on, ask>> /\ up
    BY <1>11 DEF OnResult, Received, WireInv
  <2>2. m = down[1] /\ 1 \in 1..Len(down) /\ m.t = "result" /\ 1 \in Results
        /\ \A i \in 1..Len(down') : i + 1 \in 1..Len(down) /\ down'[i] = down[i + 1]
    BY <1>11, Received1 DEF OnResult, Results
  <2>3. m.call \in Call /\ m.ok \in BOOLEAN
    BY <2>2, Named
  <2>0. PICK c \in Call : c = m.call
    BY <2>3
  <2>4. OnItsWay(c) /\ Results = {1} /\ upward = <<>>
    <3>1. OnItsWay(c)
      BY <2>0, <2>1, <2>2 DEF PinInv
    <3>2. \A i \in Results : i = 1
      BY <2>1, <2>2 DEF PinInv
    <3>3. upward # <<>> => Results = {}
      BY <2>1 DEF PinInv
    <3>. QED BY <2>2, <3>1, <3>2, <3>3
  <2>5. Results' = {}
    <3> SUFFICES ASSUME NEW i \in 1..Len(down'), down'[i].t = "result" PROVE FALSE
      BY DEF Results
    <3>1. i + 1 \in Results
      BY <2>2 DEF Results
    <3>2. i + 1 = 1
      BY <2>4, <3>1
    <3>. QED BY <3>2
  <2>6. pc' = [pc EXCEPT ![c] = IF m.ok THEN "acked" ELSE "returned"]
    BY <1>11, <2>0, <2>4 DEF OnResult, OnItsWay
  <2> HIDE DEF m
  <2>7. Current(c) /\ ~Acked(c)
    BY <2>4 DEF OnItsWay, Current, Flying, Acked
  <2>8. \A d \in Call : d # c => pc'[d] = pc[d]
    BY <2>6 DEF TypeOK
  <2>9. pc'[c] = IF m.ok THEN "acked" ELSE "returned"
    BY <2>3, <2>6 DEF TypeOK
  <2>10. \A d \in Call : Current(d) => d = c
    BY <2>1, <2>3, <2>7 DEF PinInv
  <2>11. \A d \in Call : Current(d)' => d = c
    BY <2>1, <2>8, <2>10 DEF Current, Flying
  <2>12. \A d \in Call : Acked(d)' => d = c /\ m.ok
    BY <2>1, <2>9, <2>11 DEF Acked, Current, Flying
  <2>13. m.ok => viewPin = ask[c] /\ Acked(c)'
    <3>1. m.ok => viewPin = ask[c]
      BY <2>0, <2>1, <2>2 DEF PinInv
    <3>2. m.ok => Acked(c)'
      BY <2>1, <2>4, <2>9 DEF Acked, OnItsWay
    <3>. QED BY <3>1, <3>2
  <2>14. ~m.ok => sock = 0 \/ viewPin = pinned[sock]
    <3>1. \A d \in Call : ~Acked(d)
      BY <2>7, <2>10 DEF Acked, Current, Flying
    <3>2. \A i \in Results : down[i] = m
      BY <2>2, <2>4
    <3>. QED BY <2>1, <3>1, <3>2 DEF PinInv
  <2>15. /\ \A a, b \in Call : Current(a)' /\ Current(b)' => a = b
         /\ upward' = <<>> /\ Len(<<>>) = 0
    BY <2>1, <2>4, <2>11
  <2>16. \A d \in Call : Acked(d)' => viewPin' = ask'[d]
    BY <2>1, <2>12, <2>13
  <2>17. \/ sock' = 0
         \/ \E d \in Call : Acked(d)'
         \/ viewPin' = pinned'[sock']
    BY <2>1, <2>3, <2>13, <2>14
  <2>18. up' /\ ~dialling'
    BY <2>1 DEF WireInv
  <2>. QED BY <2>5, <2>15, <2>16, <2>17, <2>18 DEF PinInv
<1>12. ASSUME NEW c \in Call, NEW p \in Pin, Tap(c, p) PROVE PinInv'
  <2> SUFFICES ASSUME ~hasty' PROVE PinInv'
    BY DEF PinInv
  <2>1. /\ UNCHANGED <<down, upward, viewPin, pinned, workspace, sock, up, dialling>> /\ up
        /\ pc[c] = "idle" /\ pc' = [pc EXCEPT ![c] = "check"] /\ on' = [on EXCEPT ![c] = sock]
        /\ ask' = [ask EXCEPT ![c] = p]
    BY <1>12 DEF Tap
  <2>2. hasty' = (hasty \/ \E d \in Call : Flying(d))
    BY <1>12 DEF Tap
  <2>3. ~hasty /\ \A d \in Call : ~Flying(d)
    BY <2>2
  <2>4. \A d \in Call : d # c => pc'[d] = pc[d] /\ on'[d] = on[d]
    BY <2>1 DEF TypeOK
  <2>5. pc'[c] = "check"
    BY <2>1 DEF TypeOK
  <2>6. \A d \in Call : Current(d)' => d = c
    BY <2>3, <2>4 DEF Current, Flying
  <2>7. \A d \in Call : ~Acked(d)' /\ ~Acked(d) /\ ~OnItsWay(d)
    BY <2>3, <2>4, <2>5 DEF Acked, OnItsWay, Flying
  <2>8. Results = {} /\ \A i \in 1..Len(upward) : FALSE
    <3>1. \A i \in Results : OnItsWay(down[i].call) /\ down[i].call \in Call
      BY <2>3, Named DEF PinInv
    <3>2. \A i \in 1..Len(upward) : OnItsWay(upward[i]) /\ upward[i] \in Call
      BY <2>3, Named DEF PinInv
    <3>. QED BY <2>7, <3>1, <3>2
  <2>9. Results' = {}
    BY <2>1, <2>8 DEF Results
  <2>10. Len(upward) <= 1 /\ (sock = 0 \/ viewPin = pinned[sock])
    BY <2>3, <2>7, <2>8 DEF PinInv
  <2>11. up' /\ ~dialling'
    BY <2>1 DEF WireInv
  <2>12. \A i \in 1..Len(upward') : OnItsWay(upward[i])'
    BY <2>1, <2>8
  <2>13. \A a, b \in Call : Current(a)' /\ Current(b)' => a = b
    BY <2>6
  <2>. QED BY <2>1, <2>7, <2>9, <2>10, <2>11, <2>12, <2>13 DEF PinInv
<1>13. ASSUME NEW c \in Call, CallRuns(c) PROVE PinInv'
  <2>1. CASE ChecksCap(c)
    <3> SUFFICES ASSUME ~hasty' PROVE PinInv'
      BY DEF PinInv
    <3>1. UNCHANGED <<down, upward, viewPin, pinned, workspace, sock, up, dialling, hasty, on, ask>>
      BY <2>1 DEF ChecksCap
    <3>2. pc[c] = "check" /\ pc' = [pc EXCEPT ![c] = IF HasWindowCap(c) THEN "invoke" ELSE "returned"]
      BY <2>1 DEF ChecksCap
    <3>3. (\A d \in Call : d # c => pc'[d] = pc[d]) /\ pc'[c] \in {"invoke", "returned"}
      BY <3>2 DEF TypeOK
    <3>4. \A d \in Call : (Current(d)' => Current(d)) /\ (Acked(d)' <=> Acked(d)) /\ (OnItsWay(d)' <=> OnItsWay(d))
      BY <3>1, <3>2, <3>3 DEF Current, Flying, Acked, OnItsWay
    <3>. QED BY <3>1, <3>4, KeepsPlaces
  <2>2. CASE Invokes(c)
    <3> SUFFICES ASSUME ~hasty' PROVE PinInv'
      BY DEF PinInv
    <3>1. UNCHANGED <<down, viewPin, pinned, workspace, sock, up, dialling, hasty, on, ask>> /\ pc[c] = "invoke"
      BY <2>2 DEF Invokes
    <3>2. CASE ~(up /\ on[c] = sock)
      <4>1. pc' = [pc EXCEPT ![c] = "returned"] /\ UNCHANGED upward
        BY <2>2, <3>2 DEF Invokes
      <4>2. (\A d \in Call : d # c => pc'[d] = pc[d]) /\ pc'[c] = "returned"
        BY <4>1 DEF TypeOK
      <4>3. \A d \in Call : (Current(d)' => Current(d)) /\ (Acked(d)' <=> Acked(d)) /\ (OnItsWay(d)' <=> OnItsWay(d))
        BY <3>1, <4>2 DEF Current, Flying, Acked, OnItsWay
      <4>. QED BY <3>1, <4>1, <4>3, KeepsPlaces
    <3>3. CASE up /\ on[c] = sock
      <4>1. pc' = [pc EXCEPT ![c] = "sent"] /\ upward' = Append(upward, c)
        BY <2>2, <3>3 DEF Invokes
      <4>2. (\A d \in Call : d # c => pc'[d] = pc[d]) /\ pc'[c] = "sent"
        BY <4>1 DEF TypeOK
      <4>3. ~hasty /\ Current(c) /\ ~Acked(c) /\ ~OnItsWay(c)
        BY <3>1, <3>3 DEF Current, Flying, Acked, OnItsWay
      <4>4. \A d \in Call : Current(d) => d = c
        BY <4>3 DEF PinInv
      <4>5. \A d \in Call : ~Acked(d) /\ ~OnItsWay(d) /\ (Current(d)' => d = c) /\ ~Acked(d)'
        BY <3>1, <4>2, <4>3, <4>4 DEF Current, Flying, Acked, OnItsWay
      <4>6. OnItsWay(c)'
        BY <3>1, <3>3, <4>2 DEF OnItsWay
      <4>7. Results = {} /\ \A i \in 1..Len(upward) : FALSE
        <5>1. \A i \in Results : OnItsWay(down[i].call) /\ down[i].call \in Call
          BY <4>3, Named DEF PinInv
        <5>2. \A i \in 1..Len(upward) : OnItsWay(upward[i]) /\ upward[i] \in Call
          BY <4>3, Named DEF PinInv
        <5>. QED BY <4>5, <5>1, <5>2
      <4>8. Results' = {}
        BY <3>1, <4>7 DEF Results
      <4>9. Len(upward') = 1 /\ upward'[1] = c
        <5>1. Len(upward) = 0
          <6>1. Len(upward) \in Nat
            BY LenProperties DEF TypeOK
          <6>2. ~(1 \in 1..Len(upward))
            BY <4>7
          <6>. QED BY <6>1, <6>2
        <5>. QED BY <4>1, <5>1 DEF TypeOK
      <4>10. \A i \in 1..Len(upward') : OnItsWay(upward[i])'
        <5>1. \A i \in 1..Len(upward') : upward'[i] = c
          BY <4>9
        <5>. QED BY <4>6, <5>1 DEF OnItsWay
      <4>11. sock = 0 \/ viewPin = pinned[sock]
        BY <4>3, <4>5, <4>7 DEF PinInv
      <4>12. up' /\ ~dialling'
        BY <3>1, <3>3 DEF WireInv
      <4>13. Len(upward') <= 1
        BY <4>9
      <4>14. \A a, b \in Call : Current(a)' /\ Current(b)' => a = b
        BY <4>5
      <4>. QED BY <3>1, <4>5, <4>8, <4>10, <4>11, <4>12, <4>13, <4>14 DEF PinInv
    <3>. QED BY <3>2, <3>3
  <2>3. CASE Expires(c)
    <3> SUFFICES ASSUME ~hasty' PROVE PinInv'
      BY DEF PinInv
    <3>1. FALSE
      BY <2>3 DEF Expires
    <3>. QED BY <3>1
  <2>4. CASE SetsPin(c)
    <3> SUFFICES ASSUME ~hasty' PROVE PinInv'
      BY DEF PinInv
    <3>1. /\ UNCHANGED <<down, upward, viewPin, workspace, sock, up, dialling, hasty, on, ask>> /\ pc[c] = "acked"
          /\ pc' = [pc EXCEPT ![c] = "returned"] /\ pinned' = [pinned EXCEPT ![on[c]] = ask[c]]
      BY <2>4 DEF SetsPin, PinsWhenAcked
    <3>2. (\A d \in Call : d # c => pc'[d] = pc[d]) /\ pc'[c] = "returned"
      BY <3>1 DEF TypeOK
    <3>3. on[c] \in Socket /\ on[c] <= sock
      BY <3>1 DEF WireInv, TypeOK
    <3>4. \A d \in Call : (Current(d)' => Current(d) /\ d # c) /\ (OnItsWay(d)' <=> OnItsWay(d))
                          /\ (d # c => (Acked(d)' <=> Acked(d))) /\ ~Acked(c)'
      BY <3>1, <3>2 DEF Current, Flying, Acked, OnItsWay
    <3>5. CASE on[c] # sock
      <4>1. ~Acked(c)
        BY <3>5 DEF Acked
      <4>2. \A d \in Call : Acked(d)' <=> Acked(d)
        BY <3>4, <4>1
      <4>3. sock # 0 => pinned'[sock] = pinned[sock]
        BY <3>1, <3>3, <3>5 DEF TypeOK
      <4>. QED BY <3>1, <3>4, <4>2, <4>3, KeepsPlaces
    <3>6. CASE on[c] = sock
      <4>1. ~hasty /\ Acked(c) /\ Current(c) /\ ~OnItsWay(c)
        BY <3>1, <3>6 DEF Acked, Current, Flying, OnItsWay
      <4>2. \A d \in Call : Current(d) => d = c
        BY <4>1 DEF PinInv
      <4>3. \A d \in Call : ~Current(d)' /\ ~Acked(d)' /\ ~OnItsWay(d) /\ ~OnItsWay(d)'
        BY <3>4, <4>1, <4>2 DEF Current, Flying, Acked, OnItsWay
      <4>4. viewPin = ask[c]
        BY <4>1 DEF PinInv
      <4>5. viewPin' = pinned'[sock']
        BY <3>1, <3>3, <3>6, <4>4 DEF TypeOK
      <4>6. Results = {} /\ \A i \in 1..Len(upward) : FALSE
        <5>1. \A i \in Results : OnItsWay(down[i].call) /\ down[i].call \in Call
          BY <4>1, Named DEF PinInv
        <5>2. \A i \in 1..Len(upward) : OnItsWay(upward[i]) /\ upward[i] \in Call
          BY <4>1, Named DEF PinInv
        <5>. QED BY <4>3, <5>1, <5>2
      <4>7. Results' = {} /\ \A i \in 1..Len(upward') : FALSE
        BY <3>1, <4>6 DEF Results
      <4>8. Len(upward) <= 1
        BY <4>1 DEF PinInv
      <4>9. up \/ ~Acked(c)
        BY <4>1 DEF PinInv
      <4>10. ~dialling'
        BY <3>1, <4>1, <4>9 DEF WireInv
      <4>. QED BY <3>1, <4>3, <4>5, <4>7, <4>8, <4>10 DEF PinInv
    <3>. QED BY <3>5, <3>6
  <2>. QED BY <1>13, <2>1, <2>2, <2>3, <2>4 DEF CallRuns
<1>14. CASE UNCHANGED vars
  <2>1. UNCHANGED <<down, upward, viewPin, pinned, workspace, sock, up, dialling, hasty, pc, on, ask>>
    BY <1>14
  <2>2. Results' = Results
    BY <2>1 DEF Results
  <2>. QED BY <2>1, <2>2, SamePin
<1>. QED BY <1>1, <1>2, <1>3, <1>4, <1>5, <1>6, <1>7, <1>8, <1>9, <1>10, <1>11, <1>12, <1>13, <1>14 DEF Next

\* Every step keeps the pin of a Conn that is not welcomed yet.
LEMMA UnwelcomedStep ==
    ASSUME TypeOK, WireInv, CapInv, UnwelcomedInv, [Next]_vars
    PROVE  UnwelcomedInv'
<1> USE DEF UnwelcomedInv, serverVars, wireVars, connVars, loopVars, sessVars, callVars, histVars, vars
<1>1. ASSUME NEW w \in Window, NEW ws \in Workspace \cup {None}, WindowMoves(w, ws) PROVE UnwelcomedInv'
  BY <1>1 DEF WindowMoves
<1>2. ASSUME NEW ws \in Workspace, WorkspaceCloses(ws) PROVE UnwelcomedInv'
  BY <1>2 DEF WorkspaceCloses
<1>3. ASSUME NEW ok \in BOOLEAN, ServerExecutes(ok) PROVE UnwelcomedInv'
  <2>1. welcomed[sock] /\ UNCHANGED <<welcomed, sock>>
    BY <1>3 DEF ServerExecutes, CapInv
  <2>. QED BY <2>1
<1>4. ASSUME NEW a \in BOOLEAN, Attach(a) PROVE UnwelcomedInv'
  BY <1>4 DEF Attach, InitWorkspace
<1>5. CASE SocketDies
  BY <1>5 DEF SocketDies
<1>6. CASE LoopCarries
  <2>1. UNCHANGED <<sock, welcomed, viewPin>> /\ (~welcomed[sock] => workspace' = workspace)
    BY <1>6 DEF LoopCarries, Carried
  <2>. QED BY <2>1
<1>7. CASE Draw
  BY <1>7 DEF Draw
<1>8. CASE OnWelcome
  <2>1. up /\ UNCHANGED sock /\ welcomed' = [welcomed EXCEPT ![sock] = TRUE]
    BY <1>8 DEF OnWelcome, Received, WireInv
  <2>2. sock \in Socket
    BY <2>1 DEF WireInv, TypeOK, Socket
  <2>3. welcomed'[sock]
    BY <2>1, <2>2 DEF TypeOK
  <2>. QED BY <2>1, <2>3
<1>9. CASE OnLayout
  BY <1>9 DEF OnLayout, Received
<1>10. CASE OnClients
  BY <1>10 DEF OnClients, Received
<1>11. CASE OnResult
  BY <1>11 DEF OnResult, Received
<1>12. ASSUME NEW c \in Call, NEW p \in Pin, Tap(c, p) PROVE UnwelcomedInv'
  BY <1>12 DEF Tap
<1>13. ASSUME NEW c \in Call, CallRuns(c) PROVE UnwelcomedInv'
  <2>1. CASE ChecksCap(c)
    BY <2>1 DEF ChecksCap, HasWindowCap, Welcomed
  <2>2. CASE Invokes(c)
    BY <2>2 DEF Invokes
  <2>3. CASE Expires(c)
    BY <2>3 DEF Expires
  <2>4. CASE SetsPin(c)
    BY <2>4 DEF SetsPin, PinsWhenAcked
  <2>. QED BY <1>13, <2>1, <2>2, <2>3, <2>4 DEF CallRuns
<1>14. CASE UNCHANGED vars
  BY <1>14 DEF vars
<1>. QED BY <1>1, <1>2, <1>3, <1>4, <1>5, <1>6, <1>7, <1>8, <1>9, <1>10, <1>11, <1>12, <1>13, <1>14 DEF Next

-----------------------------------------------------------------------------

\* The inductive invariant holds at the start.
LEMMA Initially == Init => IInv
<1> SUFFICES ASSUME Init PROVE IInv
  OBVIOUS
<1> USE NamesAssumption, SocketAssumption
<1>1. Len(<<>>) = 0 /\ down = <<>> /\ upward = <<>> /\ ~up /\ sock = 0 /\ ~deskMoved
  BY DEF Init
<1>2. TypeOK
  <2>1. <<>> \in Seq(Message) /\ <<>> \in Seq(Call)
    OBVIOUS
  <2>2. /\ exists \in SUBSET Workspace /\ exists # {} /\ shows \in [Window -> exists \cup {None}]
        /\ viewPin \in Pin /\ workspace \in Pin
    BY DEF Init, Pin
  <2>7. able \in BOOLEAN /\ up \in BOOLEAN /\ dialling \in BOOLEAN
    BY DEF Init
  <2>8. sock \in 0..MaxSocket
    BY DEF Init
  <2>3. /\ welcomed \in [Socket -> BOOLEAN] /\ capable \in [Socket -> BOOLEAN] /\ pinned \in [Socket -> Pin]
        /\ layout \in Workspace \cup {None} /\ clients \in Census \cup {<<>>}
    BY DEF Init, Pin, NoCensus
  <2>4. /\ pc \in [Call -> {"idle", "check", "invoke", "sent", "acked", "returned"}]
        /\ on \in [Call -> 0..MaxSocket] /\ ask \in [Call -> Pin]
    BY DEF Init, Pin
  <2>5. /\ drawn \in SUBSET Pin /\ accepted \in SUBSET Pin /\ deskMoved \in BOOLEAN
        /\ told \in SUBSET {"layout", "clients"} /\ hasty \in BOOLEAN
    BY DEF Init
  <2>6. down \in Seq(Message) /\ upward \in Seq(Call)
    BY <2>1 DEF Init
  <2>. QED BY <2>2, <2>3, <2>4, <2>5, <2>6, <2>7, <2>8 DEF TypeOK
<1>3. WireInv
  BY <1>1 DEF Init, WireInv
<1>4. CapInv /\ AcceptedInv /\ PictureInv /\ PinsWereAccepted
  BY <1>1 DEF Init, CapInv, AcceptedInv, PictureInv, PinsWereAccepted
<1>5. ToldInv /\ UnwelcomedInv /\ NeverMovesDesk
  BY <1>1 DEF Init, ToldInv, UnwelcomedInv, NeverMovesDesk
<1>6. PinInv
  <2>1. Results = {}
    BY <1>1 DEF Results
  <2>2. \A c \in Call : pc[c] = "idle"
    BY DEF Init
  <2>. QED BY <1>1, <2>1, <2>2 DEF PinInv, Current, Flying, Acked, OnItsWay
<1>. QED BY <1>2, <1>3, <1>4, <1>5, <1>6 DEF IInv

\* The inductive invariant is kept.
LEMMA Inductive == Spec => []IInv
<1>1. IInv /\ [Next]_vars => IInv'
  BY TypeStep, WireStep, CapStep, AcceptedStep, PictureStep, ToldStep, PinStep, UnwelcomedStep DEF IInv
<1>. QED BY Initially, <1>1, PTL DEF Spec

\* The variables keep their types.
THEOREM TypeCorrect == Spec => []TypeOK
<1>1. IInv => TypeOK
  BY DEF IInv
<1>. QED BY Inductive, <1>1, PTL

\* A viewer never moves the desk, whatever server the redial finds.
THEOREM DeskStays == Spec => []NeverMovesDesk
<1>1. IInv => NeverMovesDesk
  BY DEF IInv
<1>. QED BY Inductive, <1>1, PTL

\* No Conn and no later handshake carries a pin the server has not accepted.
THEOREM PinsAccepted == Spec => []PinsWereAccepted
<1>1. IInv => PinsWereAccepted
  BY DEF IInv
<1>. QED BY Inductive, <1>1, PTL

\* Once everything sent has been folded the screen is the server's picture, and
\* an earlier socket's is never on it.
THEOREM ScreenRight == Spec => []ScreenIsRight
<1>1. IInv => ScreenIsRight
  BY PictureShown DEF IInv, ToldInv, ScreenIsRight, OneSocketsPicture
<1>. QED BY Inductive, <1>1, PTL

\* The next socket asks for the view a person who waits for each answer had.
THEOREM ReturnsToView == Spec => ComesBack
<1>1. IInv /\ [Next]_vars => [sock' # sock /\ sock # 0 /\ ~hasty => viewPin' = viewPin]_vars
  <2> SUFFICES ASSUME IInv, [Next]_vars, sock' # sock, sock # 0, ~hasty PROVE viewPin' = viewPin
    OBVIOUS
  <2>1. \E a \in BOOLEAN : Attach(a)
    BY DEF Next, WindowMoves, WorkspaceCloses, ServerExecutes, SocketDies, LoopCarries, Draw, OnWelcome, OnLayout,
           OnClients, OnResult, Tap, CallRuns, ChecksCap, Invokes, Expires, SetsPin, Received,
           serverVars, wireVars, connVars, loopVars, sessVars, callVars, histVars, vars
  <2>2. dialling /\ viewPin' = workspace
    BY <2>1 DEF Attach, InitWorkspace
  <2>. QED BY <2>2 DEF IInv, PinInv
<1>. QED BY Inductive, <1>1, PTL DEF Spec, ComesBack

=============================================================================
