------------------------------- MODULE Follow -------------------------------
(***************************************************************************)
(* Which desktop window the phone looks through: the follow pin of a Conn  *)
(* (src/internal/catsclient/conn.go), its way from one socket to the next  *)
(* in the reconnect loop (src/app/connection.go), and what the Windows     *)
(* screen shows of it from the census and the layout                       *)
(* (src/internal/catsclient/session.go).                                   *)
(*                                                                         *)
(* Threads: a goroutine for each follow command, the reader, and the loop  *)
(* of one generation; module Connection has the other generations.  catway *)
(* is external: it keeps a view for each connection, resolves a pin it     *)
(* does not know to the primary window, and pushes a layout and a census   *)
(* whenever something changes, in either order.                            *)
(***************************************************************************)
EXTENDS Naturals, Sequences

CONSTANTS
    Workspace,
    Primary,      \* "": follow the primary view
    None,
    Window,       \* the desktop windows
    Call,         \* the follow commands of this generation
    MaxSocket,    \* bound on the sockets
    MaxWire       \* bound on the messages in flight towards the phone

Phone  == "phone"

\* A desk has a workspace, and this phone's entry of a census is no window's.
ASSUME NamesAssumption ==
    /\ Workspace # {} /\ Primary \notin Workspace /\ None \notin Workspace \cup {Primary}
    /\ Phone \notin Window
ASSUME SocketAssumption == MaxSocket \in Nat /\ MaxWire \in Nat

Pin    == Workspace \cup {Primary}
Socket == 1..MaxSocket

\* A census has an entry for each connection; this phone's is one of them.
Census == [Window \cup {Phone} -> Workspace \cup {None}]

VARIABLES
    \* catway, followed while a socket to it is up: the workspaces, what each
    \* window shows (None: it is closed), this connection's pin, and whether
    \* the server has CapWindow
    exists, shows, viewPin, able,
    \* the socket: its number, is it up, the two directions
    sock, up, down, upward,
    \* the Conn of each socket: has it been welcomed, has it CapWindow, its pin
    welcomed, capable, pinned,
    \* run's local variable, and is the loop at its dial
    workspace, dialling,
    \* c.session.Layout (its active workspace) and c.session.Clients
    layout, clients,
    \* the follow commands, and what the last render pass of the Windows
    \* screen offered to tap
    pc, on, ask, drawn,
    \* history: the pins the server said ok to, a focus reached a server that
    \* would move the desk with it, what this socket has pushed, and one
    \* command of this socket overlapped another or was given up
    accepted, deskMoved, told, hasty

serverVars == <<exists, shows, viewPin, able>>
wireVars   == <<sock, up, down, upward>>
connVars   == <<welcomed, capable, pinned>>
loopVars   == <<workspace, dialling>>
sessVars   == <<layout, clients>>
callVars   == <<pc, on, ask, drawn>>
histVars   == <<accepted, deskMoved, told, hasty>>
vars == <<serverVars, wireVars, connVars, loopVars, sessVars, callVars, histVars>>

Message ==
    [t : {"welcome"}, able : BOOLEAN] \cup [t : {"layout"}, active : Workspace]
    \cup [t : {"clients"}, views : Census] \cup [t : {"result"}, call : Call, ok : BOOLEAN]

TypeOK ==
    /\ exists \in SUBSET Workspace /\ exists # {}
    /\ shows \in [Window -> exists \cup {None}]
    /\ viewPin \in Pin /\ able \in BOOLEAN
    /\ sock \in 0..MaxSocket /\ up \in BOOLEAN
    /\ down \in Seq(Message) /\ upward \in Seq(Call)
    /\ welcomed \in [Socket -> BOOLEAN] /\ capable \in [Socket -> BOOLEAN]
    /\ pinned \in [Socket -> Pin]
    /\ workspace \in Pin /\ dialling \in BOOLEAN
    /\ layout \in Workspace \cup {None} /\ clients \in Census \cup {<<>>}
    /\ pc \in [Call -> {"idle", "check", "invoke", "sent", "acked", "returned"}]
    /\ on \in [Call -> 0..MaxSocket] /\ ask \in [Call -> Pin]
    /\ drawn \in SUBSET Pin
    /\ accepted \in SUBSET Pin /\ deskMoved \in BOOLEAN
    /\ told \in SUBSET {"layout", "clients"} /\ hasty \in BOOLEAN

NoCensus == <<>>

Init ==
    /\ exists = Workspace /\ shows = [w \in Window |-> None]
    /\ viewPin = Primary /\ able = FALSE
    /\ sock = 0 /\ up = FALSE /\ down = <<>> /\ upward = <<>>
    /\ welcomed = [s \in Socket |-> FALSE] /\ capable = [s \in Socket |-> FALSE]
    /\ pinned = [s \in Socket |-> Primary]
    /\ workspace = Primary /\ dialling = TRUE
    /\ layout = None /\ clients = NoCensus
    /\ pc = [c \in Call |-> "idle"] /\ on = [c \in Call |-> 0] /\ ask = [c \in Call |-> Primary]
    /\ drawn = {}
    /\ accepted = {} /\ deskMoved = FALSE /\ told = {} /\ hasty = FALSE

-----------------------------------------------------------------------------
(* catway.                                                                 *)

Open(sh) == {w \in Window : sh[w] # None}

\* What a connection with the pin p is shown: a workspace that is gone, and no
\* pin at all, resolve to the primary window, or to any workspace without one.
View(p, ex, sh) ==
    IF p \in ex THEN p
    ELSE IF Open(sh) # {} THEN sh[CHOOSE w \in Window : sh[w] # None]
    ELSE CHOOSE ws \in ex : TRUE

\* The two pushes after a change, in either order.
Layout(p, ex, sh) == [t |-> "layout", active |-> View(p, ex, sh)]
Clients(p, ex, sh) ==
    [t |-> "clients",
     views |-> [w \in Window \cup {Phone} |-> IF w = Phone THEN View(p, ex, sh) ELSE sh[w]]]

Pushes(p, ex, sh) ==
    LET l == Layout(p, ex, sh)
        c == Clients(p, ex, sh)
    IN  {<<l, c>>, <<c, l>>}

Sends(first, p, ex, sh) ==
    \E push \in Pushes(p, ex, sh) :
        /\ down' = down \o first \o push
        /\ Len(down') <= MaxWire

\* Somebody at the desk opens, switches or closes a window.
WindowMoves(w, ws) ==
    /\ up /\ ws \in exists \cup {None} /\ shows[w] # ws
    /\ shows' = [shows EXCEPT ![w] = ws]
    /\ Sends(<<>>, viewPin, exists, shows')
    /\ UNCHANGED <<exists, viewPin, able, sock, up, upward, connVars, loopVars, sessVars, callVars, histVars>>

\* A workspace closes; a window on it falls back.
WorkspaceCloses(ws) ==
    /\ up /\ ws \in exists /\ exists # {ws}
    /\ exists' = exists \ {ws}
    /\ shows' = [w \in Window |-> IF shows[w] = ws THEN CHOOSE x \in exists' : TRUE ELSE shows[w]]
    /\ Sends(<<>>, viewPin, exists', shows')
    /\ UNCHANGED <<viewPin, able, sock, up, upward, connVars, loopVars, sessVars, callVars, histVars>>

\* workspace.focus.  With CapWindow it moves this connection's view; without,
\* it is the session-wide switch.  The server may not know the empty id.
ServerExecutes(ok) ==
    /\ upward # <<>>
    /\ LET c == Head(upward)
           p == ask[c]
       IN  /\ ok => p \in exists \cup {Primary}
           /\ viewPin' = IF ok THEN p ELSE viewPin
           /\ accepted' = IF ok THEN accepted \cup {p} ELSE accepted
           /\ deskMoved' = (deskMoved \/ (ok /\ ~able))
           /\ Sends(<<[t |-> "result", call |-> c, ok |-> ok]>>, viewPin', exists, shows)
    /\ upward' = Tail(upward)
    /\ UNCHANGED <<exists, shows, able, sock, up, connVars, loopVars, sessVars, callVars, told, hasty>>

-----------------------------------------------------------------------------
(* run: from one socket to the next.                                       *)

\* A mutant: the census outlives its socket.
KeepsCensus == layout' = None /\ UNCHANGED clients
ResetForNewSocket == layout' = None /\ clients' = NoCensus

\* The dial, the reset, and New with the handshake, whose Init carries the pin.
\* Windows and workspaces may have come and gone since the last socket.
\* InitOnPrimary, a mutant, forgets the pin.
InitOnPrimary == Primary
InitWorkspace == workspace

Attach(a) ==
    /\ dialling /\ sock < MaxSocket
    /\ dialling' = FALSE
    /\ sock' = sock + 1 /\ up' = TRUE /\ upward' = <<>>
    /\ ResetForNewSocket
    /\ pinned' = [pinned EXCEPT ![sock'] = InitWorkspace]
    /\ viewPin' = InitWorkspace /\ able' = a
    /\ exists' \in (SUBSET Workspace) \ {{}} /\ shows' \in [Window -> exists' \cup {None}]
    /\ \E push \in Pushes(viewPin', exists', shows') : down' = <<[t |-> "welcome", able |-> a]>> \o push
    /\ told' = {} /\ hasty' = FALSE
    /\ UNCHANGED <<welcomed, capable, workspace, callVars, accepted, deskMoved>>

\* The socket dies: fail answers every command that waits for a reply.
SocketDies ==
    /\ up
    /\ up' = FALSE /\ down' = <<>> /\ upward' = <<>>
    /\ exists' = Workspace /\ shows' = [w \in Window |-> None]
    /\ pc' = [c \in Call |-> IF pc[c] = "sent" /\ on[c] = sock THEN "returned" ELSE pc[c]]
    /\ hasty' = (hasty \/ \E c \in Call : pc[c] \in {"sent", "acked"})
    /\ UNCHANGED <<viewPin, able, sock, connVars, loopVars, sessVars, on, ask, drawn, accepted, deskMoved, told>>

\* A mutant: what the screen shows is carried over, not the pin.
CarriesView == IF welcomed[sock] THEN layout ELSE workspace
Carried     == IF welcomed[sock] THEN pinned[sock] ELSE workspace

\* workspace = conn.PinnedWorkspace(), unless the welcome never came; then the
\* wait, and round the loop again.
LoopCarries ==
    /\ ~up /\ ~dialling
    /\ workspace' = Carried
    /\ dialling' = TRUE
    /\ UNCHANGED <<serverVars, wireVars, connVars, sessVars, callVars, histVars>>

-----------------------------------------------------------------------------
(* The reader.                                                             *)

Received(t) == down # <<>> /\ Head(down).t = t /\ down' = Tail(down)

OnWelcome ==
    /\ Received("welcome")
    /\ welcomed' = [welcomed EXCEPT ![sock] = TRUE]
    /\ capable' = [capable EXCEPT ![sock] = Head(down).able]
    /\ UNCHANGED <<serverVars, sock, up, upward, pinned, loopVars, sessVars, callVars, histVars>>

OnLayout ==
    /\ Received("layout")
    /\ layout' = Head(down).active
    /\ told' = told \cup {"layout"}
    /\ UNCHANGED <<serverVars, sock, up, upward, connVars, loopVars, clients, callVars, accepted, deskMoved, hasty>>

OnClients ==
    /\ Received("clients")
    /\ clients' = Head(down).views
    /\ told' = told \cup {"clients"}
    /\ UNCHANGED <<serverVars, sock, up, upward, connVars, loopVars, layout, callVars, accepted, deskMoved, hasty>>

\* The reply of a command that still waits; a late one is dropped.
OnResult ==
    /\ Received("result")
    /\ LET c == Head(down).call
       IN  pc' = IF pc[c] # "sent" THEN pc
                 ELSE [pc EXCEPT ![c] = IF Head(down).ok THEN "acked" ELSE "returned"]
    /\ UNCHANGED <<serverVars, sock, up, upward, connVars, loopVars, sessVars, on, ask, drawn, histVars>>

-----------------------------------------------------------------------------
(* What the Windows screen reads off the session.                          *)

ViewWorkspace == layout

\* The windows of the census: viewers are left out, and a window that closed
\* has no entry.  EveryConnection, a mutant, counts this phone.
EveryConnection == {w \in Window \cup {Phone} : clients # NoCensus /\ clients[w] # None}
DesktopWindows  == {w \in Window : clients # NoCensus /\ clients[w] # None}

FollowedWindows == {w \in DesktopWindows : ViewWorkspace # None /\ clients[w] = ViewWorkspace}

\* The workspace shown when no window shows it; None is "no such thing".
ViewWithoutWindow ==
    IF ViewWorkspace = None \/ clients = NoCensus \/ FollowedWindows # {} THEN None
                                                                          ELSE ViewWorkspace

\* A render pass of the screen.  Without a census or an open window it has no
\* list.  A row can be tapped when the server can follow and the phone is not
\* on the row's workspace already; the button that releases the pin is there
\* when there is one.
CanFollow == up /\ capable[sock]
Following == pinned[sock] # Primary
Offered ==
    IF ~CanFollow \/ DesktopWindows = {} THEN {}
    ELSE {clients[w] : w \in DesktopWindows \ FollowedWindows} \cup {p \in {Primary} : Following}

Draw ==
    /\ drawn # Offered
    /\ drawn' = Offered
    /\ UNCHANGED <<serverVars, wireVars, connVars, loopVars, sessVars, pc, on, ask, histVars>>

-----------------------------------------------------------------------------
(* FollowWorkspace and FollowPrimaryView, one goroutine each.              *)

Flying(c) == pc[c] \in {"check", "invoke", "sent", "acked"}

\* A tap on a window's row, or on the release button: runCommand takes the
\* Conn that is live now, which may not be the one the row was drawn for.
Tap(c, p) ==
    /\ pc[c] = "idle" /\ up
    /\ p \in drawn
    /\ pc' = [pc EXCEPT ![c] = "check"]
    /\ on' = [on EXCEPT ![c] = sock]
    /\ ask' = [ask EXCEPT ![c] = p]
    /\ hasty' = (hasty \/ \E d \in Call : Flying(d))
    /\ UNCHANGED <<serverVars, wireVars, connVars, loopVars, sessVars, drawn, accepted, deskMoved, told>>

\* requireWindowCap: the welcome first, then the capability.
\* CapUnchecked, a mutant, is content with the welcome.
Welcomed(c)     == welcomed[on[c]]
CapUnchecked(c) == Welcomed(c)
HasWindowCap(c) == Welcomed(c) /\ capable[on[c]]

ChecksCap(c) ==
    /\ pc[c] = "check"
    /\ Welcomed(c) \/ ~up \/ on[c] # sock
    /\ pc' = [pc EXCEPT ![c] = IF HasWindowCap(c) THEN "invoke" ELSE "returned"]
    /\ UNCHANGED <<serverVars, wireVars, connVars, loopVars, sessVars, on, ask, drawn, histVars>>

\* Invoke: a closed connection refuses, otherwise the command is on its way.
Invokes(c) ==
    /\ pc[c] = "invoke"
    /\ IF up /\ on[c] = sock
         THEN /\ upward' = Append(upward, c)
              /\ pc' = [pc EXCEPT ![c] = "sent"]
         ELSE /\ pc' = [pc EXCEPT ![c] = "returned"]
              /\ UNCHANGED upward
    /\ UNCHANGED <<serverVars, sock, up, down, connVars, loopVars, sessVars, on, ask, drawn, histVars>>

\* The timer: the command is given up, though the server may still run it.
Expires(c) ==
    /\ pc[c] = "sent"
    /\ pc' = [pc EXCEPT ![c] = "returned"]
    /\ hasty' = TRUE
    /\ UNCHANGED <<serverVars, wireVars, connVars, loopVars, sessVars, on, ask, drawn, accepted, deskMoved, told>>

\* Only after the server said ok; PinsWhenSent, a mutant, does not wait.
PinsWhenSent(c)  == pc[c] \in {"sent", "acked"}
PinsWhenAcked(c) == pc[c] = "acked"

SetsPin(c) ==
    /\ PinsWhenAcked(c)
    /\ pinned' = [pinned EXCEPT ![on[c]] = ask[c]]
    /\ pc' = [pc EXCEPT ![c] = "returned"]
    /\ UNCHANGED <<serverVars, wireVars, welcomed, capable, loopVars, sessVars, on, ask, drawn, histVars>>

-----------------------------------------------------------------------------

CallRuns(c) == ChecksCap(c) \/ Invokes(c) \/ Expires(c) \/ SetsPin(c)

Next ==
    \/ \E w \in Window, ws \in Workspace \cup {None} : WindowMoves(w, ws)
    \/ \E ws \in Workspace : WorkspaceCloses(ws)
    \/ \E ok \in BOOLEAN : ServerExecutes(ok)
    \/ \E a \in BOOLEAN : Attach(a)
    \/ SocketDies \/ LoopCarries \/ Draw
    \/ OnWelcome \/ OnLayout \/ OnClients \/ OnResult
    \/ \E c \in Call, p \in Pin : Tap(c, p)
    \/ \E c \in Call : CallRuns(c)

Spec == Init /\ [][Next]_vars

-----------------------------------------------------------------------------
(* Properties.                                                             *)

\* "A viewer never moves the desk": no focus command reaches a server that
\* would switch every window with it, whatever server the redial finds.
NeverMovesDesk == ~deskMoved

\* A pin the server has not said ok to is in no Conn and in no later
\* handshake.
PinsWereAccepted ==
    /\ \A s \in Socket : pinned[s] \in accepted \cup {Primary}
    /\ workspace \in accepted \cup {Primary}

\* A person who taps one window at a time and waits for the answer comes back
\* on it: the Init of the next socket asks for the view the server had for the
\* last one.
ComesBack == [][sock' # sock /\ sock # 0 /\ ~hasty => viewPin' = viewPin]_vars

\* What an earlier socket said is never on the screen once the next one is
\* attached, not even in the gap before that one's first pushes.
OneSocketsPicture ==
    /\ up /\ layout # None => "layout" \in told
    /\ up /\ clients # NoCensus => "clients" \in told

\* Once everything sent has been folded, the screen names the workspace the
\* server shows this phone and marks the windows that show it, or says that no
\* window does; before that it shows nothing of an earlier socket.
ScreenIsRight ==
    /\ OneSocketsPicture
    /\ up /\ down = <<>> =>
        LET v == View(viewPin, exists, shows)
        IN  /\ ViewWorkspace = v
            /\ DesktopWindows = Open(shows)
            /\ FollowedWindows = {w \in Window : shows[w] = v}
            /\ ViewWithoutWindow = IF \E w \in Window : shows[w] = v THEN None ELSE v
=============================================================================
