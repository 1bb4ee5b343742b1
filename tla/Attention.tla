----------------------------- MODULE Attention ------------------------------
(***************************************************************************)
(* What the app knows of the agents and how it tells the person holding    *)
(* the phone: src/app/attention.go, the fold of the agents rollup and of   *)
(* pane_agent in src/internal/catsclient/session.go, and the part of       *)
(* Connection that ties them to a generation.                              *)
(*                                                                         *)
(* The reader of a socket folds a message under Connection.mu and announces*)
(* what the fold found after releasing it, so a new generation, or the     *)
(* user leaving the app, can come in between.  The desk, the socket and    *)
(* the phone's notification list are external: the desk sends a pane_agent *)
(* and then the whole rollup on a change, and the rollup on every connect. *)
(***************************************************************************)
EXTENDS Naturals, Sequences

CONSTANTS
    Pane,       \* the panes an agent may run in; a pane's handle is its identity
    MaxGen,     \* bound on the generations
    MaxWire     \* bound on the messages in flight

ASSUME BoundsAssumption == MaxGen \in Nat /\ MaxWire \in Nat

Gen == 1..MaxGen
State == {"working", "blocked"}
Gone  == "gone"        \* the rollup does not list the pane
Unset == "unset"       \* no pane_agent for the pane yet

Roster  == [Pane -> State \cup {Gone}]
Message == [t : {"agents"}, items : Roster] \cup [t : {"pane_agent"}, pane : Pane, state : State]
NoMessage == [t |-> "none"]

VARIABLES
    \* the desk's agents, followed while a socket to it is up; and the socket
    truth, up, wire,
    \* Connection: c.gen, is there a loop, c.session's Agents and PaneAgents
    gen, linked, agents, paneAgents,
    \* c.watch
    seeded, blocked,
    \* the reader of each generation: where it is, the message it holds, and
    \* observe's two lists, as far as announce has not yet worked through them
    reader, held, became, cleared,
    \* the phone: is the app in front, and which generation's banner is shown
    \* for each handle
    active, tray,
    \* history: the panes that the last rollup folded in this generation had not
    \* blocked (none before the first), the panes whose block a rollup brought
    \* and that have not been buzzed for yet, and the panes a pane_agent of the
    \* current socket has named
    calm, owed, named

deskVars   == <<truth, up, wire>>
sessVars   == <<agents, paneAgents>>
watchVars  == <<seeded, blocked>>
readerVars == <<reader, held, became, cleared>>
histVars   == <<calm, owed, named>>
vars == <<deskVars, gen, linked, sessVars, watchVars, readerVars, active, tray, histVars>>

NewAgents     == [p \in Pane |-> Gone]
\* A mutant: the map of a new session is empty.
NilPaneAgents == [p \in {} |-> Unset]

NewPaneAgents == [p \in Pane |-> Unset]
Blocked(r)    == {p \in Pane : r[p] = "blocked"}

TypeOK ==
    /\ truth \in Roster /\ up \in BOOLEAN
    /\ \A i \in 1..Len(wire) : wire[i] \in Message
    /\ gen \in 0..MaxGen /\ linked \in BOOLEAN
    /\ agents \in Roster /\ paneAgents \in [Pane -> State \cup {Unset}]
    /\ seeded \in BOOLEAN /\ blocked \in SUBSET Pane
    /\ reader \in [Gen -> {"idle", "holding", "cancels", "buzz", "posts"}]
    /\ held \in [Gen -> Message \cup {NoMessage}]
    /\ became \in [Gen -> SUBSET Pane] /\ cleared \in [Gen -> SUBSET Pane]
    /\ active \in BOOLEAN /\ tray \in [Pane -> 0..MaxGen]
    /\ calm \in SUBSET Pane /\ owed \in SUBSET Pane /\ named \in SUBSET Pane

Init ==
    /\ truth = NewAgents /\ up = FALSE /\ wire = <<>>
    /\ gen = 0 /\ linked = FALSE
    /\ agents = NewAgents /\ paneAgents = NewPaneAgents
    /\ seeded = FALSE /\ blocked = {}
    /\ reader = [g \in Gen |-> "idle"] /\ held = [g \in Gen |-> NoMessage]
    /\ became = [g \in Gen |-> {}] /\ cleared = [g \in Gen |-> {}]
    /\ active = TRUE /\ tray = [p \in Pane |-> 0]
    /\ calm = {} /\ owed = {} /\ named = {}

-----------------------------------------------------------------------------
(* The desk and the socket.                                                *)

Rollup(r) == [t |-> "agents", items |-> r]

AgentChanges(p, st) ==
    /\ up /\ truth[p] # st
    /\ truth' = [truth EXCEPT ![p] = st]
    /\ LET patch == IF st = Gone THEN <<>> ELSE <<[t |-> "pane_agent", pane |-> p, state |-> st]>>
       IN  wire' = wire \o Append(patch, Rollup(truth'))
    /\ Len(wire') <= MaxWire
    /\ UNCHANGED <<up, gen, linked, sessVars, watchVars, readerVars, active, tray, histVars>>

\* A mutant: the watch is reset on every socket.
SocketUpForgets ==
    /\ linked /\ ~up /\ reader[gen] = "idle"
    /\ up' = TRUE
    /\ truth' \in Roster /\ wire' = <<Rollup(truth')>>
    /\ seeded' = FALSE /\ blocked' = {}
    /\ named' = {}
    /\ UNCHANGED <<gen, linked, sessVars, readerVars, active, tray, calm, owed>>

\* A socket of the current generation is up: the desk sends the rollup, which
\* anything may have happened to since the last socket.
\* ResetForNewSocket keeps Agents and PaneAgents, and nothing resets the watch.
\* The loop dials only after the previous reader has returned.
SocketUp ==
    /\ linked /\ ~up /\ reader[gen] = "idle"
    /\ up' = TRUE
    /\ truth' \in Roster /\ wire' = <<Rollup(truth')>>
    /\ named' = {}
    /\ UNCHANGED <<gen, linked, sessVars, watchVars, readerVars, active, tray, calm, owed>>

SocketDrops ==
    /\ up
    /\ up' = FALSE
    /\ truth' = NewAgents /\ wire' = <<>>
    /\ UNCHANGED <<gen, linked, sessVars, watchVars, readerVars, active, tray, histVars>>

-----------------------------------------------------------------------------
(* Connect and Disconnect, as far as the agents go.                        *)

NewSession ==
    /\ agents' = NewAgents /\ paneAgents' = NewPaneAgents
    /\ calm' = {} /\ owed' = {} /\ named' = {}

\* A mutant: the next desk is compared with the last one's rollup.
KeepsWatch == UNCHANGED watchVars

\* The next desk, or the same one paired again: c.watch.reset().
ResetsWatch == seeded' = FALSE /\ blocked' = {}

Connect ==
    /\ gen < MaxGen
    /\ gen' = gen + 1
    /\ linked' = TRUE
    /\ truth' = NewAgents /\ up' = FALSE /\ wire' = <<>>
    /\ NewSession
    /\ ResetsWatch
    /\ UNCHANGED <<readerVars, active, tray>>

Disconnect ==
    /\ linked /\ gen < MaxGen
    /\ gen' = gen + 1
    /\ linked' = FALSE
    /\ truth' = NewAgents /\ up' = FALSE /\ wire' = <<>>
    /\ NewSession
    /\ UNCHANGED <<watchVars, readerVars, active, tray>>

-----------------------------------------------------------------------------
(* The reader: onMessage, then announce.                                   *)

\* The reader of the current socket has decoded a message; c.mu is not taken.
Receive ==
    /\ up /\ wire # <<>> /\ reader[gen] = "idle"
    /\ held' = [held EXCEPT ![gen] = Head(wire)]
    /\ wire' = Tail(wire)
    /\ reader' = [reader EXCEPT ![gen] = "holding"]
    /\ UNCHANGED <<truth, up, gen, linked, sessVars, watchVars, became, cleared, active, tray, histVars>>

\* A mutant: a message of any generation is folded.
CurrentAlways(g) == g \in Gen

Current(g)       == g = gen

\* A message of a generation that is over is dropped.
DropStale(g) ==
    /\ reader[g] = "holding" /\ ~Current(g)
    /\ reader' = [reader EXCEPT ![g] = "idle"]
    /\ held' = [held EXCEPT ![g] = NoMessage]
    /\ UNCHANGED <<deskVars, gen, linked, sessVars, watchVars, became, cleared, active, tray, histVars>>

\* A mutant: the roster waits for the next rollup.
LeavesRoster(p, st) == agents

\* pane_agent: PaneAgents, and patchRoster if the roster lists the pane.
PatchRoster(p, st)  == IF agents[p] = Gone THEN agents ELSE [agents EXCEPT ![p] = st]

FoldPaneAgent(g) ==
    /\ reader[g] = "holding" /\ Current(g) /\ held[g].t = "pane_agent"
    /\ LET m == held[g]
       IN  /\ paneAgents' = [paneAgents EXCEPT ![m.pane] = m.state]
           /\ agents' = PatchRoster(m.pane, m.state)
           /\ named' = named \cup {m.pane}
    /\ reader' = [reader EXCEPT ![g] = "idle"]
    /\ held' = [held EXCEPT ![g] = NoMessage]
    /\ UNCHANGED <<deskVars, gen, linked, watchVars, became, cleared, active, tray, calm, owed>>

\* The rollup: Agents, and observe, which compares it with the one before.
\* The first one after a reset only seeds the watch.
Observe(g, now) ==
    /\ became'  = [became  EXCEPT ![g] = IF seeded THEN now \ blocked ELSE {}]
    /\ cleared' = [cleared EXCEPT ![g] = IF seeded THEN blocked \ now ELSE {}]
    /\ seeded' = TRUE
    /\ blocked' = now

FoldRollup(g) ==
    /\ reader[g] = "holding" /\ Current(g) /\ held[g].t = "agents"
    /\ LET now == Blocked(held[g].items)
       IN  /\ Observe(g, now)
           /\ owed' = (owed \cup calm) \cap now
           /\ calm' = Pane \ now
    /\ agents' = held[g].items
    /\ reader' = [reader EXCEPT ![g] = "cancels"]
    /\ held' = [held EXCEPT ![g] = NoMessage]
    /\ UNCHANGED <<deskVars, gen, linked, paneAgents, active, tray, named>>

\* announce: first the banners of the agents that are not blocked any more.
AnnounceCancels(g, p) ==
    /\ reader[g] = "cancels" /\ p \in cleared[g]
    /\ cleared' = [cleared EXCEPT ![g] = @ \ {p}]
    /\ tray' = [tray EXCEPT ![p] = 0]
    /\ UNCHANGED <<deskVars, gen, linked, sessVars, watchVars, reader, held, became, active, histVars>>

\* A mutant: with news to tell, the old banners stay.
NewsComesFirst(g) == cleared[g] = {} \/ became[g] # {}

AllCancelled(g)   == cleared[g] = {}

AnnounceCancelled(g) ==
    /\ reader[g] = "cancels" /\ AllCancelled(g)
    /\ reader' = [reader EXCEPT ![g] = IF became[g] = {} THEN "idle" ELSE "buzz"]
    /\ cleared' = [cleared EXCEPT ![g] = {}]
    /\ UNCHANGED <<deskVars, gen, linked, sessVars, watchVars, held, became, active, tray, histVars>>

\* One buzz for all of them; in front of the user that is all.
AnnounceBuzzes(g) ==
    /\ reader[g] = "buzz"
    /\ owed' = IF Current(g) THEN owed \ became[g] ELSE owed
    /\ reader' = [reader EXCEPT ![g] = IF active THEN "idle" ELSE "posts"]
    /\ became' = IF active THEN [became EXCEPT ![g] = {}] ELSE became
    /\ UNCHANGED <<deskVars, gen, linked, sessVars, watchVars, held, cleared, active, tray, calm, named>>

\* A banner for each; one with the same handle is replaced.
AnnouncePosts(g, p) ==
    /\ reader[g] = "posts" /\ p \in became[g]
    /\ tray' = [tray EXCEPT ![p] = g]
    /\ became' = [became EXCEPT ![g] = @ \ {p}]
    /\ reader' = [reader EXCEPT ![g] = IF became[g] = {p} THEN "idle" ELSE @]
    /\ UNCHANGED <<deskVars, gen, linked, sessVars, watchVars, held, cleared, active, histVars>>

-----------------------------------------------------------------------------
(* The phone.                                                              *)

Lifecycle ==
    /\ active' = ~active
    /\ UNCHANGED <<deskVars, gen, linked, sessVars, watchVars, readerVars, tray, histVars>>

\* A tap on a banner takes it out of the list and brings the app to the front;
\* openFromNotification then opens the pane if the session still lists it.
\* Swiping the banner away only takes it out.
BannerLeaves(p) ==
    /\ tray[p] # 0
    /\ tray' = [tray EXCEPT ![p] = 0]
    /\ active' \in {active, TRUE}
    /\ UNCHANGED <<deskVars, gen, linked, sessVars, watchVars, readerVars, histVars>>

-----------------------------------------------------------------------------

ReaderRuns(g) ==
    \/ DropStale(g) \/ FoldPaneAgent(g) \/ FoldRollup(g)
    \/ AnnounceCancelled(g) \/ AnnounceBuzzes(g)
    \/ \E p \in Pane : AnnounceCancels(g, p) \/ AnnouncePosts(g, p)

Next ==
    \/ \E p \in Pane, st \in State \cup {Gone} : AgentChanges(p, st)
    \/ SocketUp \/ SocketDrops \/ Connect \/ Disconnect
    \/ Receive \/ \E g \in Gen : ReaderRuns(g)
    \/ Lifecycle \/ \E p \in Pane : BannerLeaves(p)

Spec == Init /\ [][Next]_vars

-----------------------------------------------------------------------------
(* Properties.                                                             *)

Quiet(g) == reader[g] = "idle"

\* "The notification list never holds a request nobody can answer any more"
\* (attention.go), within a generation: when its reader has announced what it
\* folded, each of its banners is for an agent the last rollup has blocked,
\* whatever sockets came and went in between.
BannersCurrent ==
    linked /\ Quiet(gen) => \A p \in Pane : tray[p] = gen => p \in blocked

\* An agent that was not blocked in one rollup of a generation and is in the
\* next is buzzed for, even when a drop lies between the two; so when the
\* reader is quiet nothing is owed.
NoneMissed == linked /\ Quiet(gen) => owed = {}

\* And nothing else is: the rollup after a reconnect does not buzz again for an
\* agent that was blocked before the drop, and the first one of a desk does
\* not buzz at all.
OnlyNews == linked /\ reader[gen] = "buzz" => became[gen] \subseteq owed

\* The phone buzzes for an agent when it becomes blocked, and then only.
AnnouncedOnce == NoneMissed /\ OnlyNews

\* What the screens draw is this desk's roster: once everything sent on a
\* socket has been folded, it is what the desk says, and nothing a reader of
\* another generation still held has got into it.
RosterFollows == up /\ wire = <<>> /\ Quiet(gen) => agents = truth

\* The pane screen prefers the pane_agent to the roster; of a pane the current
\* socket has named, the two say the same at every instant.
PaneMatchesRoster == \A p \in named : agents[p] # Gone => paneAgents[p] = agents[p]

\* The roster and the pane screen agree with the desk and with each other.
RosterIsTrue == RosterFollows /\ PaneMatchesRoster

\* "A pane opened from the roster shows the state the roster showed"
\* (src/app/pane.go), whichever socket told it.
PaneShowsRoster ==
    \A p \in Pane : agents[p] # Gone /\ paneAgents[p] # Unset => paneAgents[p] = agents[p]

\* The same promise as BannersCurrent, of the whole notification list: when
\* every reader is quiet and the desk's rollup has been folded, there is no
\* banner for an agent that is not blocked.
BannersAnswerable ==
    up /\ wire = <<>> /\ (\A g \in Gen : Quiet(g)) =>
        \A p \in Pane : tray[p] # 0 => p \in blocked
=============================================================================
