-------------------------- MODULE AttentionProofs ---------------------------
(***************************************************************************)
(* Theorems about Attention, for any set of panes and any bounds.          *)
(*                                                                         *)
(* The inductive invariant IInv says where the readers may stand (GenInv), *)
(* what the notification list and announce's two lists have to do with the *)
(* watch (BannerInv), what the watch and what is owed have to do with the  *)
(* rollups (WatchInv), and what the messages in flight may say, each       *)
(* compared with the one before it (WireInv, ChainInv).                    *)
(***************************************************************************)
EXTENDS Attention, SequenceTheorems, TLAPS

\* A reader that is not idle is the current one or an older one's, and without
\* a loop the current generation has no reader at work.
GenInv ==
    /\ linked => gen # 0
    /\ up => linked
    /\ ~up => wire = <<>>
    /\ wire \in Seq(Message)
    /\ \A g \in Gen : reader[g] # "idle" => g < gen \/ (g = gen /\ linked)
    /\ \A g \in Gen : reader[g] = "holding" => held[g] \in Message
    /\ \A g \in Gen : reader[g] \in {"idle", "holding"} => became[g] = {}
    /\ \A g \in Gen : reader[g] # "cancels" => cleared[g] = {}
    /\ \A p \in Pane : tray[p] <= gen

\* A banner of this generation is for a blocked agent, or announce is about to
\* take it down; before the first rollup there is none.
BannerInv ==
    linked =>
        /\ seeded \/ blocked = {}
        /\ \A p \in Pane : tray[p] = gen => seeded /\ (p \in blocked \/ p \in cleared[gen])
        /\ became[gen] \subseteq blocked

\* The watch holds what the last rollup had, and what is owed is what announce
\* is about to buzz for.
WatchInv ==
    linked =>
        /\ calm = IF seeded THEN Pane \ blocked ELSE {}
        /\ owed = IF reader[gen] \in {"cancels", "buzz"} THEN became[gen] ELSE {}

\* The messages sent and not folded yet: the one the reader holds, the wire.
Flight == IF linked /\ reader[gen] = "holding" THEN <<held[gen]>> \o wire ELSE wire

\* The last thing sent on a socket is the desk's rollup.
WireInv ==
    up => IF Flight = <<>> THEN agents = truth ELSE Flight[Len(Flight)] = Rollup(truth)

\* What the panes this socket has named may be in the roster r, but for those
\* in S.
Agree(r, S) == \A p \in named \ S : r[p] # Gone => paneAgents[p] = r[p]

\* A rollup in flight differs from the one before it by the pane_agent between
\* the two, or by an agent that is gone; the first in flight follows on what
\* has been folded.
ChainInv ==
    /\ \A i \in 1..Len(Flight) : Flight[i].t = "pane_agent" /\ i < Len(Flight) =>
          /\ Flight[i + 1].t = "agents"
          /\ Flight[i + 1].items[Flight[i].pane] = Flight[i].state
          /\ i = 1 => Agree(Flight[2].items, {Flight[1].pane})
    /\ \A i \in 1..Len(Flight) : Flight[i].t = "agents" =>
          /\ i = 1 => Agree(Flight[1].items, {})
          /\ i + 1 <= Len(Flight) /\ Flight[i + 1].t = "agents" =>
                \A p \in Pane : Flight[i + 1].items[p] \in {Gone, Flight[i].items[p]}
          /\ i + 2 <= Len(Flight) /\ Flight[i + 1].t = "pane_agent" =>
                \A p \in Pane \ {Flight[i + 1].pane} : Flight[i + 2].items[p] = Flight[i].items[p]

\* The inductive invariant.
IInv == TypeOK /\ GenInv /\ BannerInv /\ WatchInv /\ WireInv /\ PaneMatchesRoster /\ ChainInv

-----------------------------------------------------------------------------

\* All that is used of the bounds.
LEMMA Generations == Gen \in SUBSET (Nat \ {0}) /\ \A g \in Nat : g \in Gen <=> g # 0 /\ g <= MaxGen
  BY BoundsAssumption DEF Gen

\* The parts of a message.
LEMMA MessageFields ==
    ASSUME NEW m \in Message
    PROVE  \/ m.t = "agents" /\ m.items \in Roster
           \/ m.t = "pane_agent" /\ m.pane \in Pane /\ m.state \in State
  BY DEF Message

\* What a change of an agent sends.
LEMMA Sent ==
    ASSUME TypeOK, GenInv, NEW p \in Pane, NEW st \in State \cup {Gone}, AgentChanges(p, st)
    PROVE  /\ truth' \in Roster /\ Rollup(truth') \in Message
           /\ wire' \in Seq(Message)
           /\ \/ st = Gone /\ wire' = Append(wire, Rollup(truth'))
              \/ /\ st \in State /\ [t |-> "pane_agent", pane |-> p, state |-> st] \in Message
                 /\ wire' = Append(Append(wire, [t |-> "pane_agent", pane |-> p, state |-> st]), Rollup(truth'))
<1> DEFINE patch == [t |-> "pane_agent", pane |-> p, state |-> st]
<1>1. truth' = [truth EXCEPT ![p] = st] /\ wire \in Seq(Message)
  BY DEF AgentChanges, GenInv
<1>2. truth' \in Roster /\ Rollup(truth') \in Message
  BY <1>1 DEF TypeOK, Roster, Message, Rollup
<1>3. CASE st = Gone
  <2>1. wire' = wire \o Append(<<>>, Rollup(truth'))
    BY <1>3 DEF AgentChanges
  <2>. QED BY <1>1, <1>2, <1>3, <2>1
<1>4. CASE st \in State
  <2>1. st # Gone
    BY <1>4 DEF State, Gone
  <2>2. patch \in Message
    BY <1>4 DEF Message
  <2>3. wire' = wire \o Append(<<patch>>, Rollup(truth'))
    BY <2>1 DEF AgentChanges
  <2>. QED BY <1>1, <1>2, <1>4, <2>2, <2>3
<1>. QED BY <1>3, <1>4

\* An empty wire, and one with a message on it.
LEMMA ShortWires ==
    /\ <<>> \in Seq(Message) /\ Len(<<>>) = 0
    /\ \A m \in Message : <<m>> \in Seq(Message) /\ Len(<<m>>) = 1 /\ <<m>>[1] = m /\ <<m>> # <<>>
  OBVIOUS

\* What lies on a wire is messages.
LEMMA OnWire ==
    ASSUME NEW s \in Seq(Message)
    PROVE  \A i \in 1..Len(s) : s[i] \in Message
  BY ElementOfSeq

\* Every step keeps the types.
LEMMA TypeStep ==
    ASSUME TypeOK, GenInv, [Next]_vars
    PROVE  TypeOK'
<1> USE BoundsAssumption, Generations DEF TypeOK, GenInv, Roster, State, Gone, Unset, NewAgents, NewPaneAgents, vars, deskVars, sessVars, watchVars, readerVars, histVars
<1>1. ASSUME NEW p \in Pane, NEW st \in State \cup {Gone}, AgentChanges(p, st) PROVE TypeOK'
  <2>1. wire' \in Seq(Message)
    BY <1>1, Sent DEF AgentChanges
  <2>2. truth' \in Roster
    BY <1>1, Sent
  <2>. QED BY <1>1, <2>2, <2>1, OnWire DEF AgentChanges
<1>2. CASE SocketUp BY <1>2 DEF SocketUp, Rollup, Message
<1>3. CASE SocketDrops
  <2>1. wire' \in Seq(Message)
    BY <1>3, ShortWires DEF SocketDrops
  <2>. QED BY <1>3, <2>1, OnWire DEF SocketDrops
<1>4. CASE Connect
  <2>1. wire' \in Seq(Message)
    BY <1>4, ShortWires DEF Connect
  <2>2. agents' \in Roster /\ truth' \in Roster /\ paneAgents' \in [Pane -> State \cup {Unset}]
    BY <1>4 DEF Connect, NewSession
  <2>3. \A i \in 1..Len(wire') : wire'[i] \in Message
    BY <2>1, OnWire
  <2>4. gen' \in 0..MaxGen
    BY <1>4 DEF Connect
  <2>5. up' \in BOOLEAN /\ linked' \in BOOLEAN
    BY <1>4 DEF Connect
  <2>. QED BY <1>4, <2>2, <2>3, <2>4, <2>5 DEF Connect, NewSession, ResetsWatch
<1>5. CASE Disconnect
  <2>1. wire' \in Seq(Message)
    BY <1>5, ShortWires DEF Disconnect
  <2>2. agents' \in Roster /\ truth' \in Roster /\ paneAgents' \in [Pane -> State \cup {Unset}]
    BY <1>5 DEF Disconnect, NewSession
  <2>3. \A i \in 1..Len(wire') : wire'[i] \in Message
    BY <2>1, OnWire
  <2>4. gen' \in 0..MaxGen
    BY <1>5 DEF Disconnect
  <2>5. up' \in BOOLEAN /\ linked' \in BOOLEAN
    BY <1>5 DEF Disconnect
  <2>. QED BY <1>5, <2>2, <2>3, <2>4, <2>5 DEF Disconnect, NewSession
<1>6. CASE Receive BY <1>6 DEF Receive
<1>7. ASSUME NEW g \in Gen, ReaderRuns(g) PROVE TypeOK'
  <2>1. CASE DropStale(g) BY <2>1 DEF DropStale, Current
  <2>2. CASE FoldPaneAgent(g) BY <2>2 DEF FoldPaneAgent, Current, PatchRoster, Message
  <2>3. CASE FoldRollup(g) BY <2>3 DEF FoldRollup, Current, Observe, Blocked, Message
  <2>4. CASE AnnounceCancelled(g) BY <2>4 DEF AnnounceCancelled, AllCancelled
  <2>5. CASE AnnounceBuzzes(g) BY <2>5 DEF AnnounceBuzzes, Current
  <2>6. ASSUME NEW p \in Pane, AnnounceCancels(g, p) PROVE TypeOK'
    BY <2>6 DEF AnnounceCancels
  <2>7. ASSUME NEW p \in Pane, AnnouncePosts(g, p) PROVE TypeOK'
    BY <2>7 DEF AnnouncePosts
  <2>. QED BY <1>7, <2>1, <2>2, <2>3, <2>4, <2>5, <2>6, <2>7 DEF ReaderRuns
<1>8. CASE Lifecycle BY <1>8 DEF Lifecycle
<1>9. ASSUME NEW p \in Pane, BannerLeaves(p) PROVE TypeOK'
  <2>1. active' \in BOOLEAN
    BY <1>9 DEF BannerLeaves
  <2>2. tray' \in [Pane -> 0..MaxGen]
    BY <1>9 DEF BannerLeaves
  <2>. QED BY <1>9, <2>1, <2>2 DEF BannerLeaves
<1>10. CASE UNCHANGED vars BY <1>10
<1>. QED BY <1>1, <1>2, <1>3, <1>4, <1>5, <1>6, <1>7, <1>8, <1>9, <1>10 DEF Next

\* Every step keeps the readers where they may stand.
LEMMA GenStep ==
    ASSUME TypeOK, GenInv, [Next]_vars
    PROVE  GenInv'
<1> USE BoundsAssumption, Generations DEF TypeOK, GenInv, vars, deskVars, sessVars, watchVars, readerVars, histVars
<1>1. ASSUME NEW p \in Pane, NEW st \in State \cup {Gone}, AgentChanges(p, st) PROVE GenInv'
  BY <1>1, Sent DEF AgentChanges
<1>2. CASE SocketUp
  BY <1>2, ShortWires DEF SocketUp, Rollup, Message
<1>3. CASE SocketDrops
  BY <1>3, ShortWires DEF SocketDrops
<1>4. CASE Connect
  BY <1>4, ShortWires DEF Connect, NewSession, ResetsWatch
<1>5. CASE Disconnect
  BY <1>5, ShortWires DEF Disconnect, NewSession
<1>6. CASE Receive BY <1>6 DEF Receive
<1>7. ASSUME NEW g \in Gen, ReaderRuns(g) PROVE GenInv'
  <2>1. CASE DropStale(g) BY <2>1 DEF DropStale, Current
  <2>2. CASE FoldPaneAgent(g) BY <2>2 DEF FoldPaneAgent, Current, PatchRoster
  <2>3. CASE FoldRollup(g) BY <2>3 DEF FoldRollup, Current, Observe, Blocked
  <2>4. CASE AnnounceCancelled(g) BY <2>4 DEF AnnounceCancelled, AllCancelled
  <2>5. CASE AnnounceBuzzes(g) BY <2>5 DEF AnnounceBuzzes, Current
  <2>6. ASSUME NEW p \in Pane, AnnounceCancels(g, p) PROVE GenInv'
    BY <2>6 DEF AnnounceCancels
  <2>7. ASSUME NEW p \in Pane, AnnouncePosts(g, p) PROVE GenInv'
    BY <2>7 DEF AnnouncePosts
  <2>. QED BY <1>7, <2>1, <2>2, <2>3, <2>4, <2>5, <2>6, <2>7 DEF ReaderRuns
<1>8. CASE Lifecycle BY <1>8 DEF Lifecycle
<1>9. ASSUME NEW p \in Pane, BannerLeaves(p) PROVE GenInv'
  BY <1>9 DEF BannerLeaves
<1>10. CASE UNCHANGED vars BY <1>10
<1>. QED BY <1>1, <1>2, <1>3, <1>4, <1>5, <1>6, <1>7, <1>8, <1>9, <1>10 DEF Next

\* Every step keeps the banners within what the watch and announce know.
LEMMA BannerStep ==
    ASSUME TypeOK, GenInv, BannerInv, [Next]_vars
    PROVE  BannerInv'
<1> USE BoundsAssumption, Generations DEF TypeOK, GenInv, BannerInv, vars, deskVars, sessVars, watchVars, readerVars, histVars
<1>1. ASSUME NEW p \in Pane, NEW st \in State \cup {Gone}, AgentChanges(p, st) PROVE BannerInv'
  BY <1>1 DEF AgentChanges, Rollup
<1>2. CASE SocketUp BY <1>2 DEF SocketUp, Rollup
<1>3. CASE SocketDrops BY <1>3 DEF SocketDrops
<1>4. CASE Connect BY <1>4 DEF Connect, NewSession, ResetsWatch
<1>5. CASE Disconnect BY <1>5 DEF Disconnect, NewSession
<1>6. CASE Receive BY <1>6 DEF Receive
<1>7. ASSUME NEW g \in Gen, ReaderRuns(g) PROVE BannerInv'
  <2>1. CASE DropStale(g) BY <2>1 DEF DropStale, Current
  <2>2. CASE FoldPaneAgent(g) BY <2>2 DEF FoldPaneAgent, Current, PatchRoster
  <2>3. CASE FoldRollup(g) BY <2>3 DEF FoldRollup, Current, Observe, Blocked
  <2>4. CASE AnnounceCancelled(g) BY <2>4 DEF AnnounceCancelled, AllCancelled
  <2>5. CASE AnnounceBuzzes(g) BY <2>5 DEF AnnounceBuzzes, Current
  <2>6. ASSUME NEW p \in Pane, AnnounceCancels(g, p) PROVE BannerInv'
    BY <2>6 DEF AnnounceCancels
  <2>7. ASSUME NEW p \in Pane, AnnouncePosts(g, p) PROVE BannerInv'
    BY <2>7 DEF AnnouncePosts
  <2>. QED BY <1>7, <2>1, <2>2, <2>3, <2>4, <2>5, <2>6, <2>7 DEF ReaderRuns
<1>8. CASE Lifecycle BY <1>8 DEF Lifecycle
<1>9. ASSUME NEW p \in Pane, BannerLeaves(p) PROVE BannerInv'
  BY <1>9 DEF BannerLeaves
<1>10. CASE UNCHANGED vars BY <1>10
<1>. QED BY <1>1, <1>2, <1>3, <1>4, <1>5, <1>6, <1>7, <1>8, <1>9, <1>10 DEF Next

\* Every step keeps what is owed equal to what announce will buzz for.
LEMMA WatchStep ==
    ASSUME TypeOK, GenInv, WatchInv, [Next]_vars
    PROVE  WatchInv'
<1> USE BoundsAssumption, Generations DEF TypeOK, GenInv, WatchInv, vars, deskVars, sessVars, watchVars, readerVars, histVars
<1>1. ASSUME NEW p \in Pane, NEW st \in State \cup {Gone}, AgentChanges(p, st) PROVE WatchInv'
  BY <1>1 DEF AgentChanges, Rollup
<1>2. CASE SocketUp BY <1>2 DEF SocketUp, Rollup
<1>3. CASE SocketDrops BY <1>3 DEF SocketDrops
<1>4. CASE Connect BY <1>4 DEF Connect, NewSession, ResetsWatch
<1>5. CASE Disconnect BY <1>5 DEF Disconnect, NewSession
<1>6. CASE Receive BY <1>6 DEF Receive
<1>7. ASSUME NEW g \in Gen, ReaderRuns(g) PROVE WatchInv'
  <2>1. CASE DropStale(g) BY <2>1 DEF DropStale, Current
  <2>2. CASE FoldPaneAgent(g) BY <2>2 DEF FoldPaneAgent, Current, PatchRoster
  <2>3. CASE FoldRollup(g) BY <2>3 DEF FoldRollup, Current, Observe, Blocked
  <2>4. CASE AnnounceCancelled(g) BY <2>4 DEF AnnounceCancelled, AllCancelled
  <2>5. CASE AnnounceBuzzes(g)
    <3>1. CASE g = gen
      BY <2>5, <3>1 DEF AnnounceBuzzes, Current
    <3>2. CASE g # gen
      BY <2>5, <3>2 DEF AnnounceBuzzes, Current
    <3>. QED BY <3>1, <3>2
  <2>6. ASSUME NEW p \in Pane, AnnounceCancels(g, p) PROVE WatchInv'
    BY <2>6 DEF AnnounceCancels
  <2>7. ASSUME NEW p \in Pane, AnnouncePosts(g, p) PROVE WatchInv'
    BY <2>7 DEF AnnouncePosts
  <2>. QED BY <1>7, <2>1, <2>2, <2>3, <2>4, <2>5, <2>6, <2>7 DEF ReaderRuns
<1>8. CASE Lifecycle BY <1>8 DEF Lifecycle
<1>9. ASSUME NEW p \in Pane, BannerLeaves(p) PROVE WatchInv'
  BY <1>9 DEF BannerLeaves
<1>10. CASE UNCHANGED vars BY <1>10
<1>. QED BY <1>1, <1>2, <1>3, <1>4, <1>5, <1>6, <1>7, <1>8, <1>9, <1>10 DEF Next

\* What is in flight is messages.
LEMMA FlightType ==
    ASSUME TypeOK, GenInv
    PROVE  Flight \in Seq(Message)
<1>1. CASE linked /\ reader[gen] = "holding"
  <2>1. held[gen] \in Message
    BY <1>1, Generations, BoundsAssumption DEF TypeOK, GenInv
  <2>. QED BY <1>1, <2>1 DEF Flight, GenInv
<1>2. CASE ~(linked /\ reader[gen] = "holding")
  BY <1>2 DEF Flight, GenInv
<1>. QED BY <1>1, <1>2

\* The reader folds the first message in flight.
LEMMA Folding ==
    ASSUME TypeOK, GenInv, linked, reader[gen] = "holding"
    PROVE  /\ held[gen] \in Message
           /\ Flight[1] = held[gen] /\ Len(Flight) = Len(wire) + 1
           /\ \A i \in 1..Len(wire) : Flight[i + 1] = wire[i]
<1>1. held[gen] \in Message /\ wire \in Seq(Message)
  BY Generations, BoundsAssumption DEF TypeOK, GenInv
<1>2. Flight = <<held[gen]>> \o wire
  BY DEF Flight
<1>. QED BY <1>1, <1>2

\* The rosters, the watch of the current socket and what is in flight.
Rosters == <<up, truth, agents, paneAgents, named, Flight>>
RosterInv == WireInv /\ PaneMatchesRoster /\ ChainInv

\* Most steps leave all of that alone.
LEMMA RostersSame ==
    ASSUME RosterInv, UNCHANGED Rosters
    PROVE  RosterInv'
  BY DEF Rosters, RosterInv, WireInv, PaneMatchesRoster, ChainInv, Agree

\* Receiving moves a message from the wire to the reader.
LEMMA ReceiveStep ==
    ASSUME TypeOK, GenInv, RosterInv, Receive
    PROVE  RosterInv'
<1>1. gen \in Gen /\ linked /\ reader[gen] = "idle" /\ wire # <<>> /\ wire \in Seq(Message)
  BY Generations, BoundsAssumption DEF TypeOK, GenInv, Receive
<1>2. reader'[gen] = "holding" /\ held'[gen] = Head(wire) /\ wire' = Tail(wire) /\ UNCHANGED <<gen, linked>>
  BY <1>1 DEF TypeOK, Receive
<1>3. Flight = wire /\ Flight' = <<Head(wire)>> \o Tail(wire)
  BY <1>1, <1>2 DEF Flight
<1>4. wire = <<Head(wire)>> \o Tail(wire)
  BY <1>1
<1>. QED BY <1>3, <1>4, RostersSame DEF Receive, Rosters, sessVars, histVars

\* A change at the desk: what is in flight grows at its end.
LEMMA AgentChangesStep ==
    ASSUME TypeOK, GenInv, RosterInv, NEW p \in Pane, NEW st \in State \cup {Gone}, AgentChanges(p, st)
    PROVE  RosterInv'
<1> DEFINE n == Len(Flight)
           R == Rollup(truth')
           m == [t |-> "pane_agent", pane |-> p, state |-> st]
<1>0. /\ up /\ up' /\ truth' = [truth EXCEPT ![p] = st] /\ truth \in Roster
      /\ UNCHANGED <<gen, linked, reader, held, agents, paneAgents, named>>
      /\ wire \in Seq(Message) /\ named \in SUBSET Pane
  BY DEF AgentChanges, sessVars, readerVars, histVars, TypeOK, GenInv
<1>1. Flight \in Seq(Message) /\ R \in Message /\ n \in Nat
  <2>1. Flight \in Seq(Message)
    BY FlightType
  <2>2. R \in Message
    BY Sent
  <2>. QED BY <2>1, <2>2, LenProperties
<1>2. n # 0 => Flight[n] = Rollup(truth)
  BY <1>0, <1>1 DEF RosterInv, WireInv
<1>3. n = 0 => Agree(truth, {})
  BY <1>0, <1>1 DEF RosterInv, WireInv, PaneMatchesRoster, Agree
<1>4. R.t = "agents" /\ R.items = truth' /\ Rollup(truth).t = "agents" /\ Rollup(truth).items = truth
  BY DEF Rollup
<1>5. truth'[p] = st /\ \A q \in Pane \ {p} : truth'[q] = truth[q]
  BY <1>0 DEF Roster
<1>6. PaneMatchesRoster'
  BY <1>0 DEF RosterInv, PaneMatchesRoster
<1>7. CASE st = Gone
  <2>1. Flight' = Append(Flight, R)
    <3>1. wire' = Append(wire, R)
      BY <1>7, Sent DEF State, Gone
    <3>2. CASE linked /\ reader[gen] = "holding"
      <4>1. held[gen] \in Message
        BY <3>2, Folding
      <4>2. <<held[gen]>> \o Append(wire, R) = Append(<<held[gen]>> \o wire, R)
        BY <4>1, <1>0, <1>1
      <4>. QED BY <1>0, <3>1, <3>2, <4>2 DEF Flight
    <3>3. CASE ~(linked /\ reader[gen] = "holding")
      BY <1>0, <3>1, <3>3 DEF Flight
    <3>. QED BY <3>2, <3>3
  <2>2. Len(Flight') = n + 1 /\ Flight'[n + 1] = R /\ \A i \in 1..n : Flight'[i] = Flight[i]
    BY <2>1, <1>1
  <2>3. WireInv'
    BY <2>1, <2>2, <1>1 DEF WireInv
  <2>4. Agree(truth, {}) => Agree(truth', {})
    BY <1>0, <1>5, <1>7 DEF Agree, Gone
  <2>5. ChainInv'
    <3> SUFFICES ASSUME NEW i \in 1..Len(Flight')
                 PROVE  /\ Flight'[i].t = "pane_agent" /\ i < Len(Flight') =>
                             /\ Flight'[i + 1].t = "agents"
                             /\ Flight'[i + 1].items[Flight'[i].pane] = Flight'[i].state
                             /\ i = 1 => Agree(Flight[2].items, {Flight[1].pane})'
                        /\ Flight'[i].t = "agents" =>
                             /\ i = 1 => Agree(Flight[1].items, {})'
                             /\ i + 1 <= Len(Flight') /\ Flight'[i + 1].t = "agents" =>
                                  \A q \in Pane : Flight'[i + 1].items[q] \in {Gone, Flight'[i].items[q]}
                             /\ i + 2 <= Len(Flight') /\ Flight'[i + 1].t = "pane_agent" =>
                                  \A q \in Pane \ {Flight'[i + 1].pane} : Flight'[i + 2].items[q] = Flight'[i].items[q]
      BY DEF ChainInv
    <3>1. CASE i = n + 1
      <4>1. i = 1 => Flight'[1].items = truth' /\ Agree(truth', {})
        BY <3>1, <1>1, <1>3, <1>4, <2>2, <2>4
      <4>2. i = 1 => Agree(Flight[1].items, {})'
        BY <4>1, <1>0 DEF Agree
      <4>. QED BY <3>1, <4>2, <1>1, <1>4, <2>2
    <3>2. CASE i = n
      <4>1. Flight'[i].t = "agents" /\ Flight'[i].items = truth
            /\ Flight'[i + 1].t = "agents" /\ Flight'[i + 1].items = truth'
        BY <3>2, <1>1, <1>2, <1>4, <2>2
      <4>2. i = 1 => Agree(Flight[1].items, {})
        BY <3>2, <1>1, <1>2, <1>4 DEF RosterInv, ChainInv
      <4>3. i = 1 => Agree(Flight[1].items, {})'
        BY <4>2, <3>2, <1>0, <1>1, <2>2 DEF Agree
      <4>4. \A q \in Pane : truth'[q] \in {Gone, truth[q]}
        BY <1>5, <1>7
      <4>. QED BY <4>1, <4>3, <4>4, <3>2, <1>1, <2>2
    <3>3. CASE i < n
      BY <3>3, <1>0, <1>1, <1>2, <1>4, <2>2 DEF RosterInv, ChainInv, Agree
    <3>. QED BY <3>1, <3>2, <3>3, <1>1, <2>2
  <2>. QED BY <1>6, <2>3, <2>5 DEF RosterInv
<1>8. CASE st \in State
  <2>1. Flight' = Append(Append(Flight, m), R)
    <3>1. wire' = Append(Append(wire, m), R) /\ m \in Message
      BY <1>8, Sent DEF State, Gone
    <3>2. CASE linked /\ reader[gen] = "holding"
      <4>1. held[gen] \in Message
        BY <3>2, Folding
      <4>2. <<held[gen]>> \o Append(Append(wire, m), R) = Append(Append(<<held[gen]>> \o wire, m), R)
        BY <4>1, <3>1, <1>0, <1>1
      <4>. QED BY <1>0, <3>1, <3>2, <4>2 DEF Flight
    <3>3. CASE ~(linked /\ reader[gen] = "holding")
      BY <1>0, <3>1, <3>3 DEF Flight
    <3>. QED BY <3>2, <3>3
  <2>2. /\ Len(Flight') = n + 2 /\ Flight'[n + 2] = R /\ Flight'[n + 1] = m
        /\ \A i \in 1..n : Flight'[i] = Flight[i]
    BY <2>1, <1>1, <1>8, Sent DEF State, Gone
  <2>3. WireInv'
    BY <2>1, <2>2, <1>1 DEF WireInv
  <2>4. Agree(truth, {}) => Agree(truth', {p})
    BY <1>0, <1>5 DEF Agree
  <2>5. ChainInv'
    <3> SUFFICES ASSUME NEW i \in 1..Len(Flight')
                 PROVE  /\ Flight'[i].t = "pane_agent" /\ i < Len(Flight') =>
                             /\ Flight'[i + 1].t = "agents"
                             /\ Flight'[i + 1].items[Flight'[i].pane] = Flight'[i].state
                             /\ i = 1 => Agree(Flight[2].items, {Flight[1].pane})'
                        /\ Flight'[i].t = "agents" =>
                             /\ i = 1 => Agree(Flight[1].items, {})'
                             /\ i + 1 <= Len(Flight') /\ Flight'[i + 1].t = "agents" =>
                                  \A q \in Pane : Flight'[i + 1].items[q] \in {Gone, Flight'[i].items[q]}
                             /\ i + 2 <= Len(Flight') /\ Flight'[i + 1].t = "pane_agent" =>
                                  \A q \in Pane \ {Flight'[i + 1].pane} : Flight'[i + 2].items[q] = Flight'[i].items[q]
      BY DEF ChainInv
    <3>1. CASE i = n + 2
      BY <3>1, <1>1, <1>4, <2>2
    <3>2. CASE i = n + 1
      <4>1. Flight'[i] = m /\ Flight'[i + 1].t = "agents" /\ Flight'[i + 1].items = truth'
        BY <3>2, <1>1, <1>4, <2>2
      <4>2. i = 1 => Flight'[2].items = truth' /\ Flight'[1].pane = p /\ Agree(truth', {p})
        BY <3>2, <4>1, <1>3, <2>4
      <4>3. i = 1 => Agree(Flight[2].items, {Flight[1].pane})'
        BY <4>2, <1>0 DEF Agree
      <4>. QED BY <4>1, <4>3, <1>5
    <3>3. CASE i = n
      <4>1. Flight'[i].t = "agents" /\ Flight'[i].items = truth /\ Flight'[i + 1] = m
            /\ Flight'[i + 2].items = truth'
        BY <3>3, <1>1, <1>2, <1>4, <2>2
      <4>2. i = 1 => Agree(Flight[1].items, {})
        BY <3>3, <1>1, <1>2, <1>4 DEF RosterInv, ChainInv
      <4>3. i = 1 => Agree(Flight[1].items, {})'
        BY <4>2, <3>3, <1>0, <1>1, <2>2 DEF Agree
      <4>. QED BY <4>1, <4>3, <1>5
    <3>4. CASE i < n
      <4>1. /\ i \in 1..n /\ i + 1 <= n /\ Flight'[i] = Flight[i] /\ Flight'[i + 1] = Flight[i + 1]
            /\ i + 2 <= n => Flight'[i + 2] = Flight[i + 2]
            /\ i + 2 > n => i + 1 = n /\ Flight'[i + 1].t = "agents"
            /\ i = 1 => Flight'[1] = Flight[1] /\ Flight'[2] = Flight[2]
        BY <3>4, <1>1, <1>2, <1>4, <2>2
      <4>2. /\ i = 1 /\ Flight[i].t = "pane_agent" => Agree(Flight[2].items, {Flight[1].pane})
            /\ i = 1 /\ Flight[i].t = "agents" => Agree(Flight[1].items, {})
        BY <4>1, <3>4, <1>1 DEF RosterInv, ChainInv
      <4>3. /\ i = 1 /\ Flight[i].t = "pane_agent" => Agree(Flight[2].items, {Flight[1].pane})'
            /\ i = 1 /\ Flight[i].t = "agents" => Agree(Flight[1].items, {})'
        BY <4>1, <4>2, <1>0 DEF Agree
      <4>4. Flight[i].t = "pane_agent" =>
              Flight[i + 1].t = "agents" /\ Flight[i + 1].items[Flight[i].pane] = Flight[i].state
        BY <4>1, <3>4, <1>1 DEF RosterInv, ChainInv
      <4>5. Flight[i].t = "agents" =>
              /\ Flight[i + 1].t = "agents" =>
                   \A q \in Pane : Flight[i + 1].items[q] \in {Gone, Flight[i].items[q]}
              /\ i + 2 <= n /\ Flight[i + 1].t = "pane_agent" =>
                   \A q \in Pane \ {Flight[i + 1].pane} : Flight[i + 2].items[q] = Flight[i].items[q]
        BY <4>1, <3>4, <1>1 DEF RosterInv, ChainInv
      <4>6. CASE Flight[i].t = "pane_agent"
        BY <4>1, <4>3, <4>4, <4>6
      <4>7. CASE Flight[i].t = "agents"
        BY <4>1, <4>3, <4>5, <4>7
      <4>. QED BY <4>1, <4>6, <4>7
    <3>. QED BY <3>1, <3>2, <3>3, <3>4, <1>1, <2>2
  <2>. QED BY <1>6, <2>3, <2>5 DEF RosterInv
<1>. QED BY <1>7, <1>8

\* A fold takes the first message off what is in flight.
LEMMA Folded ==
    ASSUME TypeOK, GenInv, NEW g \in Gen, FoldPaneAgent(g) \/ FoldRollup(g)
    PROVE  /\ g = gen /\ held[g] \in Message /\ Flight[1] = held[g]
           /\ Flight' \in Seq(Message) /\ Len(Flight') \in Nat /\ Len(Flight) = Len(Flight') + 1
           /\ \A i \in 1..Len(Flight') : Flight'[i] = Flight[i + 1]
           /\ UNCHANGED <<up, truth>>
<1>1. g = gen /\ reader[gen] = "holding" /\ linked /\ wire' = wire
      /\ UNCHANGED <<gen, linked, up, truth>>
  BY DEF FoldPaneAgent, FoldRollup, Current, GenInv, TypeOK, deskVars
<1>2. reader'[gen] # "holding"
  BY <1>1 DEF FoldPaneAgent, FoldRollup, TypeOK
<1>3. Flight' = wire /\ wire \in Seq(Message)
  BY <1>1, <1>2 DEF Flight, GenInv
<1>. QED BY <1>1, <1>3, Folding, LenProperties

\* What ChainInv says of the messages at i and behind it.
Follows(i) ==
    /\ Flight[i].t = "pane_agent" /\ i < Len(Flight) =>
          /\ Flight[i + 1].t = "agents"
          /\ Flight[i + 1].items[Flight[i].pane] = Flight[i].state
    /\ Flight[i].t = "agents" =>
          /\ i + 1 <= Len(Flight) /\ Flight[i + 1].t = "agents" =>
                \A q \in Pane : Flight[i + 1].items[q] \in {Gone, Flight[i].items[q]}
          /\ i + 2 <= Len(Flight) /\ Flight[i + 1].t = "pane_agent" =>
                \A q \in Pane \ {Flight[i + 1].pane} : Flight[i + 2].items[q] = Flight[i].items[q]

\* It holds of what is left when the first message is taken.
LEMMA Shifted ==
    ASSUME RosterInv, Len(Flight') \in Nat, Len(Flight) = Len(Flight') + 1,
           \A i \in 1..Len(Flight') : Flight'[i] = Flight[i + 1]
    PROVE  \A i \in 1..Len(Flight') : Follows(i)'
<1> SUFFICES ASSUME NEW i \in 1..Len(Flight') PROVE Follows(i)'
  OBVIOUS
<1> DEFINE n == Len(Flight')
           k == i + 1
<1>1. k \in 1..Len(Flight) /\ Flight'[i] = Flight[k]
      /\ (i + 1 <= n => Flight'[i + 1] = Flight[k + 1] /\ k + 1 <= Len(Flight))
      /\ (i + 2 <= n => Flight'[i + 2] = Flight[k + 2] /\ k + 2 <= Len(Flight) /\ i + 1 <= n)
      /\ (i < n => i + 1 <= n /\ k < Len(Flight))
  OBVIOUS
<1> HIDE DEF k
<1>2. Follows(k)
  BY <1>1 DEF RosterInv, ChainInv, Follows
<1>. QED BY <1>1, <1>2 DEF Follows

\* Folding a pane_agent: the rollup behind it says the same.
LEMMA FoldPaneAgentStep ==
    ASSUME TypeOK, GenInv, RosterInv, NEW g \in Gen, FoldPaneAgent(g)
    PROVE  RosterInv'
<1> DEFINE m == held[g]
           n == Len(Flight')
<1>1. /\ Flight[1] = m /\ n \in Nat /\ Len(Flight) = n + 1 /\ UNCHANGED <<up, truth>>
      /\ Flight' \in Seq(Message) /\ \A i \in 1..n : Flight'[i] = Flight[i + 1]
  BY Folded
<1>2. m.t = "pane_agent" /\ m.pane \in Pane /\ m.state \in State
  BY Folded, MessageFields DEF FoldPaneAgent
<1>3. /\ paneAgents' = [paneAgents EXCEPT ![m.pane] = m.state] /\ named' = named \cup {m.pane}
      /\ agents' = IF agents[m.pane] = Gone THEN agents ELSE [agents EXCEPT ![m.pane] = m.state]
      /\ agents \in Roster /\ paneAgents \in [Pane -> State \cup {Unset}] /\ named \in SUBSET Pane
  BY DEF FoldPaneAgent, PatchRoster, TypeOK
<1>4. PaneMatchesRoster'
  BY <1>2, <1>3 DEF RosterInv, PaneMatchesRoster, Roster
<1>5. WireInv'
  <2>1. up => Flight[n + 1] = Rollup(truth)
    BY <1>1 DEF RosterInv, WireInv
  <2>2. Rollup(truth).t = "agents"
    BY DEF Rollup
  <2>3. up => n # 0
    BY <1>1, <1>2, <2>1, <2>2
  <2>. QED BY <1>1, <2>1, <2>3 DEF WireInv, Rollup
<1>6. n # 0 => Flight'[1].t = "agents" /\ Agree(Flight[1].items, {})'
  <2> SUFFICES ASSUME n # 0 PROVE Flight'[1].t = "agents" /\ Agree(Flight[1].items, {})'
    OBVIOUS
  <2>1. Flight'[1] = Flight[2] /\ Flight[2].t = "agents" /\ Flight[2].items[m.pane] = m.state
        /\ Agree(Flight[2].items, {m.pane})
    <3>1. 1 \in 1..Len(Flight) /\ 1 < Len(Flight) /\ 1 + 1 = 2 /\ Flight'[1] = Flight[1 + 1]
      BY <1>1
    <3>. QED BY <1>1, <1>2, <3>1 DEF RosterInv, ChainInv
  <2>. QED BY <1>2, <1>3, <2>1 DEF Agree
<1>7. ChainInv'
  <2>1. \A i \in 1..n : i = 1 => Flight'[i].t = "agents" /\ Agree(Flight[1].items, {})'
    BY <1>1, <1>6
  <2>2. \A i \in 1..n : Follows(i)'
    BY <1>1, Shifted
  <2>. QED BY <2>1, <2>2 DEF ChainInv, Follows
<1>. QED BY <1>4, <1>5, <1>7 DEF RosterInv

\* Folding a rollup: what is in flight behind it follows on it.
LEMMA FoldRollupStep ==
    ASSUME TypeOK, GenInv, RosterInv, NEW g \in Gen, FoldRollup(g)
    PROVE  RosterInv'
<1> DEFINE m == held[g]
           n == Len(Flight')
<1>1. /\ Flight[1] = m /\ n \in Nat /\ Len(Flight) = n + 1 /\ UNCHANGED <<up, truth>>
      /\ Flight' \in Seq(Message) /\ \A i \in 1..n : Flight'[i] = Flight[i + 1]
  BY Folded
<1>2. m.t = "agents" /\ m.items \in Roster
  BY Folded, MessageFields DEF FoldRollup
<1>3. agents' = m.items /\ UNCHANGED <<paneAgents, named>> /\ named \in SUBSET Pane
  BY DEF FoldRollup, TypeOK
<1>4. Agree(m.items, {})
  BY <1>1, <1>2 DEF RosterInv, ChainInv
<1>5. PaneMatchesRoster'
  BY <1>3, <1>4 DEF PaneMatchesRoster, Agree
<1>6. WireInv'
  <2>1. up => Flight[n + 1] = Rollup(truth)
    BY <1>1 DEF RosterInv, WireInv
  <2>2. Rollup(truth).items = truth
    BY DEF Rollup
  <2>3. CASE n = 0
    BY <1>1, <1>3, <2>1, <2>2, <2>3 DEF WireInv
  <2>4. CASE n # 0
    BY <1>1, <2>1, <2>4 DEF WireInv, Rollup
  <2>. QED BY <2>3, <2>4
<1>7. n # 0 /\ Flight'[1].t = "agents" => Agree(Flight[1].items, {})'
  <2>1. n # 0 /\ Flight'[1].t = "agents" =>
          Flight'[1] = Flight[2] /\ \A p \in Pane : Flight[2].items[p] \in {Gone, m.items[p]}
    <3> SUFFICES ASSUME n # 0, Flight'[1].t = "agents"
                 PROVE  Flight'[1] = Flight[2] /\ \A p \in Pane : Flight[2].items[p] \in {Gone, m.items[p]}
      OBVIOUS
    <3>1. 1 \in 1..Len(Flight) /\ 1 + 1 <= Len(Flight) /\ 1 + 1 = 2 /\ Flight'[1] = Flight[1 + 1]
      BY <1>1
    <3>. QED BY <1>1, <1>2, <3>1 DEF RosterInv, ChainInv
  <2>. QED BY <1>3, <1>4, <2>1 DEF Agree
<1>8. n > 1 /\ Flight'[1].t = "pane_agent" => Agree(Flight[2].items, {Flight[1].pane})'
  <2>1. n > 1 /\ Flight'[1].t = "pane_agent" =>
          /\ Flight'[1] = Flight[2] /\ Flight'[2] = Flight[3]
          /\ \A p \in Pane \ {Flight[2].pane} : Flight[3].items[p] = m.items[p]
    <3> SUFFICES ASSUME n > 1, Flight'[1].t = "pane_agent"
                 PROVE  /\ Flight'[1] = Flight[2] /\ Flight'[2] = Flight[3]
                        /\ \A p \in Pane \ {Flight[2].pane} : Flight[3].items[p] = m.items[p]
      OBVIOUS
    <3>1. /\ 1 \in 1..Len(Flight) /\ 1 + 2 <= Len(Flight) /\ 1 + 1 = 2 /\ 1 + 2 = 3
          /\ Flight'[1] = Flight[1 + 1] /\ Flight'[2] = Flight[2 + 1] /\ 2 + 1 = 3
      BY <1>1
    <3>. QED BY <1>1, <1>2, <3>1 DEF RosterInv, ChainInv
  <2>. QED BY <1>3, <1>4, <2>1 DEF Agree
<1>9. ChainInv'
  <2>1. \A i \in 1..n : Follows(i)'
    BY <1>1, Shifted
  <2>2. ASSUME NEW i \in 1..n
        PROVE  /\ Flight'[i].t = "agents" /\ i = 1 => Agree(Flight[1].items, {})'
               /\ Flight'[i].t = "pane_agent" /\ i < n /\ i = 1 => Agree(Flight[2].items, {Flight[1].pane})'
    BY <1>1, <1>7, <1>8
  <2> HIDE DEF n
  <2>3. \A i \in 1..n :
          /\ Flight'[i].t = "pane_agent" /\ i < Len(Flight') =>
                /\ Flight'[i + 1].t = "agents"
                /\ Flight'[i + 1].items[Flight'[i].pane] = Flight'[i].state
          /\ Flight'[i].t = "agents" =>
                /\ i + 1 <= Len(Flight') /\ Flight'[i + 1].t = "agents" =>
                      \A p \in Pane : Flight'[i + 1].items[p] \in {Gone, Flight'[i].items[p]}
                /\ i + 2 <= Len(Flight') /\ Flight'[i + 1].t = "pane_agent" =>
                      \A p \in Pane \ {Flight'[i + 1].pane} : Flight'[i + 2].items[p] = Flight'[i].items[p]
    BY <2>1 DEF Follows
  <2>. QED BY <2>2, <2>3 DEF ChainInv, n
<1>. QED BY <1>5, <1>6, <1>9 DEF RosterInv

\* A socket drops, or a generation ends: at most the message held is left.
LEMMA ShortFlight ==
    ASSUME TypeOK, GenInv, RosterInv, ~up', Flight' = <<>> \/ (Flight' = <<Flight[1]>> /\ Len(Flight) # 0),
           UNCHANGED <<agents, paneAgents, named>> \/ named' = {}
    PROVE  RosterInv'
<1>1. WireInv'
  BY DEF WireInv
<1>2. PaneMatchesRoster'
  BY DEF RosterInv, PaneMatchesRoster
<1>3. CASE Flight' = <<>>
  <2>1. Len(Flight') = 0
    BY <1>3
  <2>. QED BY <1>1, <1>2, <2>1 DEF RosterInv, ChainInv
<1>4. CASE Flight' = <<Flight[1]>> /\ Len(Flight) # 0
  <2>1. Len(Flight') = 1 /\ Flight'[1] = Flight[1]
    BY <1>4
  <2>2. Len(Flight) \in Nat
    BY FlightType, LenProperties
  <2>3. Flight[1].t = "agents" => Agree(Flight[1].items, {})
    BY <1>4, <2>2 DEF RosterInv, ChainInv
  <2>4. Flight'[1].t = "agents" => Agree(Flight[1].items, {})'
    BY <2>1, <2>3 DEF Agree
  <2>. QED BY <1>1, <1>2, <2>1, <2>4 DEF RosterInv, ChainInv
<1>. QED BY <1>3, <1>4

\* Every step keeps the rosters true.
LEMMA RosterStep ==
    ASSUME TypeOK, GenInv, RosterInv, [Next]_vars
    PROVE  RosterInv'
<1> USE BoundsAssumption, Generations, RostersSame DEF TypeOK, GenInv, Rosters, Flight, vars, deskVars, sessVars, watchVars, readerVars, histVars
<1>1. ASSUME NEW p \in Pane, NEW st \in State \cup {Gone}, AgentChanges(p, st) PROVE RosterInv'
  BY <1>1, AgentChangesStep
<1>2. CASE SocketUp
  <2>1. Flight' = <<Rollup(truth')>> /\ named' = {} /\ up'
    BY <1>2 DEF SocketUp
  <2> HIDE DEF Flight
  <2>2. Len(Flight') = 1 /\ Flight'[1] = Rollup(truth') /\ Flight'[1].t = "agents"
    BY <2>1 DEF Rollup
  <2>3. Agree(Flight[1].items, {})'
    BY <2>1 DEF Agree
  <2>. QED BY <2>1, <2>2, <2>3 DEF RosterInv, WireInv, PaneMatchesRoster, ChainInv
<1>3. CASE SocketDrops
  <2>1. ~up' /\ UNCHANGED <<agents, paneAgents, named>>
    BY <1>3 DEF SocketDrops
  <2>2. linked /\ reader[gen] = "holding" => Flight' = <<held[gen]>>
    BY <1>3 DEF SocketDrops
  <2>3. ~(linked /\ reader[gen] = "holding") => Flight' = <<>>
    BY <1>3 DEF SocketDrops
  <2> HIDE DEF Flight
  <2>4. linked /\ reader[gen] = "holding" => Flight' = <<Flight[1]>> /\ Len(Flight) # 0
    BY <2>2, Folding
  <2> HIDE DEF TypeOK, GenInv, Rosters
  <2>. QED BY <2>1, <2>3, <2>4, ShortFlight
<1>4. CASE Connect
  <2>1. reader'[gen'] = "idle" /\ wire' = <<>> /\ ~up' /\ named' = {}
    BY <1>4 DEF Connect, NewSession
  <2>2. Flight' = <<>>
    BY <2>1
  <2> HIDE DEF Flight
  <2> HIDE DEF TypeOK, GenInv, Rosters
  <2>. QED BY <2>1, <2>2, ShortFlight
<1>5. CASE Disconnect
  <2>1. ~linked' /\ wire' = <<>> /\ ~up' /\ named' = {}
    BY <1>5 DEF Disconnect, NewSession
  <2>2. Flight' = <<>>
    BY <2>1
  <2> HIDE DEF Flight
  <2> HIDE DEF TypeOK, GenInv, Rosters
  <2>. QED BY <2>1, <2>2, ShortFlight
<1>6. CASE Receive
  BY <1>6, ReceiveStep
<1>7. ASSUME NEW g \in Gen, ReaderRuns(g) PROVE RosterInv'
  <2>1. CASE DropStale(g) BY <2>1 DEF DropStale, Current
  <2>2. CASE FoldPaneAgent(g)
    BY <2>2, FoldPaneAgentStep
  <2>3. CASE FoldRollup(g)
    BY <2>3, FoldRollupStep
  <2>4. CASE AnnounceCancelled(g) BY <2>4 DEF AnnounceCancelled, AllCancelled
  <2>5. CASE AnnounceBuzzes(g) BY <2>5 DEF AnnounceBuzzes, Current
  <2>6. ASSUME NEW p \in Pane, AnnounceCancels(g, p) PROVE RosterInv'
    BY <2>6 DEF AnnounceCancels
  <2>7. ASSUME NEW p \in Pane, AnnouncePosts(g, p) PROVE RosterInv'
    BY <2>7 DEF AnnouncePosts
  <2>. QED BY <1>7, <2>1, <2>2, <2>3, <2>4, <2>5, <2>6, <2>7 DEF ReaderRuns
<1>8. CASE Lifecycle BY <1>8 DEF Lifecycle
<1>9. ASSUME NEW p \in Pane, BannerLeaves(p) PROVE RosterInv'
  BY <1>9 DEF BannerLeaves
<1>10. CASE UNCHANGED vars BY <1>10
<1>. QED BY <1>1, <1>2, <1>3, <1>4, <1>5, <1>6, <1>7, <1>8, <1>9, <1>10 DEF Next

-----------------------------------------------------------------------------

\* The inductive invariant holds at the start.
LEMMA Initially == Init => IInv
<1> SUFFICES ASSUME Init PROVE IInv
  OBVIOUS
<1>1. TypeOK
  <2>1. NewAgents \in Roster /\ NewPaneAgents \in [Pane -> State \cup {Unset}]
    BY DEF NewAgents, NewPaneAgents, Roster
  <2>2. \A i \in 1..Len(wire) : wire[i] \in Message
    BY ShortWires, OnWire DEF Init
  <2>3. tray \in [Pane -> 0..MaxGen] /\ gen \in 0..MaxGen
    BY BoundsAssumption DEF Init
  <2>. QED BY <2>1, <2>2, <2>3 DEF Init, TypeOK
<1>2. GenInv
  BY Generations, ShortWires DEF Init, GenInv
<1>3. Flight = <<>> /\ Len(<<>>) = 0
  BY DEF Init, Flight
<1>. QED BY <1>1, <1>2, <1>3 DEF Init, IInv, BannerInv, WatchInv, WireInv, PaneMatchesRoster, ChainInv

\* The inductive invariant is kept.
LEMMA Inductive == Spec => []IInv
<1>1. IInv /\ [Next]_vars => IInv'
  BY TypeStep, GenStep, BannerStep, WatchStep, RosterStep DEF IInv, RosterInv
<1>. QED BY Initially, <1>1, PTL DEF Spec

\* The variables keep their types.
THEOREM TypeCorrect == Spec => []TypeOK
<1>1. IInv => TypeOK
  BY DEF IInv
<1>. QED BY Inductive, <1>1, PTL

\* Once the reader has announced what it folded, each banner of this generation
\* is for an agent the last rollup has blocked.
THEOREM BannersStayCurrent == Spec => []BannersCurrent
<1>1. IInv => BannersCurrent
  BY Generations, BoundsAssumption DEF IInv, TypeOK, GenInv, BannerInv, BannersCurrent, Quiet
<1>. QED BY Inductive, <1>1, PTL

\* The phone buzzes for every agent that a rollup shows blocked and the one
\* before it did not, and for no other.
THEOREM Announced == Spec => []AnnouncedOnce
<1>1. IInv => AnnouncedOnce
  BY DEF IInv, WatchInv, AnnouncedOnce, NoneMissed, OnlyNews, Quiet
<1>. QED BY Inductive, <1>1, PTL

\* The roster drawn follows the desk, and the pane screen says the same.
THEOREM RosterTrue == Spec => []RosterIsTrue
<1>1. IInv => RosterIsTrue
  BY DEF IInv, WireInv, Flight, RosterIsTrue, RosterFollows, Quiet
<1>. QED BY Inductive, <1>1, PTL
=============================================================================
