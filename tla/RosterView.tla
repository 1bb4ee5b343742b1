----------------------------- MODULE RosterView -----------------------------
(***************************************************************************)
(* What the agents screen draws of a rollup: the order of the agents       *)
(* (Roster and groupRank in src/internal/catsclient/session.go), the two   *)
(* halves of the plugin panes (SplitPlugins), and the headings and rules   *)
(* between the rows (src/app/agents.go).  Pure functions of the session;   *)
(* module Attention says how the session comes to be what it is.           *)
(***************************************************************************)
EXTENDS Naturals, Sequences, SequencesExt, Functions

VARIABLES agents, plugins     \* Session.Agents and Session.Plugins

rosterVars == <<agents, plugins>>

\* "unknown" and "unheard" stand for every name this build does not have.  NoState
\* is that of a report that gives none, which patchRoster copies as it comes.
NoState == ""
State == {NoState, "blocked", "working", "idle", "unknown", "unheard"}
Agent(P, W)  == [pub : P, state : State, seen : BOOLEAN, since : W]
Plugin(P, K) == [plugin : P, kind : K]

-----------------------------------------------------------------------------
(* Session.                                                                *)

\* A mutant: finished outranks every request.
SeenFirst(a) ==
    IF ~a.seen THEN 0
    ELSE CASE a.state = "blocked" -> 0 [] a.state = "working" -> 1
           [] a.state = "idle" -> 3 [] OTHER -> 4

\* blocked, working, finished while nobody looked, idle, anything else.
GroupRank(a) ==
    IF ~a.seen /\ a.state # "blocked" THEN 2
    ELSE CASE a.state = "blocked" -> 0 [] a.state = "working" -> 1
           [] a.state = "idle" -> 3 [] OTHER -> 4

\* Within a group the longest waiting first, and the handle breaks a tie.
Before(a, b) ==
    \/ GroupRank(a) < GroupRank(b)
    \/ GroupRank(a) = GroupRank(b) /\ a.since > b.since
    \/ GroupRank(a) = GroupRank(b) /\ a.since = b.since /\ a.pub < b.pub

\* The agents, each where it was put, and no one behind one it is before.
Sorted(s, put) == \A j, k \in 1..Len(s) : j < k => ~Before(s[put[k]], s[put[j]])
Roster(s) ==
    LET put == CHOOSE put \in Bijection(1..Len(s), 1..Len(s)) : Sorted(s, put)
    IN  [k \in 1..Len(s) |-> s[put[k]]]

AgentPlugins(s) ==
    FlattenSeq([k \in 1..Len(s) |-> IF s[k].kind = "agent" THEN <<s[k]>> ELSE <<>>])
ToolPlugins(s) ==
    FlattenSeq([k \in 1..Len(s) |-> IF s[k].kind = "agent" THEN <<>> ELSE <<s[k]>>])

-----------------------------------------------------------------------------
(* The screen, from top to bottom.                                         *)

Heading(name) == [draw |-> "heading", of |-> name]
Row(x)        == [draw |-> "row", of |-> x]
Rule          == [draw |-> "rule", of |-> "plugins"]
NoneYet       == [draw |-> "none", of |-> "agents"]

StateGroupTitle(state) == IF state \in {"blocked", "working", "idle"} THEN state ELSE "unknown"

\* A mutant: the loop does not keep the state it has drawn a heading for.
NeverKept(r, k) == NoState

\* lastState when the loop comes to agent k: no state before the first.
LastState(r, k) == IF k = 1 THEN NoState ELSE r[k - 1].state

\* A heading wherever the state changes, not where its title does.
StateRows(r) ==
    FlattenSeq([k \in 1..Len(r) |->
        IF r[k].state # LastState(r, k)
        THEN <<Heading(StateGroupTitle(r[k].state)), Row(r[k])>> ELSE <<Row(r[k])>>])

\* A rule wherever the plugin changes; no section at all for no panes.
PluginRows(name, s) ==
    IF s = <<>> THEN <<>>
    ELSE <<Heading(name)>> \o FlattenSeq([k \in 1..Len(s) |->
             IF k > 1 /\ s[k].plugin # s[k - 1].plugin THEN <<Rule, Row(s[k])>> ELSE <<Row(s[k])>>])

AgentsScreen(ag, pl) ==
    (IF ag = <<>> /\ AgentPlugins(pl) = <<>> THEN <<NoneYet>> ELSE <<>>)
    \o StateRows(Roster(ag))
    \o PluginRows("agent plugins", AgentPlugins(pl))
    \o PluginRows("plugins", ToolPlugins(pl))

-----------------------------------------------------------------------------
(* Properties.                                                             *)

IsHeading(e) == e.draw = "heading"
RowsOf(s)    == FlattenSeq([k \in 1..Len(s) |-> IF s[k].draw = "row" THEN <<s[k].of>> ELSE <<>>])

\* The heading a position of the screen stands under.
Above(s, k) == s[CHOOSE j \in 1..k : IsHeading(s[j]) /\ \A i \in (j + 1)..k : ~IsHeading(s[i])].of

\* Who needs the person is found at the top: nobody who is blocked stands below
\* anybody who is not, no agent that finished unseen below an idle one that was
\* looked at, and of two in one group the one that has waited longer is first.
\* The order is that of the agents, not of their arrival in the rollup.
NeedsYouFirst ==
    LET r == Roster(agents) IN
    /\ r = Roster(Reverse(agents)) /\ ToSet(r) = ToSet(agents)
    /\ \A j, k \in 1..Len(r) : j < k =>
          /\ r[k].state = "blocked" => r[j].state = "blocked"
          /\ ~(r[j].state = "idle" /\ r[j].seen /\ r[k].state = "idle" /\ ~r[k].seen)
          /\ r[j].state = r[k].state /\ r[j].seen = r[k].seen => r[j].since >= r[k].since

\* The heading an agent or a plugin pane belongs under.
Home(x) == IF "state" \in DOMAIN x THEN StateGroupTitle(x.state)
           ELSE IF x.kind = "agent" THEN "agent plugins" ELSE "plugins"

\* An agent whose report gave no state.
Stateless(x) == "state" \in DOMAIN x /\ x.state = NoState

\* The groups are the headings: only a finished or a blocked agent is unseen,
\* and no two states have one title.
Groups(ag) ==
    /\ \A a \in ag : ~a.seen => a.state \in {"idle", "blocked"}
    /\ \A a, b \in ag : StateGroupTitle(a.state) = StateGroupTitle(b.state) => a.state = b.state

\* Every row stands under the heading it belongs to, but for agents of no state
\* at the very top, which the loop takes for a group it has begun; no heading
\* comes twice where the groups are the headings; and every agent and plugin
\* pane is drawn exactly once.
UnderItsOwnHeading ==
    LET s == AgentsScreen(agents, plugins)
    IN  /\ Len(RowsOf(s)) = Len(agents) + Len(plugins)
        /\ ToSet(RowsOf(s)) = ToSet(agents) \cup ToSet(plugins)
        /\ \A k \in 1..Len(s) : s[k].draw = "row" =>
              IF \E j \in 1..k : IsHeading(s[j]) THEN Above(s, k) = Home(s[k].of)
                                               ELSE Stateless(s[k].of)
        /\ Groups(ToSet(agents)) =>
              \A j, k \in 1..Len(s) : IsHeading(s[j]) /\ IsHeading(s[k]) /\ s[j].of = s[k].of => j = k

\* The agents screen can be read from the top, when there is anything on it.
RosterReads == agents # <<>> \/ plugins # <<>> => NeedsYouFirst /\ UnderItsOwnHeading
=============================================================================
