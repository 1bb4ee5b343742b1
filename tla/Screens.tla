------------------------------- MODULE Screens -------------------------------
(***************************************************************************)
(* The screens of the app, src/app, checked together: each behaviour is    *)
(* one person's time on one of them, the others keep their first state.    *)
(* The connection under them is in modules Conn, Connection and Follow.    *)
(***************************************************************************)
EXTENDS Composer, Pairing, Alerts, RosterView, GridView

CONSTANTS Rollups, Rows     \* the rollups and the terminal rows to draw

\* The desk's emulator puts an empty cell behind a wide glyph, and nowhere else.
ASSUME RowsAssumption == \A row \in Rows : WellFormed(row)

\* A rollup names a pane once, so the handle makes the order of the agents total.
ASSUME RollupsAssumption ==
    \A r \in Rollups :
        /\ r[1] \in Seq(Agent(Nat, Nat)) /\ r[2] \in Seq(Plugin(STRING, STRING))
        /\ \A j, k \in 1..Len(r[1]) : r[1][j].pub = r[1][k].pub => j = k

VARIABLE screenShown

screensVars == <<screenShown, composerVars, pairingVars, alertsVars, rosterVars, cells>>

ScreensTypeOK ==
    /\ screenShown \in {"pane", "pair", "alerts", "agents", "grid"}
    /\ ComposerTypeOK /\ PairingTypeOK /\ AlertsTypeOK
    /\ WellFormed(cells)

Init ==
    /\ ComposerInit /\ PairingInit /\ AlertsInit
    /\ \/ screenShown \in {"pane", "pair", "alerts"} /\ agents = <<>> /\ plugins = <<>> /\ cells = <<>>
       \/ screenShown = "agents" /\ (\E r \in Rollups : agents = r[1] /\ plugins = r[2]) /\ cells = <<>>
       \/ screenShown = "grid" /\ agents = <<>> /\ plugins = <<>> /\ cells \in Rows

Next ==
    /\ UNCHANGED <<screenShown, rosterVars, cells>>
    /\ \/ screenShown = "pane" /\ ComposerNext /\ UNCHANGED <<pairingVars, alertsVars>>
       \/ screenShown = "pair" /\ PairingNext /\ UNCHANGED <<composerVars, alertsVars>>
       \/ screenShown = "alerts" /\ AlertsNext /\ UNCHANGED <<composerVars, pairingVars>>

Spec == Init /\ [][Next]_screensVars
=============================================================================
