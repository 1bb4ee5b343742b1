------------------------------- MODULE Alerts -------------------------------
(***************************************************************************)
(* The Alerts screen, the buttons of its notifications                     *)
(* (src/app/alerts.go, AnswerNotify in src/internal/catsclient/session.go) *)
(* and how a change of the session comes to be drawn: every writer in      *)
(* src/app/connection.go calls notify after it has released the lock, and  *)
(* a render pass reads the session under the lock and draws it outside.    *)
(*                                                                         *)
(* Threads: the taps that connect and disconnect, the loop and the reader  *)
(* of each generation, a goroutine for each answer, and the render loop.   *)
(* The dial, the socket and the exits of the loop are in module            *)
(* Connection.  catway is external: each desk numbers its notifications    *)
(* for itself and accepts one answer to each.                              *)
(***************************************************************************)
EXTENDS Naturals

CONSTANTS
    Desk,
    Id,          \* the ids catways give their notifications
    Answer,      \* the taps on a button
    MaxGen       \* bound on Connect and Disconnect

ASSUME AlertsAssumption == Desk # {} /\ Id # {} /\ MaxGen \in Nat

VARIABLES
    \* Connection: generation, its desk, status, has it a Conn; the session's
    \* Notifications, by what is left of their buttons
    gen, desk, status, attached, notes,
    \* each desk's registry, and the ids it has used
    registry, issued,
    \* the threads that have changed something and not called notify yet, a
    \* requested pass, where the pass is, what it read, what was drawn last
    owes, requested, passAt, read, screen,
    \* the answers: where each is, its id, the desk it was sent to
    at, ask, sentTo,
    \* history: the notifications a desk accepted an answer to and said so, and
    \* did an answer cross a change of desk
    acked, crossing

connVars  == <<gen, desk, status, attached, notes>>
deskVars  == <<registry, issued>>
passVars  == <<requested, passAt, read, screen>>
tapVars   == <<at, ask, sentTo>>
alertsVars == <<connVars, deskVars, owes, passVars, tapVars, acked, crossing>>

RowState == {"none", "open", "spent"}      \* no such row, a row with, without
LoopLife == {"connecting", "connected", "reconnecting"}
Writer   == {"ui", "loop", "reader"} \cup Answer
Picture  == [status : LoopLife \cup {"idle", "stopped"}, rows : [Id -> RowState], of : 0..MaxGen]

AlertsTypeOK ==
    /\ gen \in 0..MaxGen /\ desk \in Desk /\ attached \in BOOLEAN
    /\ status \in LoopLife \cup {"idle", "stopped"}
    /\ notes \in [Id -> RowState]
    /\ registry \in [Desk -> SUBSET Id] /\ issued \in [Desk -> SUBSET Id]
    /\ owes \in SUBSET Writer /\ requested \in BOOLEAN /\ passAt \in {"none", "banner", "rows"}
    /\ read \in Picture /\ screen \in Picture
    /\ at \in [Answer -> {"idle", "tapped", "sent", "ok", "returned"}]
    /\ ask \in [Answer -> Id] /\ sentTo \in [Answer -> Desk]
    /\ acked \in SUBSET (Desk \X Id) /\ crossing \in BOOLEAN

NoRows == [i \in Id |-> "none"]
Empty  == [status |-> "idle", rows |-> NoRows, of |-> 0]

AlertsInit ==
    /\ gen = 0 /\ desk = CHOOSE d \in Desk : TRUE
    /\ status = "idle" /\ attached = FALSE /\ notes = NoRows
    /\ registry = [d \in Desk |-> {}] /\ issued = [d \in Desk |-> {}]
    /\ owes = {} /\ requested = FALSE /\ passAt = "none" /\ read = Empty /\ screen = Empty
    /\ at = [a \in Answer |-> "idle"] /\ ask = [a \in Answer |-> CHOOSE i \in Id : TRUE]
    /\ sentTo = [a \in Answer |-> desk]
    /\ acked = {} /\ crossing = FALSE

-----------------------------------------------------------------------------
(* The writers.  Each step is one critical section; Owes is the call of    *)
(* notify that follows it, before the thread's next step (and before the   *)
(* next generation's: Connect starts its loop after its own notify).       *)

Owes(w) == w \notin owes /\ owes' = owes \cup {w}

Notify(w) ==
    /\ w \in owes /\ owes' = owes \ {w}
    /\ requested' = TRUE
    /\ UNCHANGED <<connVars, deskVars, passAt, read, screen, tapVars, acked, crossing>>

\* Connect and Disconnect: another generation, an empty session, no Conn.
NewGeneration(d, s) ==
    /\ gen < MaxGen /\ gen' = gen + 1
    /\ desk' = d /\ status' = s
    /\ attached' = FALSE /\ notes' = NoRows
    /\ Owes("ui")
    /\ UNCHANGED <<deskVars, passVars, tapVars, acked, crossing>>

SetStatus(from, to) ==
    /\ status \in from /\ status' = to
    /\ "ui" \notin owes
    /\ Owes("loop")
    /\ UNCHANGED <<gen, desk, attached, notes, deskVars, passVars, tapVars, acked, crossing>>

\* run: the new Conn, the welcome, the lost socket, the wait that ends, a hard
\* stop.  Taking a Conn or dropping one changes nothing that is drawn here, and
\* is not announced.
LoopSteps ==
    \/ SetStatus({"connecting"}, "connected") /\ attached
    \/ SetStatus({"connecting", "connected"}, "reconnecting") /\ ~attached
    \/ SetStatus({"reconnecting"}, "connecting")
    \/ SetStatus({"connecting"}, "stopped") /\ ~attached

TakesConn ==
    /\ attached \/ status = "connecting"
    /\ owes \cap {"ui", "loop"} = {}
    /\ attached' = ~attached
    /\ UNCHANGED <<gen, desk, status, notes, deskVars, owes, passVars, tapVars, acked, crossing>>

\* A notify message: the desk registers an id of its own and sends it, the
\* reader folds it.
OnMessage(i) ==
    /\ attached /\ i \notin issued[desk]
    /\ issued'   = [issued EXCEPT ![desk] = @ \cup {i}]
    /\ registry' = [registry EXCEPT ![desk] = @ \cup {i}]
    /\ notes'    = [notes EXCEPT ![i] = "open"]
    /\ Owes("reader")
    /\ UNCHANGED <<gen, desk, status, attached, passVars, tapVars, acked, crossing>>

-----------------------------------------------------------------------------
(* A render pass: the banner reads the status (Info), the screen the rows  *)
(* (Read), in two critical sections, and the rows are drawn after the      *)
(* second.                                                                 *)

PassStarts ==
    /\ requested /\ passAt = "none"
    /\ requested' = FALSE /\ passAt' = "banner"
    /\ read' = [read EXCEPT !.status = status]
    /\ UNCHANGED <<connVars, deskVars, owes, screen, tapVars, acked, crossing>>

PassReads ==
    /\ passAt = "banner" /\ passAt' = "rows"
    /\ read' = [read EXCEPT !.rows = notes, !.of = gen]
    /\ UNCHANGED <<connVars, deskVars, owes, requested, screen, tapVars, acked, crossing>>

\* The slice read is shared with the session: a row whose buttons were spent
\* since the lock was released may be drawn either way.
PassDraws ==
    /\ passAt = "rows" /\ passAt' = "none"
    /\ \E late \in SUBSET Id :
          /\ late # {} => read.of = gen
          /\ \A i \in late : read.rows[i] = "open" /\ notes[i] = "spent"
          /\ screen' = [read EXCEPT !.rows = [i \in Id |-> IF i \in late THEN "spent" ELSE read.rows[i]]]
    /\ UNCHANGED <<connVars, deskVars, owes, requested, read, tapVars, acked, crossing>>

-----------------------------------------------------------------------------
(* A tap on a button of a drawn row, and the goroutine that answers.       *)

Moves(a, from, to) == at[a] = from /\ at' = [at EXCEPT ![a] = to]

TapAction(a, i) ==
    /\ screen.rows[i] = "open"
    /\ Moves(a, "idle", "tapped")
    /\ ask' = [ask EXCEPT ![a] = i]
    /\ crossing' = (crossing \/ screen.of # gen)
    /\ UNCHANGED <<connVars, deskVars, owes, passVars, sentTo, acked>>

\* runCommand takes the Conn of the moment.
RunCommand(a) ==
    /\ Moves(a, "tapped", IF attached THEN "sent" ELSE "returned")
    /\ sentTo' = [sentTo EXCEPT ![a] = desk]
    /\ UNCHANGED <<connVars, deskVars, owes, passVars, ask, acked, crossing>>

\* A mutant: a refused answer counts as given.
ServedAnyway(a) ==
    /\ Moves(a, "sent", "ok")
    /\ registry' = [registry EXCEPT ![sentTo[a]] = @ \ {ask[a]}]
    /\ acked' = IF ask[a] \in registry[sentTo[a]] THEN acked \cup {<<sentTo[a], ask[a]>>} ELSE acked
    /\ UNCHANGED <<connVars, issued, owes, passVars, ask, sentTo, crossing>>

\* catway accepts the first answer to an id it holds.  It refuses every other,
\* one that somebody gave at the desk or in a browser having been the first; a
\* socket that dies tells the phone neither.
Served(a) ==
    /\ \/ /\ ask[a] \in registry[sentTo[a]]
          /\ registry' = [registry EXCEPT ![sentTo[a]] = @ \ {ask[a]}]
          /\ Moves(a, "sent", "ok")
          /\ acked' = acked \cup {<<sentTo[a], ask[a]>>}
       \/ /\ Moves(a, "sent", "returned")
          /\ registry' \in {registry, [registry EXCEPT ![sentTo[a]] = @ \ {ask[a]}]}
          /\ UNCHANGED acked
    /\ UNCHANGED <<connVars, issued, owes, passVars, ask, sentTo, crossing>>

\* AnswerNotify.
Answered(i) == [notes EXCEPT ![i] = IF @ = "open" THEN "spent" ELSE @]

\* A mutant: Read in place of Update, which does not ask for a pass.
UpdateQuietly(a) ==
    /\ Moves(a, "ok", "returned")
    /\ notes' = Answered(ask[a])
    /\ crossing' = (crossing \/ sentTo[a] # desk)
    /\ UNCHANGED <<gen, desk, status, attached, deskVars, owes, passVars, ask, sentTo, acked>>

\* Update(AnswerNotify), on the session of the moment, and its notify.
Update(a) ==
    /\ Moves(a, "ok", "returned")
    /\ notes' = Answered(ask[a])
    /\ Owes(a)
    /\ crossing' = (crossing \/ sentTo[a] # desk)
    /\ UNCHANGED <<gen, desk, status, attached, deskVars, passVars, ask, sentTo, acked>>

AlertsNext ==
    \/ \E w \in Writer : Notify(w)
    \/ \E d \in Desk : NewGeneration(d, "connecting")
    \/ NewGeneration(desk, "idle")
    \/ LoopSteps \/ TakesConn
    \/ \E i \in Id : OnMessage(i)
    \/ PassStarts \/ PassReads \/ PassDraws
    \/ \E a \in Answer : (\E i \in Id : TapAction(a, i)) \/ RunCommand(a) \/ Served(a) \/ Update(a)

-----------------------------------------------------------------------------
(* Properties.                                                             *)

\* The screen is never more than one pass behind: while it shows anything but
\* the session and the status, a pass is requested, or under way with nothing
\* missed, or the thread that made the difference has yet to call notify.
StaleMeansPassPending ==
    \/ screen.status = status /\ screen.rows = notes
    \/ requested \/ owes # {}
    \/ passAt = "banner" /\ read.status = status
    \/ passAt = "rows" /\ read.status = status /\ read.rows = notes

\* A row without its buttons was answered from this phone and accepted at the
\* row's own desk, and an accepted answer has taken the buttons away once its
\* goroutine is done, unless an answer crossed a change of desk: the goroutine
\* takes the connection and the session of the moment, and ids are each desk's
\* own.
SpentMeansAnswered ==
    \/ crossing
    \/ \A i \in Id :
          /\ notes[i] = "spent" => <<desk, i>> \in acked
          /\ notes[i] = "open" /\ <<desk, i>> \in acked => \E a \in Answer : at[a] = "ok" /\ ask[a] = i
=============================================================================
