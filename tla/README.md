# cats-mobile in TLA+

cats-mobile is a phone client of a terminal session server, *catway*, that runs
on a desk. The phone dials the desk over a WebSocket, folds what the server
pushes into one session value, draws screens from it, and sends a few commands
back. This directory holds TLA+ models of the parts that carry its logic, TLC
configurations that check them on small instances, and TLAPS proofs of the
results that matter most.

    tlc -workers 2 -config MCConn.cfg MCConn        # a run
    tlapm ConnProofs.tla                            # the proofs of a module

`PROJECT.json` lists the components, the runs with their properties, the lines
each definition translates, a mutant that breaks each property, the hazards of
the code at their lines, the disagreements found, and the theorems.

## 1. The system

### Components

| component | state | operations | modelled in |
|---|---|---|---|
| `Conn` (`internal/catsclient/conn.go`, `ws.go`): one live socket | pending calls by id, next id, closed flag and error, the welcome, the follow pin, the socket | `New`, `Invoke`, `Welcome`, `Close`, `Probe`, `FollowWorkspace`, the reader, the call timers, the keep-alive | `Calls`, `Conn`; the pin in `Follow` |
| `Connection` (`app/connection.go`): the reconnect loop and the only lock screens see | generation, status, endpoint, current Conn, session, wake channel; per loop its backoff and pin | `Connect`, `Disconnect`, `Retry`, `Resume`, `run`, `onMessage`, `Live`, `Read` | `Link`, `Connection` |
| `Session` (`internal/catsclient/session.go`): the fold | agents, layout, census, grids, per-pane chrome, notifications | `Apply`, `ResetForNewSocket`, views of windows and roster | the arms that interact, in `Attention`, `Grid`, `Follow`, `Alerts`; the views in `Follow` and `RosterView` |
| attention (`app/attention.go`) | the agents blocked in the last rollup | `observe`, `reset`, `announce`, opening a pane from a banner | `Attention` |
| `PaneGrid` (`internal/catsclient/grid.go`) | five flat columns, dirty rows, defaults | `ApplyFrame`, `ApplyDiff`, `ClearDirty` | `Grid` |
| window following (`conn.go`, `session.go`, `app/windows.go`) | pin of a Conn, layout, census, what the screen offers | `FollowWorkspace`, `FollowPrimaryView`, `DesktopWindows`, `ViewWithoutWindow` | `Follow` |
| `Store` (`internal/store/store.go`) | a cache and a key/value file: desks, active desk, tokens, pins | `AddEndpoint`, `RemoveEndpoint`, `SetActive`, token and pin rows | `Store` |
| pairing, More (`app/pair.go`, `app/more.go`), `Services` | forms; subscriptions | redeem a link, forget, switch desk, boot | their effects, in `Store` and `Connection`; what the pair screen does itself, in `Pairing` |
| trust (`trust.go`, `dial*.go`) | none | accept, pin or refuse a certificate | `DecideCert` in `Connection` |
| pair screen, deep links, login (`app/pair.go`, `app/deeplink.go`, `endpoint.go`, `login.go`) | the form in its slot, one parked link | edit, paste, Pair, take a link, redeem a grant | `Pairing` |
| pane screen (`app/pane.go`) | `Draft`, `Busy`, `ConfirmReveal` in a slot | type, paste, send, reveal | `Composer`; its choice of an agent's state in `Attention` |
| alerts screen (`app/alerts.go`) and the render pass | none but the session's notifications | answer; `notify`, `Read`, `Update`, `AnswerNotify` | `Alerts` |
| agents screen (`app/agents.go`, `Roster` in `session.go`) | none | order, headings, rules | `RosterView` |
| grid view (`app/gridview.go`) | none | cells to runs | `GridView` |
| layout, typed commands, WASM glue, scripts | little or none | | not modelled (section 7) |

### How they interact

    taps, lifecycle ──▶ Connection ──Connect──▶ run (one goroutine a generation)
                            ▲  │                  │ dial, pin ─▶ Store
           Info, Read, Live │  │ lock             ▼
    render pass ────────────┘  │               Conn.New ─▶ reader goroutine
                               ◀── onMessage ─────────────────┘
                               │      └▶ Session.Apply, watch.observe
                               └▶ announce (outside the lock) ─▶ the phone
    screens ─▶ runCommand ─▶ Live() ─▶ Conn.Invoke ─▶ socket ─▶ catway

Everything the app knows sits behind `Connection.mu`. What makes the code hard
is what happens outside of it:

- **Concurrency.** A loop that has been replaced is only *told* to stop, and may
  still be dialling, closing or folding. A `Conn` is shared by the reader, its
  callers, one timer goroutine per call and the goroutines that close it.
- **Read, unlock, act.** `Retry`, `Resume`, `Live` and every screen act on what
  they read under a lock they no longer hold.
- **Slots.** A screen's own state is a slot that taps, the clipboard's answer, the
  render pass and the goroutines of its commands update by copying it, changing
  the copy and storing it, with no lock; and a button acts on the value of the
  pass that drew it.
- **Failure.** A socket may be reset, go silent, be refused, or die between any
  two messages; a store write may fail or be cut in two by a kill.
- **Ordering.** Two pushes describe one change; a shift comes before the cells
  of its diff; a reconnect loses what was in flight and replays only a part.
- **Timeouts.** A call's reply races its timer, its caller's context and the
  socket's end.

### What makes each part correct

- `Conn`: each call comes back exactly once, with its own answer or a failure;
  closing is final and never hangs.
- `Connection`: the status on screen is backed by a loop; one socket's data
  never reaches another's session; sockets and loops do not leak; the app does
  not stay in "reconnecting".
- Attention: every agent that becomes blocked is announced once, and banners of
  agents that are not blocked any more are taken down.
- `PaneGrid`: after any sequence of frames, diffs and sockets it is the screen.
- Following: a viewer never moves the desk, and comes back where it was.
- `Store`: the file is what the cache says, through kills and interleavings.
- Pane screen: what was typed reaches the desk once or is still in the draft, and
  "Sending..." ends.
- Pair screen: a grant is redeemed only after its address was on the screen, an
  error is about what the fields hold, and a link from the OS lands once.
- Alerts, agents, grid view: the screen is at most one pass behind, buttons go
  when their answer was accepted, who needs the person is on top, and a row's
  runs paint its cells.

## 2. The modules

| module | lines of the code it translates | role |
|---|---|---|
| `Calls` | doc comments and errors of `Invoke` | abstract specification of `Conn` |
| `Conn` | `conn.go`, `ws.go` | detailed specification, implements `Calls` |
| `ConnProofs` | | theorems about `Conn` |
| `Link` | `Status`, and who sets it | abstract specification of `Connection` |
| `Connection` | `connection.go`, parts of `services.go`, `more.go`, `pair.go`, `trust.go`, `backoff.go`, `conn.go` | detailed specification, implements `Link` |
| `ConnectionProofs` | | theorems about `Connection` |
| `Attention`, `AttentionProofs` | `attention.go`, parts of `session.go`, `connection.go`, `pane.go` | and its theorems |
| `Grid`, `GridProofs` | `grid.go`, parts of `session.go` | and its theorems |
| `Follow`, `FollowProofs` | parts of `conn.go`, `connection.go`, `session.go`, `windows.go` | and its theorems |
| `Store`, `StoreProofs` | `store.go`, parts of `pair.go`, `more.go` | and its theorems |
| `Slot` | `update` in `pane.go`, `pair.go` | the copy and the store the next two share |
| `Composer` | `pane.go` | |
| `Pairing` | `pair.go`, `deeplink.go`, parts of `endpoint.go`, `login.go`, `services.go`, `root.go` | |
| `Alerts` | `alerts.go`, parts of `connection.go`, `session.go`, `windows.go`, `root.go` | |
| `RosterView` | `agents.go`, parts of `session.go`, `format.go` | pure operators |
| `GridView` | `gridview.go` | pure operators |
| `Screens` | | the five modules above it, checked as one specification |
| `ScreensProofs` | | theorems of `Screens` about the composer, the pair screen, the alerts and the types of all |
| `ViewProofs` | | theorems of `Screens` about what `RosterView` and `GridView` draw |
| `MC*` | | small instances for TLC |

A step of a model is what one goroutine does between two points at which
another one can run: a critical section, a channel operation, a call of the
socket, of the store or of the host. Definitions named *A mutant* in a comment
are not part of a specification: each is a plausible bug, and replacing the
definition that follows it must break a property.

### Calls and Conn

`Calls` says what a goroutine that enters `Invoke` may count on, with no ids,
maps, timers or threads. `Conn` has them:

- `pc`, `id`, `ret` are the locals and program point of an `Invoke`; `ch` is the
  one-place channel, `timer` the `time.AfterFunc`, `pending` the map.
- `rpc`, `taken`, `reply` are the reader, `cpc` the goroutines in `Close` or
  `Probe`. `failing[a]` holds the calls that thread `a` swapped out of the map
  in `fail` and has yet to answer.
- `socket` is open, *stalled* (the peer is silent, reads and writes wait), dead
  or closed. `inbox` is what the server sent. The server answers a command at
  any time, more than once if it likes, and pushes what `Pushed` allows.

`Deliver` is a send on the channel, enabled only while it is empty, so a second
settler would block, as the Go code would. The refinement maps `closed` to
`down` and `pc`, `ret` to `status`, `ending`.

### Link and Connection

`Link` is the life of `Status` as a screen may rely on it; its epochs are the
generations. In `Connection`:

- `pc[g]` and the other loop variables are the locals of `run`, one copy per
  generation. Two and more loops may be alive, of which one is current.
- `reader[s]` distinguishes a reader that is past `onText`'s check of `closed`
  and has not yet taken `Connection.mu` (`folding`); this is what lets a late
  message meet a newer socket.
- `grids` and `roster` say *which sockets* the session's data is from, which is
  all that purity needs.
- `ui` is the executor that runs taps and lifecycle events one by one, with the
  intermediate points of `Retry`, `Resume` and *forget*; `pairing` is the
  goroutine of a pairing between its store writes and `Connect`.
- `attempt` is a rung, growing to `Rungs` and then constant, as the delay does.

Of a dial only what the loop branches on is kept: a socket, an error, a
certificate mismatch or a refusal, and whether the pin decision was a first use.

### Attention

The desk (`truth`), its socket (`wire`) and the phone's list (`tray`) are
external. `reader`, `held`, `became`, `cleared` are the reader of each
generation inside `onMessage` and `announce`. The agents of a change are sent
as `pane_agent` and then as the whole rollup. History variables say what is owed
to the user: `calm` and `owed` are computed from the rollups, not from the watch
they are compared with. What the agents do while no socket is up is a choice made
when the next one is.

### Grid

The client keeps a pane flat, row after row; the reference, the server's
screen, is a function of row and column, and a diff is a change of it. So the
index arithmetic of the client is compared with a model that has none.

### Follow

`catway` resolves a pin to a view as its protocol says it does; the phone sees
only layouts and censuses, in either order. One generation of the loop carries
the pin. `drawn` is what the last render pass of the Windows screen offered, so
a tap may act on a row that a redial has made stale. `told` and `hasty` are
history: what this socket has pushed, and whether a command overlapped another
one, was given up, or was overtaken by the end of its socket. What happens at the
desk while no socket is up is a choice made when the next one is.

### Store

`put` is two statements on the file under one lock, with the cache written
first; `Killed` may come between them, and replaces the cache with the file. An
operation is a sequence of accesses (`Steps`), and the operations of the UI
executor and of a pairing goroutine interleave access by access. History: `torn`
marks a write that failed or was cut, `raced` two operations on one desk at once,
or a list written over a newer one. `saved` and `forgot` are the desks whose last
operation was a pairing or a forget; after a torn write or a race the properties
say nothing of them, and the history is dropped.

### Slot, Composer, Pairing

A thread that updates a slot is between its copy and its store when `copy[t]`
(`formCopy[t]`) holds a pair: the value it copied, and what it will store.
`Undoes` says that another value came between. `drawn` and `formDrawn` are what
the last pass drew, the value the closures of its buttons captured; `field` is what
the text area shows, which the framework patches only when the draft changes from
one pass to the next.

In `Composer` a text is a set of words, each used at most once, so a word that
arrives twice was sent twice. A send goes through `pc`: tapped, in `Invoke`, typed
at the desk, storing its outcome. A failure after `typed` is a reply that was lost.

In `Pairing` a link is a record of what `ParsePairURI` looks at. A login is
posting, redeemed (the grant is spent, the rows are being written) or storing its
outcome. `pendingLink` and `claimed` are the two steps of `receiveDeepLink`.

The model shows what the code allows beyond its comments, and the history
variables mark it instead of hiding it:

- `clobbered`, `overwritten`: a store over a newer value, which the comments at
  `pane.go:60` and `pane.go:188` take to be safe. After one, `Busy` can stay with
  nothing in flight, so that Send is dead until the screen is left, and an answered
  dialog can open again.
- `hasty`: Send tapped after typing but before a pass sends the *old* draft, and
  its ok erases the new text; so does the ok of any send with what was typed while
  it was under way; a second tap before a pass sends the text twice.
- `crossed`: the fields were changed under a login, whose error then speaks of
  another grant; a second tap on Pair spends the grant twice and shows a 401 over
  the first one's success.

### Alerts

A writer changes the session or the status in one critical section (`Owes`) and
calls `notify` in the next; a pass reads the status, then the rows, then draws. The
slice of notifications is shared with the session: a row spent since the lock was
released may be drawn either way, which is the data race at `alerts.go:78`. `attached` is
`Live() # nil`. An answer is sent to the desk of the moment and marked in the
session of the moment; `crossing` says that a change of desk came between.
Answers given at the desk or in a browser are the refusals of `Served`.

### RosterView, GridView, Screens

Two of the screens are functions of what they are given. `RosterView` is compared
with what a person expects to read from the top down, `GridView` with the cells
resolved one at a time. Among the states of an agent is `NoState`, the `""` of a
report that gives none, which is also what the loop's `lastState` starts from.
`Screens` runs the five modules as one specification: a
behaviour is a time on one of the screens, and the two functions are evaluated in
initial states that enumerate their inputs. The three stateful screens share no
variables in the code either: their slots are their own, and what they read of
the session is only changed under the lock.

## 3. What the runs check

Bounds, and the number of distinct states TLC finds:

| run | instance | checks |
|---|---|---|
| `conn_safety` | 2 calls (symmetric), 1 closer, 1 frame in flight; 3.4 M states | each call settled once (`ExactlyOneSettler`), results go to their own call (`OwnResult`), nothing pending and the welcome decided once closed (`NobodyWaitsOnceClosed`), `CloseIsFinal` |
| `conn_live` | 1 call, 2 closers; 130 k | `KeepsPromise` (implements `Calls`, fairness included: every call returns), `CloseReturnsEventually` |
| `connection_safety` | 1 desk, paired during the run, 2 generations, 2 sockets, 1 rung; 2.1 M | `LoopAlive`, `LiveIsCurrent`, `SessionPure`, `NoLeak`, `HardStopStays` |
| `connection_live` | 2 desks, one with a pin, 2 generations, 1 socket; 384 k | `KeepsLink` (implements `Link`, fairness included), `CancelledLoopsEnd` |
| `attention` | 2 panes (symmetric), 2 generations, 2 messages in flight; 2.4 M | `BannersCurrent`; `AnnouncedOnce` (`NoneMissed`, `OnlyNews`); `RosterIsTrue` (`RosterFollows`, `PaneMatchesRoster`) |
| `grid` | panes of 2×2 and 2×1 cells, 2 default colours; 295 k | `Mirrors` (with `OfThisSocket` and `NothingDropped`), `CleanRowsArePainted` (what `DirtyRows` promises its caller; no screen here repaints by it) |
| `follow` | 2 workspaces, 1 window, 2 commands, 2 sockets, 3 messages in flight; 2.6 M | `NeverMovesDesk`, `PinsWereAccepted`, `ComesBack`, `ScreenIsRight` (with `OneSocketsPicture`) |
| `store` | 2 desks (symmetric); 1.9 M | `WriteThrough`, `PairingIsDurable` (`ListedHasToken`, `SavedSurvives`), `ForgetIsComplete` |
| `screens` | 2 words and 2 sends; 2 links, 2 logins; 2 desks, 1 id, 1 answer, 2 generations; every rollup of 3 agents and every row of 3 cells; 1.9 M | `SlotTellsTheTruth`, `EveryWordOnce`; `LinksInTheOpen`, `FormTellsTheTruth`; `StaleMeansPassPending`, `SpentMeansAnswered`; `RosterReads`; `PaintsTheCells` |
| `forget_race` | 1 desk | *violated:* `ForgottenLeavesNoPin` |
| `attention_pane` | 1 pane | *violated:* `PaneShowsRoster` |
| `attention_banner` | 1 pane | *violated:* `BannersAnswerable` |

Each passing run also checks the type invariant of its module, but for
`conn_live` and `connection_live`, whose modules have it checked by the run
before.

### Why the bounds are enough

- *Two calls* are what it takes to confuse one call's answer with another's;
  the proofs in `ConnProofs` remove the bound. *One frame in flight* still lets
  a reply wait while a timer fires, since the frame handled is a step of its own.
  Two closers are needed for one to find the connection closed by the other.
- *Two generations* give a current and a replaced loop; *two sockets* a redial
  within one generation or one socket for each of the two. `ConnectionProofs`
  removes these bounds for the safety properties.
- One rung tells "the ladder was climbed" from "it was reset".
- A change at the desk is two messages, so *two messages in flight* is a change
  overtaken by nothing or, with a rollup on connect, by a drop. Two panes
  tell "this agent" from "some agent", two generations a stale announcement from
  a current one.
- A 2×2 pane has a first and last row and column, and shifts of 1, of the height
  and of more; the 2×1 pane has the same width, for a resize that keeps it.
- `follow`: two workspaces tell the pinned from the primary one; two sockets a
  pin set from a pin carried; three messages hold a reply with its two pushes.
- `store`: two desks are needed for a forget to leave one; two threads are all
  the code has besides the pin write of a loop, which is in `Connection`.

- `screens`: two words tell the lost from the kept, two sends or logins a second
  tap from a retry; of the two links one parses and one has a port out of range.
  One id is what two desks can both use, and one answer meets every other actor at
  the desk in `Served`. Three agents or cells are a first, a last and one between.
  The constraint `Followed` stops at a lost update, after which no property says
  anything, and on the pair screen lets one update at a time be between its copy
  and its store, with the render pass, the typing, the clipboard and the logins
  taking turns; `Composer` checks the overlap.

`CHECK_DEADLOCK FALSE` stands in the `Conn`, `Connection`, `Follow` and `Screens`
instances, which really stop: every call has returned, the last socket or
generation the bound allows is gone, a screen without a person. `Attention`, `Grid` and `Store` never stop,
and there deadlock is checked.

### Fairness

`Conn`: the goroutine of a call, its timer, the reader, the goroutines in
`Close` and `Probe` and the keep-alive are each weakly fair, which is what the
Go scheduler and runtime timers give a runnable goroutine. The server, the
network, the caller's context and the user promise nothing: that every call
returns, the fairness `Calls` states and `KeepsPromise` has to meet, is owed to
the call's timer and to the keep-alive.

`Connection`: each loop, each reader and the UI executor are weakly fair, and a
dial *whose context is cancelled* returns, as `websocket.Dial` does. An
uncancelled dial, a welcome and a message may take for ever; there is no time
limit on them in the code, and `KeepsLink` only claims that the wait between two
dials ends.

`Attention`, `Grid`, `Follow`, `Store` and `Screens` check safety only.

### Disagreements with the documents

1. `store.go:294` says a forget removes everything stored under the desk's id. A
   loop past its look at `ctx` can write a first-use pin afterwards
   (`forget_race`).
2. `pane.go:89` wants a pane opened from the roster to show the roster's state.
   After a reconnect an entry of `PaneAgents` from the last socket wins over the
   new rollup (`attention_pane`).
3. `attention.go:37` says the notification list never holds a request nobody can
   answer. `Connect` resets the watch without cancelling the banners it had
   raised (`attention_banner`).

Five more were met while modelling and have no run of their own. `root.go:111` says
the banner's "Retry" resets the backoff ladder; during the wait it only wakes the
loop, and a welcome is the one thing that calls `Reset` (`WaitEnds` and
`attempt` in `Connection`). `pane.go:60` and `pair.go:62` call the
update of a slot safe against a goroutine that completes; a lost update is reachable
(`Undoes` in `Slot`). `ServerShutDown` is never cleared, so the More screen can say
that the server has shut down while connected to the next one (`session.go:185`).
A kill between the two writes of a forget leaves an active id that the list does not
hold although other desks are paired, and the app opens the pair screen
(`store.go:310`). `agents.go:21` says that every run of rows sits under a state
heading; the loop starts from `lastState := ""`, so agents whose report gave no state
are drawn without one when they come first (`LastState` in `RosterView`; `RosterReads`
says that this is the only case).

Properties 2 and 3 have a counterpart that holds: `PaneMatchesRoster`, for panes
that the current socket has named, and `BannersCurrent`, within a generation.

## 4. What is proved

The modules named `*Proofs` are checked by `tlapm`. Every invariant and action
property that a passing run checks on a small instance is proved there for every
value of the constants that their named assumptions allow: `Call`, `Closer`,
`Endpoint`, `Pane`, `Workspace`, `Word` and the like may be infinite, and `MaxInbox`,
`MaxGen`, `MaxSocket`, `MaxWire`, `MaxSend`, `MaxLogin`, `Rungs` any numbers. (The
specification has the bounds still, in its guards; what is proved holds however
large they are.)

| theorem | statement |
|---|---|
| `ConnProofs!TypeCorrect`, `SettledOnce`, `ResultsAreOwn`, `ClosedIsSettled`, `CloseFinal` | `SafeSpec` implies always `TypeOK`, `ExactlyOneSettler`, `OwnResult`, `NobodyWaitsOnceClosed`, `CloseIsFinal` |
| `ConnProofs!Irrevocable` | `NeverRevised`, an action property no run repeats |
| `ConnProofs!Implements` | `SafeSpec => Promise!SafeSpec`: `Conn` implements `Calls` |
| `ConnectionProofs!TypeCorrect`, `LoopsAlive`, `LiveCurrent`, `SessionIsPure`, `NothingLeaks` | `SafeSpec` implies always `TypeOK`, `LoopAlive`, `LiveIsCurrent`, `SessionPure`, `NoLeak` |
| `ConnectionProofs!HardStopLasts` | `HardStopStays` |
| `ConnectionProofs!Implements` | `SafeSpec => Promise!SafeSpec`: `Connection` implements `Link` |
| `AttentionProofs!TypeCorrect`, `BannersStayCurrent`, `Announced`, `RosterTrue` | `TypeOK`, `BannersCurrent`, `AnnouncedOnce`, `RosterIsTrue` |
| `GridProofs!TypeCorrect`, `CleanRows`, `MirrorsTheScreen` | `TypeOK`, `CleanRowsArePainted`, `Mirrors` |
| `FollowProofs!TypeCorrect`, `DeskStays`, `PinsAccepted`, `ScreenRight` | `TypeOK`, `NeverMovesDesk`, `PinsWereAccepted`, `ScreenIsRight` |
| `FollowProofs!ReturnsToView` | `ComesBack`, an action property |
| `StoreProofs!TypeCorrect`, `CacheIsFile`, `PairingIsWhole`, `ForgetIsWhole` | `TypeOK`, `WriteThrough`, `PairingIsDurable`, `ForgetIsComplete` |
| `ScreensProofs!OnePassBehind`, `ButtonsTellTheTruth` | `StaleMeansPassPending`, `SpentMeansAnswered` |
| `ScreensProofs!ButtonsNeverReturn` | an action property no run repeats: a row that lost its buttons stays so until `Connect` or `Disconnect` |
| `ScreensProofs!SpinnerEnds`, `EveryWordGetsThere` | `SlotTellsTheTruth`, `EveryWordOnce` |
| `ScreensProofs!NothingUnseenIsRedeemed`, `PairFormIsTrue` | `LinksInTheOpen`, `FormTellsTheTruth` |
| `ScreensProofs!ScreensTypes` | `ScreensTypeOK` |
| `ViewProofs!RosterIsReadable` | `RosterReads`, for a rollup of any length |
| `ViewProofs!RowsArePainted` | `PaintsTheCells`, for a row of any length, any glyphs and any colours |

The theorems about the screens hold without the constraint `Followed` of the run:
that one only spares TLC the interleavings after a lost update and some of those on
the pair screen, and the proofs cover them all.

What is assumed of the constants is what the code gives by construction. The bounds
are numbers (`BoundsAssumption` and its like). The values that stand for "none" are
none of the values they are put beside, as Go's `nil`, `""` and 0 are not:
`NoCallAssumption`, `NoEndpointAssumption`, `NamesAssumption`, `SlotAssumption`,
`NoCopyAssumption`, `TextAssumption`, `FormsAssumption`, `ColorAssumption` (`""` is no
colour of a cell), and the threads' names are no call's or closer's. The inputs are of the kind the code is given: the messages a
catway pushes (`PushedAssumption`), sizes, colours and cells of a terminal
(`SizesAssumption`, `DefaultAssumption`, `CellAssumption`), rows of cells with an empty
one behind a wide glyph and nowhere else (`RowsAssumption`), rollups that name a
pane once (`RollupsAssumption`), parsed addresses (`TextAssumption`). TLC evaluates every one of them in the runs.

### The argument for Conn

`ExactlyOneSettler` counts, for a call, the places that may still answer it. It
is not inductive: a reply in the inbox may name any id. `IInv` adds that ids of
registered calls differ and that every entry, frame and command carries its own
call's id (`IdsInv`); that a result under way was made for the call it is going
to (`ResultInv`); where each thread may stand once the connection has failed, in
particular that a thread outside `fail`'s loop owes nobody an answer and that
the reader's exit means its loop is finished (`PhaseInv`); the settlers of a call, pair
by pair, which provers take better than a set of five kinds of element
(`SettlerInv`); and what the server has answered (`AnswerInv`, for the
refinement). `Implements` follows step by step: each action opens, refuses,
answers or returns a call, goes down, or leaves the promise's state alone.

### The argument for Connection

`LoopAlive` and `NoLeak` fail to be inductive because a stale loop's next step
depends on where it stands and on what it holds. `IInv` says which generations
have a loop and which are cancelled (`LoopInv`), which status goes with the
current loop's program point (`StatusInv`), what may be said of a socket by where
the loop that dialled it is (`SocketInv`, `HeldInv`), what `c.conn` can name
(`ConnInv`), and whose messages the session holds (`SessionInv`). The key fact of
`SessionPure` is in `SocketInv`: while a reader is idle or folding, the loop that
dialled its socket is attached to it; so a loop that dials again, as it does only
after `Close` has joined the reader or `Done` has told of its exit, has no
reader left to write into the grids that it clears.

### The argument for Attention

What is owed to the user is computed from the rollups, what is announced from the
watch, and the two are folded in different steps of different readers. `GenInv` says
that a reader at work is the current generation's or an older one's, whose steps find
that out; `BannerInv` that a banner of this generation is for an agent of the watch
or is in the list that announce is working through; `WatchInv` that the watch is the
complement of `calm` and that what is owed is in announce's other list.
`RosterIsTrue` needs the messages in flight, the one the reader holds included: the
last of them is the desk's rollup (`WireInv`), and each rollup differs from the one
before by the `pane_agent` between the two, or by an agent that is gone (`ChainInv`).
`AgentChanges` makes the chain longer at its end, a fold takes its first away.

### The argument for Grid

`Mirrors` speaks of an empty wire only, so it says nothing of a step that leaves a
message in it. What is kept by every step is a *forecast* (`Foretells`): a sequence
of grids, one longer than the wire, that starts with the grid of the session, of which each
is what the next message in flight makes of the one before, and the last shows the
server's screen. The server's steps make the sequence longer, `Apply` takes its first
away, a new socket starts another; painting leaves it alone, since a forecast only
compares grids up to their dirty marks (`Alike`). That a frame or a diff makes of a
grid that shows a screen one that shows the next (`FrameDone`, `DiffDone`) is the
index arithmetic of `grid.go`: where a row and a column are in the flat columns, what
a shift by less than, exactly or more than the height leaves there, which index a cell
of a diff names. `CleanRowsArePainted` is a conjunct of its own: an operator that changes
a row marks it (`MarksWhatChanged`).

### The argument for Follow

`WireInv` and `CapInv` place the commands and say that one that has reached the
server was checked against this server's capability, which is `NeverMovesDesk`;
`AcceptedInv` follows an ok from the server to the pin. `ScreenIsRight` comes from
`PictureInv`, again about what is in flight: the last layout and the last census on
the wire, or the folded one when there is none, are what the server would push now.
`ComesBack` needs to know where the server's pin is on its way to the Conn's
(`PinInv`): while a person waits for each answer there is at most one command, going up,
answered or acked; otherwise the Conn's pin is the server's, and when the socket is gone
the loop carries it.

### The argument for Store

A put changes the cache before it holds the lock and the file in two statements, so
cache and file differ in exactly the row of the put in the middle (`LockInv`), also
for a kill to forget. `PairOk` and `ForgetOk` say, by the access an operation makes
next, which rows of its desk are there or gone. They survive the other thread because
the two work on different desks (`ApartInv`) and because the list about to be
written is made of the list that is there (`LatestInv`). Both are the meaning of
"not raced"; a race or a torn write ends what is claimed, until the history is dropped.

### The argument for the screens

*Alerts.* `StaleMeansPassPending` is not inductive, since it allows a screen that is
right by chance next to a reading that is old. `PassInv` does not: a change is to be
announced, or a pass is due, or the last reading, or without one the screen, is the
session of now. `SpentMeansAnswered` needs the desks' side: an id a desk holds or has
accepted an answer to is one it has issued (`DeskInv`). So is the id of a row that is
there (`RowsInv`); a desk has no second notification for it, which is what keeps a
row without buttons as it is (`ButtonsNeverReturn`).

*Composer.* `CopyInv` and `TapCopyInv` bound what each thread's copy may change, which
carries the spinner and the dialog through every interleaving of copies and stores.
`EveryWordOnce` is claimed of a calm run, one with no store over a newer value and no
tap on a screen behind the slot; `CalmInv` then has one send in flight, whose text is
the draft (`FlightInv`), edits that only add (`EditInv`), and add what is nowhere else
(`FreshInv`), and texts that have arrived in no draft and no other send (`OnceInv`). The
proof reduces the actions to eight shapes of a step (`Copies`, `Adds`, `Sends`, `Opens`,
`Lands`, `Ends`, `Stores`, `Rests`).

*Pair screen.* The same, with the form for the draft: `StageInv` for the copies,
`ShownInv` and `LinkInv` for where a grant and a link have been, and for a fair run
`OutInv` (one login out, and the form has its grant) and `TouchInv` (the other copies
were made of an idle form).

### The argument for the roster and the grid view

Nothing changes here after the initial state: the invariant is that the session's
agents and plugin panes are a rollup's, the cells a row of `Rows`, and all the work
is in what the operators compute. They are a sort and loops over a list of any
length, so the proofs go by induction over the list. The library's induction
theorems take an operator, which the provers cannot instantiate; `ViewProofs` takes a
set in its place. A set of naturals that is not empty has a least element (`Least`,
from the library's `NatLessThanWellFounded`), so one that holds 0 and with each number
the next is all of them (`Induct`), and a set of sequences that holds `<<>>` and with
each sequence all that are one longer is all of them (`SeqInduct`). `FlattenAppend`
and `RunsAppend` then say what `FlattenSeq`, in which the loops are written, and the
fold of `Runs` make of one more element.

*Roster.* Among agents of different handles `Before` is a total order (`BeforeOrders`,
`BeforeChains`), so there is a way to put them in order: each behind as many as are
before it, a count that is one to one (`SortExists`). `Roster` chooses such a way; two
lists in order of the same agents are equal (`OneOrder`), so the desk's order does not
matter. The headings follow row by row: `StateRows` writes one wherever the state
changes, and two rows of a state have no other state's between them (`Between`). The
induction carries the gap at the start along: the rows so far end under the heading of
the last state, or there is no heading yet and the last state is none (`RowUnder`,
`RowAtTop`). `HeadedConcat`, `TitlesConcat` and `NoTwiceConcat` join the sections.

*Grid view.* `LookPaints` says that swapping after the defaults are put in, and
leaving a default colour to be inherited, comes to the cell's own colours.
`ExtendsInks` is the step of the loop: a cell joins the last run or starts the next,
and either way its ink comes behind all the others; by induction the runs show what the
cells do (`RunsPaint`). `Covers` relates a row to the same with nothing drawn at its
end; dropping a run that draws nothing and the blank end of one that does are such
(`CoversCut`, `Trimmed`), one after the other too (`CoversChains`).

### Only model-checked

- Liveness (`CloseReturnsEventually`, `CancelledLoopsEnd`, the fair halves of
  `KeepsPromise` and `KeepsLink`) and `ENABLED`: out of this prover's reach.
- The three disagreements of section 3, which are counterexamples.

## 5. Abstractions to keep in mind

- A message is handled in the step that receives it in `Conn`; the reader's
  locks are released once in between, with nothing in it that another step could
  observe earlier.
- Durations are absent: a timer may fire at any moment after it is armed. A
  ladder is its rung.
- A Conn in `Connection` is reduced to open, closed, welcomed and its reader's
  point; `Conn` has the rest. A command that a screen runs appears in `Conn` and
  `Follow`, not in `Connection`.
- In `Attention` a pane's public handle is its identity and its number; in the
  code a tap maps the one to the other through the roster of the moment.
- `Follow` has one generation; what happens between generations is in
  `Connection`, which shows that their sockets do not mix.
- A screen of `Screens` draws of the session what its properties are about: the
  rows and the status in `Alerts`, the form in `Pairing`. `Alerts` keeps of the
  reconnect loop the statuses and whether there is a Conn; a loop that was replaced
  changes nothing and is left out.
- The pair screen that More pushes ("Pair another desk") is the same code over a
  slot of its own; the one before the first pairing is modelled.
- `Composer` is about one pane of one desk. A pane screen that is on top when
  a pairing completes under it goes on with the other desk's pane of that number.
- `Store` leaves out values: a row is there or not, but for the list and the
  active id. That a value is the one written last is a matter of one map.

## 6. Plan

Done, in this order: `Calls`, `Conn` and its proofs; `Link`, `Connection` and
its proofs; `Attention`; `Grid`; `Follow`; `Store`; `Composer`, `Pairing`,
`Alerts`, `RosterView`, `GridView` and `Screens`; then the proofs of `Attention`,
`Follow`, `Store`, of the screens, of `Grid`, and of the two views.

To come: a run for the active row that a kill leaves behind (`store.go:310`), in the
place of a weaker one.

## 7. Not modelled, and why

- `theme.go`, `ui.go`, most of `format.go`, and the drawing halves of the screens
  (the strip of facts in `pane.go`, the recorder and runbook rows in `alerts.go`,
  the labels and the git dot in `windows.go`, More's subscriptions): layout, wording
  and colour, each from one field and without state.
- The arms of `Session.Apply` that overwrite or append one field nothing else reads.
- `login_native.go`, `login_js.go`: the shape of a session in a reply.
  `commands.go`: typed wrappers over `Invoke`. The rest of `endpoint.go` formats
  addresses.
- `trust.go`: the TLS chain check and the fingerprint's formatting; the decision
  itself is in `Connection`.
- `register.go`, `wasm/`, `scripts/`, `ios/`: glue, start-up and tooling.
- catway, the WebSocket library, the view library and the phone's operating
  system are external: they are modelled from how this code uses them.
