-------------------------------- MODULE Grid --------------------------------
(***************************************************************************)
(* The cell grid of a pane, src/internal/catsclient/grid.go, as the fold   *)
(* of the frames and diffs of one socket after another, and the server's   *)
(* screen it is to mirror.                                                 *)
(*                                                                         *)
(* The client keeps a grid flat, row after row, and patches it by index;   *)
(* the server's screen, which is external, is the reference: a function of *)
(* row and column.  A cell is its foreground and its glyph: the background *)
(* resolves as the foreground does, attribute and link move as the glyph.  *)
(***************************************************************************)
EXTENDS Integers, Sequences, SequencesExt

CONSTANTS
    Sizes,      \* the sizes a pane may have, records [w, h]
    Cell,       \* what a program prints: records [fg, glyph], fg 0 for the default
    Default,    \* the default colours a socket may be told
    MaxWire     \* bound on the messages in flight

ASSUME SizesAssumption == Sizes \subseteq [w : Nat, h : Nat]
ASSUME DefaultAssumption == Default \subseteq Nat \ {0}
ASSUME CellAssumption == Cell \subseteq [fg : Nat, glyph : STRING]

Indices(w, h) == 0 .. w * h - 1

VARIABLES
    screen,     \* the server's screen: [w, h, at], at a function of row and column
    def,        \* the default colour of the current socket
    scroll,     \* the server's scroll position, "none" if it sends none
    wire,       \* the messages in flight
    strayed,    \* history: this socket carried a cell that has no place
    grid,       \* Session.Grids[pane]
    painted     \* the grid's cells when the renderer last cleared the dirty rows

vars == <<screen, def, scroll, wire, strayed, grid, painted>>

-----------------------------------------------------------------------------
(* PaneGrid.                                                               *)

NewPaneGrid == [w |-> 0, h |-> 0, full |-> FALSE, def |-> 0, scroll |-> "none",
                cells |-> [i \in Indices(0, 0) |-> 0], dirty |-> [y \in {} |-> TRUE],
                dropped |-> FALSE]

\* An omitted colour resolves when the cell is applied.
Resolve(c, d) == [c EXCEPT !.fg = IF @ = 0 THEN d ELSE @]

AllDirty(h) == [y \in 0 .. h - 1 |-> TRUE]

\* A mutant: a frame of the same width keeps the old columns.
FrameKeepsColumns(g, f) ==
    LET size == IF g.w = f.w THEN DOMAIN g.cells ELSE Indices(f.w, f.h)
    IN  [g EXCEPT !.w = f.w, !.h = f.h, !.full = TRUE, !.def = f.def, !.scroll = f.scroll,
                  !.cells = [i \in size |-> IF i < Len(f.cells) THEN Resolve(f.cells[i + 1], f.def)
                                                               ELSE [fg |-> f.def, glyph |-> ""]],
                  !.dirty = AllDirty(f.h)]

\* A full frame replaces the whole grid; a short one leaves a blank tail.
ApplyFrame(g, f) ==
    LET content(i) == IF i < Len(f.cells) THEN Resolve(f.cells[i + 1], f.def)
                                          ELSE [fg |-> f.def, glyph |-> ""]
    IN  [w |-> f.w, h |-> f.h, full |-> TRUE, def |-> f.def, scroll |-> f.scroll,
         cells |-> [i \in Indices(f.w, f.h) |-> content(i)],
         dirty |-> AllDirty(f.h), dropped |-> g.dropped]

RowOf(g, i) == i \div g.w

\* A mutant: the first index is taken for one outside the grid.
SetCellAboveZero(g, c) ==
    IF c.i \in DOMAIN g.cells \ {0}
      THEN [g EXCEPT !.cells[c.i] = Resolve(c.cell, g.def), !.dirty[RowOf(g, c.i)] = TRUE]
      ELSE [g EXCEPT !.dropped = TRUE]

\* One cell of a diff; an index outside the grid is dropped, and counted.
SetCell(g, c) ==
    IF c.i \in DOMAIN g.cells
      THEN [g EXCEPT !.cells[c.i] = Resolve(c.cell, g.def), !.dirty[RowOf(g, c.i)] = TRUE]
      ELSE [g EXCEPT !.dropped = TRUE]

\* A mutant: only the rows that come in are marked.
ShiftKeepsClean(g, n) ==
    IF g.w = 0 \/ g.h = 0 \/ n <= 0 THEN g
    ELSE LET k == n * g.w
             kept == IF n < g.h THEN g.w * g.h - k ELSE 0
         IN  [g EXCEPT !.cells = [i \in DOMAIN g.cells |->
                                     IF i < kept THEN g.cells[i + k]
                                                 ELSE [fg |-> g.def, glyph |-> " "]],
                       !.dirty = [y \in DOMAIN g.dirty |-> g.dirty[y] \/ y >= g.h - n]]

\* Every row moves up by n; what comes in from below is blank.
ShiftUp(g, n) ==
    IF g.w = 0 \/ g.h = 0 \/ n <= 0 THEN g
    ELSE LET k == n * g.w
             kept == IF n < g.h THEN g.w * g.h - k ELSE 0
         IN  [g EXCEPT !.cells = [i \in DOMAIN g.cells |->
                                     IF i < kept THEN g.cells[i + k]
                                                 ELSE [fg |-> g.def, glyph |-> " "]],
                       !.dirty = AllDirty(g.h)]

\* A mutant: the cells land before the shift.
CellsThenShift(g, d) ==
    IF ~g.full THEN [g EXCEPT !.dropped = @ \/ d.cells # <<>>]
    ELSE ShiftUp(FoldLeft(SetCell, [g EXCEPT !.scroll = d.scroll], d.cells), d.shift)

\* A diff patches the last full frame: the shift lands before the cells.
ApplyDiff(g, d) ==
    IF ~g.full THEN [g EXCEPT !.dropped = @ \/ d.cells # <<>>]
    ELSE FoldLeft(SetCell, ShiftUp([g EXCEPT !.scroll = d.scroll], d.shift), d.cells)

\* A mutant: the grid outlives its socket.
KeepGrid(g) == g

\* ResetForNewSocket clears the map, GridFor makes the grid anew.
ResetForNewSocket(g) == NewPaneGrid

-----------------------------------------------------------------------------
(* The server, which is external.                                          *)

Frame(s, d, pos) ==
    [t |-> "frame", w |-> s.w, h |-> s.h, def |-> d, scroll |-> pos,
     cells |-> [j \in 1 .. s.w * s.h |-> s.at[(j - 1) \div s.w][(j - 1) % s.w]]]
Diff(n, cells, pos) == [t |-> "diff", shift |-> n, cells |-> cells, scroll |-> pos]

Screens(sz, c) == [w |-> sz.w, h |-> sz.h, at |-> [y \in 0 .. sz.h - 1 |-> [x \in 0 .. sz.w - 1 |-> c]]]
Blank == [fg |-> 0, glyph |-> " "]

Scrolled(s, n) ==
    [s EXCEPT !.at = [y \in 0 .. s.h - 1 |-> IF y + n < s.h THEN s.at[y + n]
                                             ELSE [x \in 0 .. s.w - 1 |-> Blank]]]

Sends(m) == Len(wire) < MaxWire /\ wire' = Append(wire, m)

\* The program prints a cell, or n lines and then a cell: the server sends the
\* shift and the runs it took against the scrolled screen.
Prints(n, x, y, c) ==
    LET after == [Scrolled(screen, n) EXCEPT !.at[y][x] = c]
    IN  /\ screen' = after
        /\ scroll' \in {"none", "at"}
        /\ Sends(Diff(n, <<[i |-> y * screen.w + x, cell |-> c]>>, scroll'))
        /\ UNCHANGED <<def, strayed, grid, painted>>

\* The pane is resized, or redrawn: a full frame.
Redraws(sz, c) ==
    /\ screen' = Screens(sz, c)
    /\ Sends(Frame(screen', def, scroll))
    /\ UNCHANGED <<def, scroll, strayed, grid, painted>>

\* A diff with a cell the screen does not have.
Strays ==
    /\ strayed' = TRUE
    /\ \E c \in Cell : Sends(Diff(0, <<[i |-> screen.w * screen.h, cell |-> c]>>, scroll))
    /\ UNCHANGED <<screen, def, scroll, grid, painted>>

\* A new socket: what was in flight is lost, the session drops the grid, and
\* the server sends the whole screen, in this connection's colours; a diff of
\* the pane may come before it.
NewSocket(d, early) ==
    /\ def' = d
    /\ grid' = ResetForNewSocket(grid)
    /\ strayed' = early
    /\ \E c \in Cell :
         wire' = (IF early THEN <<Diff(0, <<[i |-> 0, cell |-> c]>>, scroll)>> ELSE <<>>)
                 \o <<Frame(screen, d, scroll)>>
    /\ painted' = NewPaneGrid.cells
    /\ UNCHANGED <<screen, scroll>>

-----------------------------------------------------------------------------
(* The client.                                                             *)

\* Session.Apply of a pane_frame or a pane_diff.
Apply ==
    /\ wire # <<>>
    /\ grid' = IF Head(wire).t = "frame" THEN ApplyFrame(grid, Head(wire)) ELSE ApplyDiff(grid, Head(wire))
    /\ wire' = Tail(wire)
    /\ UNCHANGED <<screen, def, scroll, strayed, painted>>

\* The renderer paints the dirty rows, and ClearDirty.
Paint ==
    /\ grid' = [grid EXCEPT !.dirty = [y \in DOMAIN grid.dirty |-> FALSE]]
    /\ painted' = grid.cells
    /\ UNCHANGED <<screen, def, scroll, wire, strayed>>

-----------------------------------------------------------------------------

Init ==
    /\ \E sz \in Sizes, c \in Cell : screen = Screens(sz, c)
    /\ def \in Default
    /\ scroll = "none"
    /\ wire = <<Frame(screen, def, scroll)>>
    /\ strayed = FALSE
    /\ grid = NewPaneGrid
    /\ painted = NewPaneGrid.cells

Next ==
    \/ \E n \in 0 .. screen.h + 1, x \in 0 .. screen.w - 1, y \in 0 .. screen.h - 1, c \in Cell :
         Prints(n, x, y, c)
    \/ \E sz \in Sizes, c \in Cell : Redraws(sz, c)
    \/ Strays
    \/ \E d \in Default, early \in BOOLEAN : NewSocket(d, early)
    \/ Apply
    \/ Paint

Spec == Init /\ [][Next]_vars

-----------------------------------------------------------------------------
(* Properties.                                                             *)

\* The columns of a grid have one entry for each cell, the dirty marks one for
\* each row, and every colour in them is a real one.
TypeOK ==
    /\ grid.full \in BOOLEAN /\ grid.dropped \in BOOLEAN /\ grid.scroll \in {"none", "at"}
    /\ DOMAIN grid.cells = Indices(grid.w, grid.h)
    /\ DOMAIN grid.dirty = 0 .. grid.h - 1
    /\ \A i \in DOMAIN grid.cells : grid.cells[i].fg \in Nat \ {0}

\* The view of the screen a client told the default colour d is to have.
Shows(g, s, d) ==
    /\ g.full /\ g.w = s.w /\ g.h = s.h /\ g.def = d
    /\ \A y \in 0 .. s.h - 1, x \in 0 .. s.w - 1 :
         g.cells[y * s.w + x] = Resolve(s.at[y][x], d)

\* A row the renderer has cleared and nothing has marked since still reads as
\* it was painted: repainting the dirty rows is enough.
CleanRowsArePainted ==
    \A y \in DOMAIN grid.dirty : ~grid.dirty[y] =>
        \A x \in 0 .. grid.w - 1 : painted[y * grid.w + x] = grid.cells[y * grid.w + x]

\* A grid is of the current socket: until that socket's full frame is in there
\* is none to patch, so no diff of it lands on an earlier socket's grid.
OfThisSocket == grid.full => grid.def = def

\* No cell is dropped that had a place: of a socket that carried no stray cell,
\* every cell was applied.
NothingDropped == grid.dropped => strayed

\* Once everything in flight has been applied the grid is the server's screen,
\* in this connection's colours, with its scroll position, whatever shifts,
\* resizes and reconnects came before; and on the way there it holds no earlier
\* socket's cells and loses none of this one's.
Mirrors ==
    /\ wire = <<>> => Shows(grid, screen, def) /\ grid.scroll = scroll
    /\ OfThisSocket
    /\ NothingDropped
=============================================================================
