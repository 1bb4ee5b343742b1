----------------------------- MODULE GridProofs -----------------------------
(***************************************************************************)
(* Proofs about the cell grid of a pane, for screens of any size, any cell *)
(* and any number of messages in flight.                                   *)
(*                                                                         *)
(* That the grid ends as the server's screen is a promise about messages   *)
(* it has not read.  The inductive invariant states it as a forecast:      *)
(* there is a sequence of grids, from the one the session holds, each made *)
(* of the one before by the next message in flight, the last of which      *)
(* shows the server's screen.  What the server sends lengthens it by the   *)
(* diff it took; what the client applies takes the first away.             *)
(***************************************************************************)
EXTENDS Grid, TLAPS

-----------------------------------------------------------------------------
(* Rows and columns in a flat grid.                                        *)

\* A later row starts at least one row further on.
LEMMA Product ==
    ASSUME NEW a \in Nat, NEW b \in Nat, NEW w \in Nat, a < b
    PROVE  a * w + w <= b * w
<1>1. PICK k \in Nat : b = a + 1 + k  BY SMT
<1>2. b * w = a * w + w + k * w  BY <1>1, SMT
<1>3. k * w \in Nat  BY SMT
<1>. QED BY <1>2, <1>3, SMT

\* A row and a column of the grid have a place in it.
LEMMA InTheGrid ==
    ASSUME NEW w \in Nat, NEW h \in Nat, NEW y \in 0 .. h - 1, NEW x \in 0 .. w - 1
    PROVE  y * w + x \in 0 .. w * h - 1 /\ y * w \in Nat
<1>1. y * w + w <= h * w  BY Product
<1>2. h * w = w * h  BY SMT
<1>3. y * w \in Nat  BY SMT
<1>. QED BY <1>1, <1>2, <1>3, SMT

\* No two of them have the same place.
LEMMA OnePlace ==
    ASSUME NEW w \in Nat, NEW y \in Nat, NEW x \in 0 .. w - 1,
           NEW z \in Nat, NEW v \in 0 .. w - 1, y * w + x = z * w + v
    PROVE  y = z /\ x = v
<1>0. y * w \in Nat /\ z * w \in Nat  BY SMT
<1>1. ~ y < z  BY <1>0, Product, SMT
<1>2. ~ z < y  BY <1>0, Product, SMT
<1>. QED BY <1>0, <1>1, <1>2, SMT

\* The row and the column of a place are found again by division.
LEMMA RowAndColumn ==
    ASSUME NEW w \in Nat, NEW y \in Nat, NEW x \in 0 .. w - 1
    PROVE  (y * w + x) \div w = y /\ (y * w + x) % w = x
<1>. DEFINE i == y * w + x
<1>0. i \in Nat /\ w > 0 BY SMT
<1>1. i = w * (i \div w) + (i % w) /\ i \div w \in Nat /\ i % w \in 0 .. w - 1  BY <1>0, SMT
<1>. QED BY <1>1, OnePlace, SMT

\* Every index of the grid is the place of a row and a column.
LEMMA EveryPlace ==
    ASSUME NEW w \in Nat, NEW h \in Nat, NEW i \in 0 .. w * h - 1
    PROVE  i \div w \in 0 .. h - 1 /\ i % w \in 0 .. w - 1 /\ i = (i \div w) * w + (i % w)
<1>0. w > 0 /\ i \in Nat BY SMT
<1>1. i = w * (i \div w) + (i % w) /\ i \div w \in Nat /\ i % w \in 0 .. w - 1  BY <1>0, SMT
<1>. DEFINE q == i \div w
<1>2. q < h
  <2>. SUFFICES ASSUME ~ q < h PROVE FALSE  OBVIOUS
  <2>1. h * w <= q * w
    <3>1. CASE h = q  BY <3>1
    <3>2. CASE h < q
      <4>1. h * w + w <= q * w  BY <3>2, <1>1, Product
      <4>. QED BY <4>1, <1>1, SMT
    <3>. QED BY <3>1, <3>2, <1>1
  <2>. QED BY <2>1, <1>1, SMT
<1>. QED BY <1>1, <1>2, SMT

\* The fold over the runs of a diff that has one cell sets that cell.
LEMMA FoldOne ==
    ASSUME NEW g, NEW c
    PROVE  FoldLeft(SetCell, g, <<c>>) = SetCell(g, c)
<1>. DEFINE S == DOMAIN <<c>>
            step(iter, s) == IF s = {} THEN g
                             ELSE LET x == Max(s) IN SetCell(iter[s \ {x}], <<c>>[x])
            fold == CHOOSE iter : iter = [s \in SUBSET S |-> step(iter, s)]
            known == [s \in SUBSET S |-> IF s = {} THEN g ELSE SetCell(g, c)]
<1>1. FoldLeft(SetCell, g, <<c>>) = fold[S]
  BY Zenon DEF FoldLeft, MapThenFoldSet
<1>2. S = {1} /\ <<c>>[1] = c  OBVIOUS
<1>3. Max({1}) = 1  BY DEF Max
<1>4. \A s \in SUBSET S : step(known, s) = known[s]
  <2>1. TAKE s \in SUBSET S
  <2>2. CASE s = {}  BY <2>2
  <2>3. CASE s = {1}
    <3>. HIDE DEF S
    <3>1. s \ {1} = {} /\ {} \in SUBSET S  BY <2>3
    <3>2. known[{}] = g /\ known[s] = SetCell(g, c)  BY <2>3, <3>1
    <3>. QED BY <1>2, <1>3, <2>3, <3>1, <3>2
  <2>. QED BY <1>2, <2>2, <2>3
<1>5. known = [s \in SUBSET S |-> step(known, s)]  BY <1>4, Zenon
<1>6. fold = [s \in SUBSET S |-> step(fold, s)]  BY <1>5, Zenon
<1>. HIDE DEF fold
<1>7. fold[{}] = g  BY <1>6
<1>8. fold[S] = SetCell(fold[{}], c)
  <2>. HIDE DEF S
  <2>1. S \in SUBSET S /\ S # {} /\ S \ {1} = {}  BY <1>2
  <2>2. fold[S] = step(fold, S)  BY <1>6, <2>1, Zenon
  <2>. QED BY <1>2, <1>3, <2>1, <2>2
<1>. QED BY <1>1, <1>7, <1>8

-----------------------------------------------------------------------------
(* Grids and screens, and what the operators of PaneGrid make of them.     *)

\* Where the scrollback may stand.
Position == {"none", "at"}
Glyph    == STRING \cup {"", " "}
Pixel    == [fg : Nat \ {0}, glyph : Glyph]
Printed  == Cell \cup {Blank}

\* The grids of one size; a default colour is needed once a frame is in.
Canvas(w, h) ==
    [w : {w}, h : {h}, full : BOOLEAN, def : Nat, scroll : Position, dropped : BOOLEAN,
     cells : [Indices(w, h) -> Pixel], dirty : [0 .. h - 1 -> BOOLEAN]]

\* A grid of some size.
IsGrid(g) == /\ g.w \in Nat /\ g.h \in Nat /\ g \in Canvas(g.w, g.h)
             /\ g.full => g.def # 0

\* The screens of one size.
Display(w, h) == [w : {w}, h : {h}, at : [0 .. h - 1 -> [0 .. w - 1 -> Printed]]]

\* A screen of some size.
IsScreen(s) == s.w \in Nat /\ s.h \in Nat /\ s \in Display(s.w, s.h)

\* The glyphs the client puts in by itself.
LEMMA Glyphs == "" \in Glyph /\ " " \in Glyph
BY Zenon DEF Glyph

\* A resolved cell has a real colour, a blank one the default.
LEMMA Resolved ==
    ASSUME NEW d \in Nat \ {0}
    PROVE  /\ \A c \in Printed : Resolve(c, d) \in Pixel
           /\ Resolve(Blank, d) = [fg |-> d, glyph |-> " "]
<1>1. Blank.fg = 0 /\ Blank.glyph = " " /\ Blank \in [fg : Nat, glyph : Glyph]
  BY Glyphs DEF Blank
<1>2. Printed \subseteq [fg : Nat, glyph : Glyph]
  <2>. SUFFICES ASSUME NEW c \in Cell PROVE c \in [fg : Nat, glyph : Glyph]
    BY <1>1 DEF Printed
  <2>1. STRING \subseteq Glyph  BY Zenon DEF Glyph
  <2>. QED BY <2>1, CellAssumption
<1>3. \A c \in Printed : Resolve(c, d) = [fg |-> IF c.fg = 0 THEN d ELSE c.fg, glyph |-> c.glyph]
  BY <1>2 DEF Resolve
<1>4. \A c \in Printed : Resolve(c, d) \in Pixel  BY <1>2, <1>3 DEF Pixel
<1>5. Blank \in Printed  BY Zenon DEF Printed
<1>6. Resolve(Blank, d) = [fg |-> d, glyph |-> " "]  BY <1>1, <1>3, <1>5
<1>. QED BY <1>4, <1>6

\* The grid GridFor makes is one, with nothing in it.
LEMMA NewGrid == IsGrid(NewPaneGrid) /\ ~NewPaneGrid.full /\ ~NewPaneGrid.dropped
<1>1. Indices(0, 0) = {} /\ 0 .. 0 - 1 = {}  BY DEF Indices
<1>2. NewPaneGrid.cells \in [Indices(0, 0) -> Pixel]  BY <1>1 DEF NewPaneGrid
<1>3. NewPaneGrid.dirty \in [0 .. 0 - 1 -> BOOLEAN]  BY <1>1 DEF NewPaneGrid
<1>. QED BY <1>2, <1>3 DEF IsGrid, Canvas, Position, NewPaneGrid

\* A frame carries the screen row after row.
LEMMA FrameCells ==
    ASSUME NEW s, IsScreen(s), NEW d, NEW pos
    PROVE  LET f == Frame(s, d, pos)
           IN  /\ f.t = "frame" /\ f.w = s.w /\ f.h = s.h /\ f.def = d /\ f.scroll = pos
               /\ Len(f.cells) = s.w * s.h
               /\ \A i \in Indices(s.w, s.h) : f.cells[i + 1] = s.at[i \div s.w][i % s.w]
<1>0. s.w \in Nat /\ s.h \in Nat  BY DEF IsScreen
<1>. DEFINE n == s.w * s.h
            f == Frame(s, d, pos)
<1>1. n \in Nat  BY <1>0, SMT
<1>2. f.cells = [j \in 1 .. n |-> s.at[(j - 1) \div s.w][(j - 1) % s.w]]  BY DEF Frame
<1>3. f.t = "frame" /\ f.w = s.w /\ f.h = s.h /\ f.def = d /\ f.scroll = pos  BY DEF Frame
<1>. HIDE DEF n, f
<1>4. Len(f.cells) = n  BY <1>1, <1>2
<1>5. ASSUME NEW i \in 0 .. n - 1  PROVE f.cells[i + 1] = s.at[i \div s.w][i % s.w]
  <2>1. i + 1 \in 1 .. n /\ (i + 1) - 1 = i  BY <1>1
  <2>. QED BY <1>2, <2>1
<1>. QED BY <1>3, <1>4, <1>5 DEF n, f, Indices

\* r is the whole screen s, told the default colour d.
FrameDone(r, g, s, d, pos) ==
    /\ IsGrid(r) /\ Shows(r, s, d) /\ r.scroll = pos /\ r.dropped = g.dropped
    /\ \A y \in 0 .. r.h - 1 : r.dirty[y]

\* ApplyFrame makes any grid the screen the frame was taken of.
LEMMA FrameApplied ==
    ASSUME NEW g, IsGrid(g), NEW s, IsScreen(s), NEW d \in Default, NEW pos \in Position,
           NEW f, f = Frame(s, d, pos), NEW r, r = ApplyFrame(g, f)
    PROVE  FrameDone(r, g, s, d, pos)
<1>0. s.w \in Nat /\ s.h \in Nat /\ d \in Nat \ {0}  BY DefaultAssumption DEF IsScreen
<1>. DEFINE at(i) == s.at[i \div s.w][i % s.w]
<1>1. /\ f.w = s.w /\ f.h = s.h /\ f.def = d /\ f.scroll = pos
      /\ Len(f.cells) = s.w * s.h
      /\ \A i \in Indices(s.w, s.h) : f.cells[i + 1] = at(i)
  BY FrameCells
<1>. HIDE DEF at
<1>. DEFINE new == [i \in Indices(f.w, f.h) |-> IF i < Len(f.cells) THEN Resolve(f.cells[i + 1], f.def)
                                                ELSE [fg |-> f.def, glyph |-> ""]]
<1>2. r = [w |-> f.w, h |-> f.h, full |-> TRUE, def |-> f.def, scroll |-> f.scroll,
           cells |-> new, dirty |-> AllDirty(f.h), dropped |-> g.dropped]
  BY Zenon DEF ApplyFrame
<1>3. \A i \in Indices(s.w, s.h) : i < s.w * s.h  BY <1>0 DEF Indices
<1>4. new = [i \in Indices(s.w, s.h) |-> Resolve(at(i), d)]  BY <1>1, <1>3
<1>. HIDE DEF new
<1>5. r.w = s.w /\ r.h = s.h /\ r.full = TRUE /\ r.def = d /\ r.scroll = pos
       /\ r.cells = new /\ r.dirty = AllDirty(s.h) /\ r.dropped = g.dropped
  BY <1>1, <1>2
<1>6. r \in [w : {r.w}, h : {r.h}, full : {r.full}, def : {r.def}, scroll : {r.scroll},
              cells : {r.cells}, dirty : {r.dirty}, dropped : {r.dropped}]
  BY <1>2
<1>7. \A i \in Indices(s.w, s.h) : at(i) \in Printed
  <2>1. TAKE i \in Indices(s.w, s.h)
  <2>2. i \div s.w \in 0 .. s.h - 1 /\ i % s.w \in 0 .. s.w - 1  BY <1>0, EveryPlace DEF Indices
  <2>. HIDE DEF at
  <2>3. s.at[i \div s.w] \in [0 .. s.w - 1 -> Printed]  BY <2>2 DEF IsScreen, Display
  <2>. QED BY <2>2, <2>3 DEF at
<1>8. r.cells \in [Indices(s.w, s.h) -> Pixel]
  <2>1. \A i \in Indices(s.w, s.h) : Resolve(at(i), d) \in Pixel  BY <1>0, <1>7, Resolved
  <2>2. new \in [Indices(s.w, s.h) -> Pixel]  BY <1>4, <2>1
  <2>. QED BY <1>5, <2>2
<1>9. r.dirty \in [0 .. s.h - 1 -> BOOLEAN] /\ \A y \in 0 .. s.h - 1 : r.dirty[y]
  BY <1>5 DEF AllDirty
<1>10. IsGrid(r)
  <2>1. g.dropped \in BOOLEAN  BY DEF IsGrid, Canvas
  <2>. QED BY <1>0, <1>8, <1>9, <1>5, <1>6, <2>1 DEF IsGrid, Canvas
<1>11. ASSUME NEW y \in 0 .. s.h - 1, NEW x \in 0 .. s.w - 1
      PROVE  r.cells[y * s.w + x] = Resolve(s.at[y][x], d)
  <2>1. y * s.w + x \in Indices(s.w, s.h)  BY <1>0, InTheGrid DEF Indices
  <2>2. (y * s.w + x) \div s.w = y /\ (y * s.w + x) % s.w = x
    <3>1. y \in Nat  BY <1>0
    <3>. QED BY <1>0, <3>1, RowAndColumn
  <2>. QED BY <1>4, <1>5, <2>1, <2>2 DEF at
<1>12. Shows(r, s, d)  BY <1>11, <1>5 DEF Shows
<1>13. r.scroll = pos /\ r.dropped = g.dropped /\ r.h = s.h  BY <1>5
<1>. QED BY <1>9, <1>10, <1>12, <1>13 DEF FrameDone

\* A grid with other cells and other marks.
Patch(g, new, marks) == [g EXCEPT !.cells = new, !.dirty = marks]

\* Such a patch leaves all else as it was.
LEMMA Patched ==
    ASSUME NEW g, IsGrid(g), NEW new \in [Indices(g.w, g.h) -> Pixel], NEW marks \in [0 .. g.h - 1 -> BOOLEAN],
           NEW r, r = Patch(g, new, marks)
    PROVE  /\ IsGrid(r) /\ r.cells = new /\ r.dirty = marks
           /\ r.w = g.w /\ r.h = g.h /\ r.full = g.full /\ r.def = g.def
           /\ r.scroll = g.scroll /\ r.dropped = g.dropped
<1>1. g \in Canvas(g.w, g.h)  BY DEF IsGrid
<1>2. /\ r.cells = new /\ r.dirty = marks
      /\ r.w = g.w /\ r.h = g.h /\ r.full = g.full /\ r.def = g.def
      /\ r.scroll = g.scroll /\ r.dropped = g.dropped
  BY <1>1 DEF Canvas, Patch
<1>3. r \in Canvas(g.w, g.h)  BY <1>1 DEF Canvas, Patch
<1>4. IsGrid(r)  BY <1>2, <1>3 DEF IsGrid
<1>. QED BY <1>2, <1>4

\* A new scroll position leaves all else as it was.
LEMMA Scrolls ==
    ASSUME NEW g, IsGrid(g), NEW pos \in Position
    PROVE  LET r == [g EXCEPT !.scroll = pos]
           IN  /\ IsGrid(r) /\ r.cells = g.cells /\ r.dirty = g.dirty
               /\ r.w = g.w /\ r.h = g.h /\ r.full = g.full /\ r.def = g.def
               /\ r.scroll = pos /\ r.dropped = g.dropped
<1>1. g \in Canvas(g.w, g.h)  BY DEF IsGrid
<1>. DEFINE r == [g EXCEPT !.scroll = pos]
<1>2. /\ r.cells = g.cells /\ r.dirty = g.dirty
      /\ r.w = g.w /\ r.h = g.h /\ r.full = g.full /\ r.def = g.def
      /\ r.scroll = pos /\ r.dropped = g.dropped
  BY <1>1 DEF Canvas
<1>3. r \in Canvas(g.w, g.h)  BY <1>1 DEF Canvas
<1>4. IsGrid(r)  BY <1>2, <1>3 DEF IsGrid
<1>. QED BY <1>2, <1>4

\* A dropped cell leaves all else as it was.
LEMMA Drops ==
    ASSUME NEW g, IsGrid(g), NEW b \in BOOLEAN
    PROVE  LET r == [g EXCEPT !.dropped = b]
           IN  /\ IsGrid(r) /\ r.cells = g.cells /\ r.dirty = g.dirty
               /\ r.w = g.w /\ r.h = g.h /\ r.full = g.full /\ r.def = g.def
               /\ r.scroll = g.scroll /\ r.dropped = b
<1>1. g \in Canvas(g.w, g.h)  BY DEF IsGrid
<1>. DEFINE r == [g EXCEPT !.dropped = b]
<1>2. /\ r.cells = g.cells /\ r.dirty = g.dirty
      /\ r.w = g.w /\ r.h = g.h /\ r.full = g.full /\ r.def = g.def
      /\ r.scroll = g.scroll /\ r.dropped = b
  BY <1>1 DEF Canvas
<1>3. r \in Canvas(g.w, g.h)  BY <1>1 DEF Canvas
<1>4. IsGrid(r)  BY <1>2, <1>3 DEF IsGrid
<1>. QED BY <1>2, <1>4

\* The same grid, but for the cells, the marks and the count of what it dropped.
SameShape(r, g) ==
    /\ IsGrid(r)
    /\ r.w = g.w /\ r.h = g.h /\ r.full = g.full /\ r.def = g.def

\* The cell of g at row y and column x.
At(g, y, x) == g.cells[y * g.w + x]

\* A row that r does not mark reads in r as in g, and g does not mark it.
MarksWhatChanged(r, g) ==
    \A y \in 0 .. g.h - 1 : ~r.dirty[y] =>
        ~g.dirty[y] /\ \A x \in 0 .. g.w - 1 : At(r, y, x) = At(g, y, x)

\* ShiftUp moves every row up by n, blanks what comes in, and marks every row
\* or changes none.
LEMMA Shifted ==
    ASSUME NEW g, IsGrid(g), g.full, NEW n \in Nat
    PROVE  LET r == ShiftUp(g, n)
           IN  /\ SameShape(r, g) /\ MarksWhatChanged(r, g)
               /\ r.scroll = g.scroll /\ r.dropped = g.dropped
               /\ \A y \in 0 .. g.h - 1, x \in 0 .. g.w - 1 :
                     At(r, y, x) = IF y + n < g.h THEN At(g, y + n, x) ELSE [fg |-> g.def, glyph |-> " "]
<1>. DEFINE k == n * g.w
            kept == IF n < g.h THEN g.w * g.h - k ELSE 0
            blank == [fg |-> g.def, glyph |-> " "]
            new == [i \in DOMAIN g.cells |-> IF i < kept THEN g.cells[i + k] ELSE blank]
            r == ShiftUp(g, n)
<1>0. g.w \in Nat /\ g.h \in Nat /\ g.def \in Nat \ {0} /\ DOMAIN g.cells = Indices(g.w, g.h)
      /\ g.cells \in [Indices(g.w, g.h) -> Pixel]
  BY DEF IsGrid, Canvas
<1>1. CASE g.w = 0 \/ g.h = 0 \/ n <= 0
  <2>1. r = g  BY <1>1, Zenon DEF ShiftUp
  <2>2. \A y \in 0 .. g.h - 1, x \in 0 .. g.w - 1 : y + n = y /\ y + n < g.h  BY <1>0, <1>1
  <2>. HIDE DEF r
  <2>. QED BY <2>1, <2>2 DEF SameShape, MarksWhatChanged, At, r
<1>2. CASE ~(g.w = 0 \/ g.h = 0 \/ n <= 0)
  <2>1. r = [g EXCEPT !.cells = new, !.dirty = AllDirty(g.h)]  BY <1>2, Zenon DEF ShiftUp
  <2>2. k \in Nat /\ g.w * g.h \in Nat  BY <1>0, SMT
  <2>3. n < g.h => k + g.w <= g.w * g.h
    <3>1. n < g.h => n * g.w + g.w <= g.h * g.w  BY <1>0, Product
    <3>2. g.h * g.w = g.w * g.h  BY <1>0, SMT
    <3>. QED BY <3>1, <3>2
  <2>4. blank \in Pixel  BY <1>0, Glyphs DEF Pixel
  <2>. HIDE DEF k, blank
  <2>5. new \in [Indices(g.w, g.h) -> Pixel]
    <3>1. \A i \in Indices(g.w, g.h) : i < kept => i + k \in Indices(g.w, g.h)
      BY <1>0, <2>2, <2>3 DEF Indices
    <3>. QED BY <1>0, <2>4, <3>1
  <2>6. AllDirty(g.h) \in [0 .. g.h - 1 -> BOOLEAN] /\ \A y \in 0 .. g.h - 1 : AllDirty(g.h)[y]
    BY DEF AllDirty
  <2>7. ASSUME NEW y \in 0 .. g.h - 1, NEW x \in 0 .. g.w - 1
        PROVE  new[y * g.w + x] = IF y + n < g.h THEN At(g, y + n, x) ELSE blank
    <3>1. y * g.w + x \in Indices(g.w, g.h) /\ y * g.w \in Nat  BY <1>0, InTheGrid DEF Indices
    <3>2. (y + n) * g.w = y * g.w + k  BY <1>0, SMT DEF k
    <3>3. CASE y + n < g.h
      <4>1. (y + n) * g.w + g.w <= g.h * g.w
        <5>1. y + n \in Nat  BY <1>0
        <5>. QED BY <1>0, <3>3, <5>1, Product
      <4>2. g.h * g.w = g.w * g.h  BY <1>0, SMT
      <4>3. y * g.w + x < kept  BY <1>0, <2>2, <3>1, <3>2, <3>3, <4>1, <4>2
      <4>4. (y + n) * g.w + x = y * g.w + x + k  BY <1>0, <2>2, <3>1, <3>2
      <4>. QED BY <1>0, <3>1, <3>3, <4>3, <4>4 DEF At
    <3>4. CASE ~(y + n < g.h)
      <4>1. ~(y * g.w + x < kept)
        <5>1. CASE ~(n < g.h)  BY <1>0, <3>1, <5>1
        <5>2. CASE n < g.h
          <6>1. (y + n) * g.w >= g.h * g.w
            <7>1. y + n \in Nat  BY <1>0
            <7>2. CASE y + n = g.h  BY <1>0, <7>2, SMT
            <7>3. CASE g.h < y + n
              <8>1. g.h * g.w + g.w <= (y + n) * g.w  BY <1>0, <7>1, <7>3, Product
              <8>2. g.h * g.w \in Nat /\ (y + n) * g.w \in Nat  BY <1>0, <7>1, SMT
              <8>. QED BY <1>0, <8>1, <8>2
            <7>. QED BY <1>0, <3>4, <7>1, <7>2, <7>3
          <6>2. g.h * g.w = g.w * g.h  BY <1>0, SMT
          <6>. QED BY <1>0, <2>2, <3>1, <3>2, <5>2, <6>1, <6>2
        <5>. QED BY <5>1, <5>2
      <4>. QED BY <1>0, <3>1, <3>4, <4>1
    <3>. QED BY <3>3, <3>4
  <2>. HIDE DEF new, r
  <2>8. /\ IsGrid(r) /\ r.cells = new /\ r.dirty = AllDirty(g.h)
        /\ r.w = g.w /\ r.h = g.h /\ r.full = g.full /\ r.def = g.def
        /\ r.scroll = g.scroll /\ r.dropped = g.dropped
    <3>. DEFINE marks == AllDirty(g.h)
    <3>1. marks \in [0 .. g.h - 1 -> BOOLEAN]  BY <2>6
    <3>2. r = Patch(g, new, marks)  BY <2>1, Zenon DEF Patch
    <3>. HIDE DEF marks
    <3>3. IsGrid(g)  OBVIOUS
    <3>4. /\ IsGrid(r) /\ r.cells = new /\ r.dirty = marks
          /\ r.w = g.w /\ r.h = g.h /\ r.full = g.full /\ r.def = g.def
          /\ r.scroll = g.scroll /\ r.dropped = g.dropped
      <4>1. new \in [Indices(g.w, g.h) -> Pixel]  BY <2>5
      <4>2. IsGrid(r)  BY <3>3, <4>1, <3>1, <3>2, Patched
      <4>3. r.cells = new /\ r.dirty = marks  BY <3>3, <4>1, <3>1, <3>2, Patched
      <4>4. r.w = g.w /\ r.h = g.h /\ r.def = g.def  BY <3>3, <4>1, <3>1, <3>2, Patched
      <4>5. r.full = g.full  BY <3>3, <4>1, <3>1, <3>2, Patched
      <4>6. r.scroll = g.scroll  BY <3>3, <4>1, <3>1, <3>2, Patched
      <4>7. r.dropped = g.dropped  BY <3>3, <4>1, <3>1, <3>2, Patched
      <4>. QED BY <4>2, <4>3, <4>4, <4>5, <4>6, <4>7
    <3>. QED BY <3>4 DEF marks
  <2>9. SameShape(r, g) /\ r.scroll = g.scroll /\ r.dropped = g.dropped  BY <2>8 DEF SameShape
  <2>10. MarksWhatChanged(r, g)  BY <2>6, <2>8 DEF MarksWhatChanged
  <2>11. \A y \in 0 .. g.h - 1, x \in 0 .. g.w - 1 :
            At(r, y, x) = IF y + n < g.h THEN At(g, y + n, x) ELSE blank
    BY <2>7, <2>8 DEF At
  <2>. QED BY <2>9, <2>10, <2>11 DEF r, blank
<1>. QED BY <1>1, <1>2

\* The runs of a diff that sets one cell.
OneCell(i, p) == <<[i |-> i, cell |-> p]>>

\* SetCell changes one cell and marks its row, or drops it for want of a place.
LEMMA CellSet ==
    ASSUME NEW g, IsGrid(g), g.full, NEW i \in Nat, NEW p \in Cell
    PROVE  LET r == SetCell(g, [i |-> i, cell |-> p])
           IN  /\ SameShape(r, g) /\ MarksWhatChanged(r, g)
               /\ r.scroll = g.scroll
               /\ r.dropped = (g.dropped \/ ~ i < g.w * g.h)
               /\ \A y \in 0 .. g.h - 1, x \in 0 .. g.w - 1 :
                     At(r, y, x) = IF i = y * g.w + x THEN Resolve(p, g.def) ELSE At(g, y, x)
<1>. DEFINE r == SetCell(g, [i |-> i, cell |-> p])
            q == Resolve(p, g.def)
            row == i \div g.w
<1>0. g.w \in Nat /\ g.h \in Nat /\ g.def \in Nat \ {0} /\ DOMAIN g.cells = Indices(g.w, g.h)
      /\ g.cells \in [Indices(g.w, g.h) -> Pixel] /\ g.dirty \in [0 .. g.h - 1 -> BOOLEAN]
      /\ g.dropped \in BOOLEAN
  BY DEF IsGrid, Canvas
<1>1. g.w * g.h \in Nat  BY <1>0, SMT
<1>2. CASE i < g.w * g.h
  <2>. DEFINE new == [g.cells EXCEPT ![i] = q]
              marks == [g.dirty EXCEPT ![row] = TRUE]
  <2>1. i \in Indices(g.w, g.h)  BY <1>1, <1>2 DEF Indices
  <2>2. row \in 0 .. g.h - 1  BY <1>0, <2>1, EveryPlace DEF Indices
  <2>3. q \in Pixel  BY <1>0, Resolved DEF Printed
  <2>4. r = Patch(g, new, marks)
    <3>1. g \in Canvas(g.w, g.h)  BY DEF IsGrid
    <3>2. i \in DOMAIN g.cells  BY <1>0, <2>1
    <3>3. r = [g EXCEPT !.cells[i] = q, !.dirty[row] = TRUE]  BY <3>2, Zenon DEF SetCell, RowOf
    <3>. QED BY <3>1, <3>3 DEF Patch, Canvas
  <2>5. new \in [Indices(g.w, g.h) -> Pixel] /\ marks \in [0 .. g.h - 1 -> BOOLEAN]
    BY <1>0, <2>1, <2>2, <2>3
  <2>. HIDE DEF r, new, marks
  <2>6. IsGrid(r)  BY <2>4, <2>5, Patched
  <2>7. r.cells = new /\ r.dirty = marks  BY <2>4, <2>5, Patched
  <2>8. r.w = g.w /\ r.h = g.h /\ r.def = g.def  BY <2>4, <2>5, Patched
  <2>9. r.full = g.full  BY <2>4, <2>5, Patched
  <2>10. r.scroll = g.scroll  BY <2>4, <2>5, Patched
  <2>11. r.dropped = g.dropped  BY <2>4, <2>5, Patched
  <2>12. ASSUME NEW y \in 0 .. g.h - 1, NEW x \in 0 .. g.w - 1
         PROVE  At(r, y, x) = IF i = y * g.w + x THEN q ELSE At(g, y, x)
    <3>1. y * g.w + x \in Indices(g.w, g.h)  BY <1>0, InTheGrid DEF Indices
    <3>2. At(r, y, x) = new[y * g.w + x]  BY <2>7, <2>8 DEF At
    <3>. QED BY <1>0, <2>1, <3>1, <3>2 DEF At, new
  <2>13. ASSUME NEW y \in 0 .. g.h - 1, ~r.dirty[y], NEW x \in 0 .. g.w - 1
         PROVE  At(r, y, x) = At(g, y, x)
    <3>1. y # row  BY <1>0, <2>2, <2>7, <2>13 DEF marks
    <3>2. i # y * g.w + x
      <4>1. y \in Nat  BY <1>0
      <4>2. (y * g.w + x) \div g.w = y  BY <1>0, <4>1, RowAndColumn
      <4>. QED BY <3>1, <4>2
    <3>. QED BY <2>12, <3>2
  <2>14. ASSUME NEW y \in 0 .. g.h - 1, ~r.dirty[y]  PROVE ~g.dirty[y]
    BY <1>0, <2>2, <2>7, <2>14 DEF marks
  <2>15. SameShape(r, g)  BY <2>6, <2>8, <2>9 DEF SameShape
  <2>16. MarksWhatChanged(r, g)  BY <2>13, <2>14 DEF MarksWhatChanged
  <2>17. r.dropped = (g.dropped \/ ~ i < g.w * g.h)  BY <1>2, <2>11, <1>0
  <2>. QED BY <2>10, <2>12, <2>15, <2>16, <2>17 DEF r
<1>3. CASE ~ i < g.w * g.h
  <2>1. i \notin DOMAIN g.cells  BY <1>0, <1>1, <1>3 DEF Indices
  <2>2. r = [g EXCEPT !.dropped = TRUE]  BY <2>1, Zenon DEF SetCell
  <2>. HIDE DEF r
  <2>3. IsGrid(r)  BY <2>2, Drops
  <2>4. r.cells = g.cells /\ r.dirty = g.dirty  BY <2>2, Drops
  <2>5. r.w = g.w /\ r.h = g.h /\ r.def = g.def  BY <2>2, Drops
  <2>6. r.full = g.full  BY <2>2, Drops
  <2>7. r.scroll = g.scroll  BY <2>2, Drops
  <2>8. r.dropped = TRUE  BY <2>2, Drops
  <2>9. ASSUME NEW y \in 0 .. g.h - 1, NEW x \in 0 .. g.w - 1  PROVE i # y * g.w + x
    <3>1. y * g.w + x \in 0 .. g.w * g.h - 1  BY <1>0, InTheGrid
    <3>. QED BY <1>1, <1>3, <3>1
  <2>10. \A y, x : At(r, y, x) = At(g, y, x)  BY <2>4, <2>5 DEF At
  <2>11. SameShape(r, g)  BY <2>3, <2>5, <2>6 DEF SameShape
  <2>12. MarksWhatChanged(r, g)  BY <2>4, <2>10 DEF MarksWhatChanged
  <2>13. r.dropped = (g.dropped \/ ~ i < g.w * g.h)  BY <1>3, <2>8
  <2>. QED BY <2>7, <2>9, <2>10, <2>11, <2>12, <2>13 DEF r
<1>. QED BY <1>2, <1>3

\* r is g shifted by n, with p put at i.
DiffDone(r, g, n, i, p, pos) ==
    /\ SameShape(r, g) /\ MarksWhatChanged(r, g)
    /\ r.scroll = pos
    /\ r.dropped = (g.dropped \/ ~ i < g.w * g.h)
    /\ \A y \in 0 .. g.h - 1, x \in 0 .. g.w - 1 :
          At(r, y, x) = IF i = y * g.w + x THEN Resolve(p, g.def)
                        ELSE IF y + n < g.h THEN At(g, y + n, x)
                        ELSE [fg |-> g.def, glyph |-> " "]

\* ApplyDiff on a grid that has its frame: the shift, then the cell.
LEMMA DiffApplied ==
    ASSUME NEW g, IsGrid(g), g.full, NEW n \in Nat, NEW i \in Nat, NEW p \in Cell, NEW pos \in Position,
           NEW m, m = Diff(n, OneCell(i, p), pos),
           NEW r, r = ApplyDiff(g, m)
    PROVE  DiffDone(r, g, n, i, p, pos)
<1>. DEFINE one == [i |-> i, cell |-> p]
            a == [g EXCEPT !.scroll = pos]
            b == ShiftUp(a, n)
<1>0. g.w \in Nat /\ g.h \in Nat  BY DEF IsGrid
<1>1. r = SetCell(b, one)
  <2>1. m.scroll = pos /\ m.shift = n /\ m.cells = <<one>>
    BY DEF Diff, OneCell
  <2>2. r = FoldLeft(SetCell, b, <<one>>)  BY <2>1, Zenon DEF ApplyDiff
  <2>. QED BY <2>2, FoldOne
<1>2. SameShape(a, g) /\ MarksWhatChanged(a, g) /\ a.full
  <2>1. /\ IsGrid(a) /\ a.cells = g.cells /\ a.dirty = g.dirty
        /\ a.w = g.w /\ a.h = g.h /\ a.full = g.full /\ a.def = g.def
    BY Scrolls
  <2>. HIDE DEF a
  <2>2. SameShape(a, g) /\ a.full  BY <2>1 DEF SameShape
  <2>3. MarksWhatChanged(a, g)  BY <2>1 DEF MarksWhatChanged, At
  <2>. QED BY <2>2, <2>3
<1>3. \A y, x : At(a, y, x) = At(g, y, x)  BY Scrolls DEF At
<1>4. a.scroll = pos /\ a.dropped = g.dropped  BY Scrolls
<1>. HIDE DEF a
<1>5. IsGrid(a)  BY <1>2 DEF SameShape
<1>6. SameShape(b, a) /\ MarksWhatChanged(b, a)  BY <1>2, <1>5, Shifted
<1>7. \A y \in 0 .. a.h - 1, x \in 0 .. a.w - 1 :
         At(b, y, x) = IF y + n < a.h THEN At(a, y + n, x) ELSE [fg |-> a.def, glyph |-> " "]
  BY <1>2, <1>5, Shifted
<1>8. b.scroll = a.scroll /\ b.dropped = a.dropped  BY <1>2, <1>5, Shifted
<1>. HIDE DEF b
<1>9. IsGrid(b) /\ b.full  BY <1>2, <1>6 DEF SameShape
<1>10. SameShape(r, b) /\ MarksWhatChanged(r, b)  BY <1>1, <1>9, CellSet
<1>11. r.scroll = b.scroll  BY <1>1, <1>9, CellSet
<1>12. r.dropped = (b.dropped \/ ~ i < b.w * b.h)  BY <1>1, <1>9, CellSet
<1>13. \A y \in 0 .. b.h - 1, x \in 0 .. b.w - 1 :
          At(r, y, x) = IF i = y * b.w + x THEN Resolve(p, b.def) ELSE At(b, y, x)
  BY <1>1, <1>9, CellSet
<1>14. SameShape(r, g)  BY <1>2, <1>6, <1>10 DEF SameShape
<1>15. MarksWhatChanged(r, g)  BY <1>2, <1>6, <1>10 DEF SameShape, MarksWhatChanged
<1>16. b.w = g.w /\ b.h = g.h /\ b.def = g.def /\ a.w = g.w /\ a.h = g.h /\ a.def = g.def
  BY <1>2, <1>6 DEF SameShape
<1>17. \A y \in 0 .. g.h - 1, x \in 0 .. g.w - 1 :
          At(r, y, x) = IF i = y * g.w + x THEN Resolve(p, g.def)
                        ELSE IF y + n < g.h THEN At(g, y + n, x)
                        ELSE [fg |-> g.def, glyph |-> " "]
  <2>1. TAKE y \in 0 .. g.h - 1, x \in 0 .. g.w - 1
  <2>2. At(r, y, x) = IF i = y * g.w + x THEN Resolve(p, g.def) ELSE At(b, y, x)  BY <1>13, <1>16
  <2>3. At(b, y, x) = IF y + n < g.h THEN At(a, y + n, x) ELSE [fg |-> g.def, glyph |-> " "]
    BY <1>7, <1>16
  <2>. QED BY <1>3, <2>2, <2>3
<1>18. r.scroll = pos /\ r.dropped = (g.dropped \/ ~ i < g.w * g.h)
  BY <1>4, <1>8, <1>11, <1>12, <1>16
<1>. QED BY <1>14, <1>15, <1>17, <1>18 DEF DiffDone

-----------------------------------------------------------------------------
(* The inductive invariant.                                                *)

\* Session.Apply of a message to the grid.
Applied(g, m) == IF m.t = "frame" THEN ApplyFrame(g, m) ELSE ApplyDiff(g, m)

\* The screens a server may have, and the messages it may send.
AllScreens == UNION {Display(z.w, z.h) : z \in [w : Nat, h : Nat]}
Frames     == {Frame(s, d, pos) : s \in AllScreens, d \in Default, pos \in Position}
Diffs      == {Diff(n, OneCell(i, p), pos) :
                  n \in Nat, i \in Nat, p \in Cell, pos \in Position}

\* The types.
Typed ==
    /\ screen \in AllScreens /\ def \in Default /\ scroll \in Position
    /\ wire \in Seq(Frames \cup Diffs) /\ strayed \in BOOLEAN
    /\ IsGrid(grid)

\* A grid the current socket can have made, d its default colour.
OfSocket(g, d, stray) ==
    /\ IsGrid(g)
    /\ g.full => g.def = d
    /\ g.dropped => stray

\* They differ in the marks of the rows to repaint at most.
Alike(a, b) ==
    /\ a.w = b.w /\ a.h = b.h /\ a.full = b.full /\ a.def = b.def
    /\ a.cells = b.cells /\ a.scroll = b.scroll /\ a.dropped = b.dropped

\* hist is the forecast: what the grid g becomes, message by message of w, up to
\* the screen s at the position pos.
Foretells(hist, g, w, s, d, pos, stray) ==
    /\ \A k \in 1 .. Len(w) + 1 : OfSocket(hist[k], d, stray)
    /\ Alike(hist[1], g)
    /\ \A k \in 1 .. Len(w) : Alike(hist[k + 1], Applied(hist[k], w[k]))
    /\ Shows(hist[Len(w) + 1], s, d) /\ hist[Len(w) + 1].scroll = pos

\* There is such a forecast.
EndsRight(g, w, s, d, pos, stray) == \E hist : Foretells(hist, g, w, s, d, pos, stray)

\* The inductive invariant.
GridInv ==
    /\ Typed
    /\ EndsRight(grid, wire, screen, def, scroll, strayed)
    /\ CleanRowsArePainted

\* AllScreens by its sizes and by the screens themselves.
LEMMA TheScreens == \A s : s \in AllScreens <=> IsScreen(s)
<1>1. ASSUME NEW s \in AllScreens  PROVE IsScreen(s)
  <2>1. PICK z \in [w : Nat, h : Nat] : s \in Display(z.w, z.h)  BY DEF AllScreens
  <2>2. s.w = z.w /\ s.h = z.h  BY <2>1 DEF Display
  <2>. QED BY <2>1, <2>2 DEF IsScreen
<1>2. ASSUME NEW s, IsScreen(s)  PROVE s \in AllScreens
  <2>. DEFINE z == [w |-> s.w, h |-> s.h]
  <2>1. z \in [w : Nat, h : Nat] /\ z.w = s.w /\ z.h = s.h  BY <1>2 DEF IsScreen
  <2>2. s \in Display(z.w, z.h)  BY <1>2, <2>1 DEF IsScreen
  <2>. HIDE DEF z
  <2>. QED BY <2>1, <2>2 DEF AllScreens
<1>. QED BY <1>1, <1>2

\* A diff before the first frame of a socket is dropped.
LEMMA NoGridYet ==
    ASSUME NEW g, IsGrid(g), ~g.full, NEW m \in Diffs
    PROVE  LET r == ApplyDiff(g, m)
           IN  /\ SameShape(r, g) /\ MarksWhatChanged(r, g) /\ r.dropped = TRUE
               /\ r.cells = g.cells /\ r.scroll = g.scroll
<1>1. PICK n \in Nat, i \in Nat, p \in Cell, pos \in Position : m = Diff(n, OneCell(i, p), pos)
  BY DEF Diffs
<1>2. m.cells = OneCell(i, p)  BY <1>1 DEF Diff
<1>3. m.cells # <<>>  BY <1>2 DEF OneCell
<1>4. ApplyDiff(g, m) = [g EXCEPT !.dropped = TRUE]
  <2>1. ApplyDiff(g, m) = [g EXCEPT !.dropped = @ \/ m.cells # <<>>]  BY Zenon DEF ApplyDiff
  <2>2. g \in Canvas(g.w, g.h)  BY DEF IsGrid
  <2>3. (g.dropped \/ m.cells # <<>>) = TRUE  BY <1>3
  <2>. QED BY <2>1, <2>3, Zenon
<1>. DEFINE r == ApplyDiff(g, m)
<1>. HIDE DEF r
<1>5. r = [g EXCEPT !.dropped = TRUE]  BY <1>4 DEF r
<1>6. IsGrid(r)  BY <1>5, Drops
<1>7. r.cells = g.cells /\ r.dirty = g.dirty  BY <1>5, Drops
<1>8. r.scroll = g.scroll  BY <1>5, Drops
<1>9. r.w = g.w /\ r.h = g.h /\ r.def = g.def  BY <1>5, Drops
<1>10. r.full = g.full  BY <1>5, Drops
<1>11. r.dropped = TRUE  BY <1>5, Drops
<1>12. SameShape(r, g)  BY <1>6, <1>9, <1>10 DEF SameShape
<1>13. MarksWhatChanged(r, g)  BY <1>7, <1>9 DEF MarksWhatChanged, At
<1>. QED BY <1>7, <1>11, <1>12, <1>13, <1>8 DEF r

\* A message sent makes the forecast one longer.
LEMMA Lengthen ==
    ASSUME NEW M, NEW w \in Seq(M), NEW m \in M, NEW hist, NEW g, NEW s, NEW d, NEW pos, NEW stray,
           Foretells(hist, g, w, s, d, pos, stray),
           NEW news, NEW newpos, NEW newstray, stray => newstray,
           LET r == Applied(hist[Len(w) + 1], m)
           IN  OfSocket(r, d, newstray) /\ Shows(r, news, d) /\ r.scroll = newpos
    PROVE  EndsRight(g, Append(w, m), news, d, newpos, newstray)
<1>. DEFINE n == Len(w)
            u == Append(w, m)
            r == Applied(hist[n + 1], m)
            next == [k \in 1 .. n + 2 |-> IF k <= n + 1 THEN hist[k] ELSE r]
<1>1. n \in Nat /\ Len(u) = n + 1 /\ \A k \in 1 .. n : u[k] = w[k]  OBVIOUS
<1>2. u[n + 1] = m  OBVIOUS
<1>3. OfSocket(r, d, newstray) /\ Shows(r, news, d) /\ r.scroll = newpos  OBVIOUS
<1>4. \A k \in 1 .. n + 1 : OfSocket(hist[k], d, newstray)  BY DEF Foretells, OfSocket
<1>5. Alike(hist[1], g) /\ \A k \in 1 .. n : Alike(hist[k + 1], Applied(hist[k], w[k]))
  BY DEF Foretells
<1>. HIDE DEF n, r, u
<1>6. \A k \in 1 .. n + 1 : next[k] = hist[k]  BY <1>1
<1>7. next[n + 2] = r  BY <1>1
<1>. HIDE DEF next
<1>8. \A k \in 1 .. n + 2 : OfSocket(next[k], d, newstray)
  <2>1. TAKE k \in 1 .. n + 2
  <2>2. CASE k \in 1 .. n + 1  BY <1>4, <1>6, <2>2
  <2>3. CASE k = n + 2  BY <1>3, <1>7, <2>3
  <2>. QED BY <1>1, <2>2, <2>3
<1>9. Alike(next[1], g)  BY <1>1, <1>5, <1>6
<1>10. \A k \in 1 .. n + 1 : Alike(next[k + 1], Applied(next[k], u[k]))
  <2>1. TAKE k \in 1 .. n + 1
  <2>2. CASE k \in 1 .. n
    <3>1. next[k] = hist[k] /\ next[k + 1] = hist[k + 1] /\ u[k] = w[k]  BY <1>1, <1>6, <2>2
    <3>. QED BY <1>5, <2>2, <3>1
  <2>3. CASE k = n + 1
    <3>1. next[k] = hist[n + 1] /\ next[k + 1] = r /\ u[k] = m  BY <1>1, <1>2, <1>6, <1>7, <2>3
    <3>. QED BY <3>1 DEF r, Alike
  <2>. QED BY <1>1, <2>2, <2>3
<1>11. Shows(next[n + 2], news, d) /\ next[n + 2].scroll = newpos  BY <1>3, <1>7
<1>12. Len(u) + 1 = n + 2  BY <1>1
<1>13. Foretells(next, g, u, news, d, newpos, newstray)
  BY <1>1, <1>8, <1>9, <1>10, <1>11, <1>12 DEF Foretells
<1>. QED BY <1>13 DEF EndsRight, u

\* The two kinds of message are told apart.
LEMMA MessageKinds ==
    /\ \A m \in Frames : m.t = "frame"
    /\ \A m \in Diffs : m.t = "diff"
BY DEF Frames, Diffs, Frame, Diff

\* Marks apart, what a message makes of a grid does not depend on them.
LEMMA AppliedAlike ==
    ASSUME NEW a, IsGrid(a), NEW b, IsGrid(b), Alike(a, b), NEW m \in Frames \cup Diffs
    PROVE  IsGrid(Applied(b, m)) /\ Alike(Applied(a, m), Applied(b, m))
<1>. DEFINE ra == Applied(a, m)
            rb == Applied(b, m)
<1>1. CASE m \in Frames
  <2>1. PICK s \in AllScreens, d \in Default, pos \in Position : m = Frame(s, d, pos)
    BY <1>1 DEF Frames
  <2>2. ra = ApplyFrame(a, m) /\ rb = ApplyFrame(b, m)  BY <1>1, MessageKinds DEF Applied
  <2>3. a.dropped = b.dropped  BY DEF Alike
  <2>4. Alike(ra, rb)  BY <2>2, <2>3 DEF ApplyFrame, Alike
  <2>. HIDE DEF rb
  <2>5. FrameDone(rb, b, s, d, pos)  BY <2>1, <2>2, TheScreens, FrameApplied
  <2>. QED BY <2>4, <2>5 DEF FrameDone, rb
<1>2. CASE m \in Diffs
  <2>1. PICK n \in Nat, i \in Nat, p \in Cell, pos \in Position : m = Diff(n, OneCell(i, p), pos)
    BY <1>2 DEF Diffs
  <2>2. ra = ApplyDiff(a, m) /\ rb = ApplyDiff(b, m)  BY <1>2, MessageKinds DEF Applied
  <2>3. a.w = b.w /\ a.h = b.h /\ a.full = b.full /\ a.def = b.def
        /\ a.cells = b.cells /\ a.scroll = b.scroll /\ a.dropped = b.dropped
    BY DEF Alike
  <2>4. CASE a.full
    <3>. HIDE DEF ra, rb
    <3>1. b.full  BY <2>3, <2>4
    <3>2. DiffDone(ra, a, n, i, p, pos)  BY <2>1, <2>2, <2>4, DiffApplied
    <3>3. DiffDone(rb, b, n, i, p, pos)  BY <2>1, <2>2, <3>1, DiffApplied
    <3>4. SameShape(ra, a) /\ SameShape(rb, b) /\ ra.scroll = pos /\ rb.scroll = pos
      BY <3>2, <3>3 DEF DiffDone
    <3>5. ra.dropped = rb.dropped
      <4>1. ra.dropped = (a.dropped \/ ~ i < a.w * a.h)  BY <3>2 DEF DiffDone
      <4>2. rb.dropped = (b.dropped \/ ~ i < b.w * b.h)  BY <3>3 DEF DiffDone
      <4>3. a.w * a.h = b.w * b.h /\ a.dropped = b.dropped  BY <2>3
      <4>4. CASE i < a.w * a.h
        <5>1. ra.dropped = (a.dropped \/ FALSE) /\ rb.dropped = (b.dropped \/ FALSE)
          BY <4>1, <4>2, <4>3, <4>4
        <5>. QED BY <4>3, <5>1
      <4>5. CASE ~ i < a.w * a.h
        <5>1. ra.dropped = TRUE /\ rb.dropped = TRUE  BY <4>1, <4>2, <4>3, <4>5
        <5>. QED BY <5>1
      <4>. QED BY <4>4, <4>5
    <3>6. IsGrid(ra) /\ IsGrid(rb) /\ ra.w = rb.w /\ ra.h = rb.h /\ ra.w = a.w /\ ra.h = a.h /\ ra.def = rb.def
      BY <2>3, <3>4 DEF SameShape
    <3>7. ra.full = rb.full  BY <2>3, <3>4 DEF SameShape
    <3>8. ASSUME NEW y \in 0 .. a.h - 1, NEW x \in 0 .. a.w - 1
          PROVE  ra.cells[y * ra.w + x] = rb.cells[y * ra.w + x]
      <4>. DEFINE blank == [fg |-> a.def, glyph |-> " "]
      <4>1. At(ra, y, x) = IF i = y * a.w + x THEN Resolve(p, a.def)
                           ELSE IF y + n < a.h THEN At(a, y + n, x) ELSE blank
        BY <3>2 DEF DiffDone
      <4>2. At(rb, y, x) = IF i = y * a.w + x THEN Resolve(p, a.def)
                           ELSE IF y + n < a.h THEN At(b, y + n, x) ELSE blank
        BY <2>3, <3>3 DEF DiffDone
      <4>. HIDE DEF blank
      <4>3. At(a, y + n, x) = At(b, y + n, x)  BY <2>3 DEF At
      <4>4. At(ra, y, x) = At(rb, y, x)
        <5>1. CASE i = y * a.w + x  BY <4>1, <4>2, <5>1
        <5>2. CASE i # y * a.w + x /\ y + n < a.h  BY <4>1, <4>2, <4>3, <5>2
        <5>3. CASE i # y * a.w + x /\ ~(y + n < a.h)  BY <4>1, <4>2, <5>3
        <5>. QED BY <5>1, <5>2, <5>3
      <4>. QED BY <3>6, <4>4 DEF At
    <3>9. ra.cells = rb.cells
      <4>0. a.w \in Nat /\ a.h \in Nat  BY DEF IsGrid
      <4>1. ra.cells \in [Indices(a.w, a.h) -> Pixel] /\ rb.cells \in [Indices(a.w, a.h) -> Pixel]
        BY <3>6 DEF IsGrid, Canvas
      <4>2. ASSUME NEW k \in Indices(a.w, a.h)  PROVE ra.cells[k] = rb.cells[k]
        <5>1. k \div a.w \in 0 .. a.h - 1 /\ k % a.w \in 0 .. a.w - 1 /\ k = (k \div a.w) * a.w + (k % a.w)
          BY <4>0, EveryPlace DEF Indices
        <5>. DEFINE y == k \div a.w
                    x == k % a.w
        <5>. HIDE DEF y, x
        <5>2. y \in 0 .. a.h - 1 /\ x \in 0 .. a.w - 1 /\ k = y * a.w + x  BY <5>1 DEF y, x
        <5>. QED BY <3>6, <3>8, <5>2
      <4>. QED BY <4>1, <4>2
    <3>. QED BY <3>4, <3>5, <3>6, <3>7, <3>9 DEF Alike, ra, rb
  <2>5. CASE ~a.full
    <3>1. ~b.full  BY <2>3, <2>5
    <3>2. SameShape(ApplyDiff(a, m), a) /\ ApplyDiff(a, m).dropped = TRUE
          /\ ApplyDiff(a, m).cells = a.cells /\ ApplyDiff(a, m).scroll = a.scroll
      BY <1>2, <2>5, NoGridYet
    <3>3. SameShape(ApplyDiff(b, m), b) /\ ApplyDiff(b, m).dropped = TRUE
          /\ ApplyDiff(b, m).cells = b.cells /\ ApplyDiff(b, m).scroll = b.scroll
      BY <1>2, <3>1, NoGridYet
    <3>. HIDE DEF ra, rb
    <3>4. IsGrid(rb) /\ Alike(ra, rb)  BY <2>2, <2>3, <3>2, <3>3 DEF SameShape, Alike
    <3>. QED BY <3>4 DEF ra, rb
  <2>. QED BY <2>4, <2>5
<1>. QED BY <1>1, <1>2

\* Applying the first message takes the first grid off the forecast.
LEMMA Shorten ==
    ASSUME NEW w \in Seq(Frames \cup Diffs), w # <<>>, NEW g, IsGrid(g),
           NEW s, NEW d, NEW pos, NEW stray, EndsRight(g, w, s, d, pos, stray)
    PROVE  /\ OfSocket(Applied(g, Head(w)), d, stray)
           /\ EndsRight(Applied(g, Head(w)), Tail(w), s, d, pos, stray)
<1>. DEFINE n == Len(w)
            u == Tail(w)
            r == Applied(g, Head(w))
<1>1. PICK hist : Foretells(hist, g, w, s, d, pos, stray)  BY DEF EndsRight
<1>. DEFINE next == [k \in 1 .. n |-> hist[k + 1]]
<1>2. n \in Nat \ {0} /\ Len(u) = n - 1 /\ Head(w) = w[1] /\ \A k \in 1 .. n - 1 : u[k] = w[k + 1]
  OBVIOUS
<1>3. Alike(hist[1], g) /\ (\A k \in 1 .. n + 1 : OfSocket(hist[k], d, stray))
      /\ (\A k \in 1 .. n : Alike(hist[k + 1], Applied(hist[k], w[k])))
      /\ Shows(hist[n + 1], s, d) /\ hist[n + 1].scroll = pos
  BY <1>1 DEF Foretells
<1>4. Head(w) \in Frames \cup Diffs  OBVIOUS
<1>. HIDE DEF n, u
<1>5. \A k \in 1 .. n : next[k] = hist[k + 1]  BY <1>2
<1>. HIDE DEF next
<1>6. OfSocket(r, d, stray) /\ Alike(next[1], r)
  <2>1. OfSocket(hist[1], d, stray) /\ OfSocket(hist[2], d, stray)  BY <1>2, <1>3
  <2>2. IsGrid(hist[1])  BY <2>1 DEF OfSocket
  <2>3. IsGrid(r) /\ Alike(Applied(hist[1], Head(w)), r)  BY <1>3, <1>4, <2>2, AppliedAlike
  <2>4. Alike(hist[2], Applied(hist[1], Head(w)))
    <3>1. 1 \in 1 .. n /\ hist[1 + 1] = hist[2]  BY <1>2
    <3>. QED BY <1>2, <1>3, <3>1
  <2>. HIDE DEF r
  <2>5. Alike(hist[2], r)  BY <2>3, <2>4 DEF Alike
  <2>6. OfSocket(r, d, stray)  BY <2>1, <2>3, <2>5 DEF OfSocket, Alike
  <2>7. next[1] = hist[2]
    <3>1. 1 \in 1 .. n /\ hist[1 + 1] = hist[2]  BY <1>2
    <3>. QED BY <1>5, <3>1
  <2>. QED BY <2>5, <2>6, <2>7
<1>7. \A k \in 1 .. n : OfSocket(next[k], d, stray)  BY <1>2, <1>3, <1>5
<1>8. \A k \in 1 .. n - 1 : Alike(next[k + 1], Applied(next[k], u[k]))
  <2>1. TAKE k \in 1 .. n - 1
  <2>2. next[k] = hist[k + 1] /\ next[k + 1] = hist[k + 1 + 1] /\ u[k] = w[k + 1]  BY <1>2, <1>5
  <2>. QED BY <1>2, <1>3, <2>2
<1>9. Shows(next[n], s, d) /\ next[n].scroll = pos  BY <1>2, <1>3, <1>5
<1>10. Len(u) + 1 = n  BY <1>2
<1>. HIDE DEF r
<1>11. Foretells(next, r, u, s, d, pos, stray)
  BY <1>2, <1>6, <1>7, <1>8, <1>9, <1>10 DEF Foretells
<1>. QED BY <1>6, <1>11 DEF EndsRight, u, r

\* What n lines of output do to a screen.
LEMMA ScrolledScreen ==
    ASSUME NEW s, IsScreen(s), NEW n \in Nat
    PROVE  LET t == Scrolled(s, n)
           IN  /\ IsScreen(t) /\ t.w = s.w /\ t.h = s.h
               /\ \A y \in 0 .. s.h - 1 : t.at[y] = IF y + n < s.h THEN s.at[y + n]
                                                    ELSE [x \in 0 .. s.w - 1 |-> Blank]
<1>0. s.w \in Nat /\ s.h \in Nat /\ s \in Display(s.w, s.h)  BY DEF IsScreen
<1>. DEFINE new == [y \in 0 .. s.h - 1 |-> IF y + n < s.h THEN s.at[y + n]
                                           ELSE [x \in 0 .. s.w - 1 |-> Blank]]
            t == Scrolled(s, n)
<1>1. t = [s EXCEPT !.at = new]  BY DEF Scrolled
<1>2. \A y \in 0 .. s.h - 1 : y + n < s.h => y + n \in 0 .. s.h - 1  BY <1>0
<1>3. s.at \in [0 .. s.h - 1 -> [0 .. s.w - 1 -> Printed]]  BY <1>0 DEF Display
<1>4. [x \in 0 .. s.w - 1 |-> Blank] \in [0 .. s.w - 1 -> Printed]
  <2>1. Blank \in Printed  BY Zenon DEF Printed
  <2>. QED BY <2>1
<1>5. new \in [0 .. s.h - 1 -> [0 .. s.w - 1 -> Printed]]  BY <1>2, <1>3, <1>4
<1>. HIDE DEF new
<1>6. t.w = s.w /\ t.h = s.h /\ t.at = new  BY <1>0, <1>1 DEF Display
<1>7. t \in Display(s.w, s.h)  BY <1>0, <1>1, <1>5 DEF Display
<1>. HIDE DEF t
<1>8. IsScreen(t)  BY <1>0, <1>6, <1>7 DEF IsScreen
<1>. QED BY <1>6, <1>8 DEF new, t

\* The screen s with c printed at row y and column x.
Put(s, y, x, c) == [s EXCEPT !.at[y][x] = c]

\* What one printed cell does to a screen.
LEMMA PrintedScreen ==
    ASSUME NEW s, IsScreen(s), NEW y \in 0 .. s.h - 1, NEW x \in 0 .. s.w - 1, NEW c \in Cell,
           NEW t, t = Put(s, y, x, c)
    PROVE  /\ IsScreen(t) /\ t.w = s.w /\ t.h = s.h
           /\ \A z \in 0 .. s.h - 1, v \in 0 .. s.w - 1 :
                 t.at[z][v] = IF z = y /\ v = x THEN c ELSE s.at[z][v]
<1>0. s.w \in Nat /\ s.h \in Nat /\ s \in Display(s.w, s.h)  BY DEF IsScreen
<1>. DEFINE new == [s.at EXCEPT ![y][x] = c]
<1>1. t = [s EXCEPT !.at = new]  BY <1>0 DEF Display, Put
<1>2. s.at \in [0 .. s.h - 1 -> [0 .. s.w - 1 -> Printed]]  BY <1>0 DEF Display
<1>3. c \in Printed  BY DEF Printed
<1>4. new \in [0 .. s.h - 1 -> [0 .. s.w - 1 -> Printed]]  BY <1>2, <1>3
<1>5. \A z \in 0 .. s.h - 1, v \in 0 .. s.w - 1 :
         new[z][v] = IF z = y /\ v = x THEN c ELSE s.at[z][v]
  BY <1>2
<1>. HIDE DEF new
<1>6. t.w = s.w /\ t.h = s.h /\ t.at = new  BY <1>0, <1>1 DEF Display
<1>7. t \in Display(s.w, s.h)  BY <1>0, <1>1, <1>4 DEF Display
<1>8. IsScreen(t)  BY <1>0, <1>6, <1>7 DEF IsScreen
<1>. QED BY <1>5, <1>6, <1>8

\* What a program prints makes a screen and a diff.
LEMMA PrintMade ==
    ASSUME NEW s, IsScreen(s), NEW n \in Nat,
           NEW y \in 0 .. s.h - 1, NEW x \in 0 .. s.w - 1, NEW c \in Cell, NEW pos \in Position,
           NEW after, after = Put(Scrolled(s, n), y, x, c),
           NEW m, m = Diff(n, OneCell(y * s.w + x, c), pos)
    PROVE  IsScreen(after) /\ m \in Diffs
<1>0. s.w \in Nat /\ s.h \in Nat  BY DEF IsScreen
<1>. DEFINE t == Scrolled(s, n)
            i == y * s.w + x
<1>1. IsScreen(t) /\ t.w = s.w /\ t.h = s.h  BY ScrolledScreen
<1>2. after = Put(t, y, x, c)  OBVIOUS
<1>. HIDE DEF t
<1>3. IsScreen(after)  BY <1>1, <1>2, PrintedScreen
<1>4. i \in Nat  BY <1>0, InTheGrid
<1>5. m = Diff(n, OneCell(i, c), pos)  OBVIOUS
<1>. HIDE DEF i
<1>6. m \in Diffs  BY <1>4, <1>5 DEF Diffs
<1>. QED BY <1>3, <1>6

\* That diff takes a grid that shows the screen to one that shows the new one.
LEMMA PrintShown ==
    ASSUME NEW g, IsGrid(g), NEW s, IsScreen(s), NEW d \in Default, Shows(g, s, d),
           NEW n \in Nat, NEW y \in 0 .. s.h - 1, NEW x \in 0 .. s.w - 1, NEW c \in Cell,
           NEW pos \in Position,
           NEW after, after = Put(Scrolled(s, n), y, x, c),
           NEW m, m = Diff(n, OneCell(y * s.w + x, c), pos),
           NEW r, r = ApplyDiff(g, m)
    PROVE  IsGrid(r) /\ Shows(r, after, d) /\ r.scroll = pos /\ r.dropped = g.dropped
<1>. DEFINE t == Scrolled(s, n)
            i == y * s.w + x
<1>0. s.w \in Nat /\ s.h \in Nat  BY DEF IsScreen
<1>1. g.full /\ g.w = s.w /\ g.h = s.h /\ g.def = d
      /\ \A z \in 0 .. s.h - 1, v \in 0 .. s.w - 1 : At(g, z, v) = Resolve(s.at[z][v], d)
  BY DEF Shows, At
<1>2. /\ IsScreen(t) /\ t.w = s.w /\ t.h = s.h
      /\ \A z \in 0 .. s.h - 1 : t.at[z] = IF z + n < s.h THEN s.at[z + n]
                                           ELSE [v \in 0 .. s.w - 1 |-> Blank]
  BY ScrolledScreen
<1>3. i \in Nat /\ i < s.w * s.h
  <2>1. i \in 0 .. s.w * s.h - 1 /\ s.w * s.h \in Nat  BY <1>0, InTheGrid, SMT
  <2>. QED BY <2>1
<1>. HIDE DEF t
<1>4. after = Put(t, y, x, c) /\ m = Diff(n, OneCell(i, c), pos)  BY DEF t
<1>5. /\ IsScreen(after) /\ after.w = s.w /\ after.h = s.h
      /\ \A z \in 0 .. s.h - 1, v \in 0 .. s.w - 1 :
            after.at[z][v] = IF z = y /\ v = x THEN c ELSE t.at[z][v]
  BY <1>2, <1>4, PrintedScreen
<1>. HIDE DEF i
<1>6. m = Diff(n, OneCell(i, c), pos)  BY <1>4
<1>7. r = ApplyDiff(g, m) /\ g.full /\ i \in Nat  BY <1>1, <1>3
<1>8. DiffDone(r, g, n, i, c, pos)  BY <1>6, <1>7, DiffApplied
<1>9. \A z \in 0 .. g.h - 1, v \in 0 .. g.w - 1 :
         At(r, z, v) = IF i = z * g.w + v THEN Resolve(c, g.def)
                       ELSE IF z + n < g.h THEN At(g, z + n, v)
                       ELSE [fg |-> g.def, glyph |-> " "]
  BY <1>8 DEF DiffDone
<1>10. ASSUME NEW z \in 0 .. s.h - 1, NEW v \in 0 .. s.w - 1
      PROVE  At(r, z, v) = Resolve(after.at[z][v], d)
  <2>1. i = z * s.w + v <=> z = y /\ v = x
    <3>1. z \in Nat /\ y \in Nat  BY <1>0
    <3>2. i = z * s.w + v => z = y /\ v = x  BY <1>0, <3>1, OnePlace DEF i
    <3>. QED BY <3>2 DEF i
  <2>2. CASE i = z * s.w + v  BY <1>1, <1>5, <1>9, <2>1, <2>2
  <2>3. CASE i # z * s.w + v
    <3>1. after.at[z][v] = t.at[z][v]  BY <1>5, <2>1, <2>3
    <3>2. CASE z + n < s.h
      <4>1. z + n \in 0 .. s.h - 1  BY <1>0, <3>2
      <4>2. At(r, z, v) = At(g, z + n, v)  BY <1>1, <1>9, <2>3, <3>2
      <4>3. t.at[z][v] = s.at[z + n][v]  BY <1>2, <3>2
      <4>. QED BY <1>1, <3>1, <4>1, <4>2, <4>3
    <3>3. CASE ~(z + n < s.h)
      <4>1. At(r, z, v) = [fg |-> d, glyph |-> " "]
        <5>1. /\ z \in 0 .. g.h - 1 /\ v \in 0 .. g.w - 1 /\ g.def = d
              /\ i # z * g.w + v /\ ~(z + n < g.h)
          BY <1>1, <2>3, <3>3
        <5>. QED BY <1>9, <5>1
      <4>2. t.at[z][v] = Blank  BY <1>2, <3>3
      <4>3. d \in Nat \ {0}  BY DefaultAssumption
      <4>. QED BY <3>1, <4>1, <4>2, <4>3, Resolved
    <3>. QED BY <3>2, <3>3
  <2>. QED BY <2>2, <2>3
<1>11. r.w = s.w /\ r.h = s.h /\ r.full /\ r.def = d  BY <1>1, <1>8 DEF SameShape, DiffDone
<1>12. Shows(r, after, d)  BY <1>5, <1>10, <1>11 DEF Shows, At
<1>13. IsGrid(r)  BY <1>8 DEF SameShape, DiffDone
<1>14. r.dropped = g.dropped
  <2>1. g.dropped \in BOOLEAN  BY DEF IsGrid, Canvas
  <2>2. i < g.w * g.h  BY <1>1, <1>3
  <2>3. r.dropped = (g.dropped \/ ~ i < g.w * g.h)  BY <1>8 DEF DiffDone
  <2>. QED BY <2>1, <2>2, <2>3
<1>. QED BY <1>8, <1>12, <1>13, <1>14 DEF DiffDone

-----------------------------------------------------------------------------
(* The first state, and one lemma for each action.                         *)

\* A new grid has no row that counts as painted.
LEMMA NothingPainted == \A y \in DOMAIN NewPaneGrid.dirty : FALSE
BY DEF NewPaneGrid

\* A redrawn screen is a screen.
LEMMA PlainScreen ==
    ASSUME NEW sz \in Sizes, NEW c \in Cell
    PROVE  Screens(sz, c) \in AllScreens /\ IsScreen(Screens(sz, c))
<1>1. sz.w \in Nat /\ sz.h \in Nat  BY SizesAssumption
<1>2. c \in Printed  BY DEF Printed
<1>3. Screens(sz, c) \in Display(sz.w, sz.h)  BY <1>2 DEF Screens, Display
<1>4. Screens(sz, c).w = sz.w /\ Screens(sz, c).h = sz.h  BY DEF Screens
<1>5. IsScreen(Screens(sz, c))  BY <1>1, <1>3, <1>4 DEF IsScreen
<1>. QED BY <1>5, TheScreens

\* The first frame of a socket gives a new grid the screen.
LEMMA FrameFirst ==
    ASSUME NEW s, IsScreen(s), NEW d \in Default, NEW pos \in Position, NEW stray \in BOOLEAN
    PROVE  EndsRight(NewPaneGrid, <<Frame(s, d, pos)>>, s, d, pos, stray)
<1>. DEFINE f == Frame(s, d, pos)
            r == ApplyFrame(NewPaneGrid, f)
            hist == <<NewPaneGrid, r>>
<1>1. FrameDone(r, NewPaneGrid, s, d, pos)  BY NewGrid, FrameApplied
<1>2. f.t = "frame"  BY DEF Frame
<1>3. r = Applied(NewPaneGrid, f)  BY <1>2 DEF Applied
<1>4. OfSocket(NewPaneGrid, d, stray)  BY NewGrid DEF OfSocket
<1>5. OfSocket(r, d, stray)  BY <1>1, NewGrid DEF OfSocket, FrameDone, Shows
<1>. HIDE DEF f, r
<1>6. Len(<<f>>) = 1 /\ <<f>>[1] = f /\ hist[1] = NewPaneGrid /\ hist[2] = r  OBVIOUS
<1>. HIDE DEF hist
<1>7. Foretells(hist, NewPaneGrid, <<f>>, s, d, pos, stray)
  BY <1>1, <1>3, <1>4, <1>5, <1>6 DEF Foretells, FrameDone, Alike
<1>. QED BY <1>7 DEF EndsRight, f

\* A diff that comes before it is dropped.
LEMMA DiffFirst ==
    ASSUME NEW s, IsScreen(s), NEW d \in Default, NEW pos \in Position, NEW m \in Diffs
    PROVE  EndsRight(NewPaneGrid, <<m, Frame(s, d, pos)>>, s, d, pos, TRUE)
<1>. DEFINE f == Frame(s, d, pos)
            q == ApplyDiff(NewPaneGrid, m)
            r == ApplyFrame(q, f)
            hist == <<NewPaneGrid, q, r>>
<1>0. SameShape(q, NewPaneGrid)  BY NewGrid, NoGridYet
<1>1. IsGrid(q) /\ ~q.full  BY <1>0, NewGrid DEF SameShape
<1>2. FrameDone(r, q, s, d, pos)  BY <1>1, FrameApplied
<1>3. f.t = "frame" /\ m.t = "diff"  BY MessageKinds DEF Frame
<1>4. q = Applied(NewPaneGrid, m) /\ r = Applied(q, f)  BY <1>3 DEF Applied
<1>5. OfSocket(NewPaneGrid, d, TRUE)  BY NewGrid DEF OfSocket
<1>6. OfSocket(q, d, TRUE)  BY <1>1 DEF OfSocket
<1>7. OfSocket(r, d, TRUE)  BY <1>2 DEF OfSocket, FrameDone, Shows
<1>. HIDE DEF f, q, r
<1>8. Len(<<m, f>>) = 2 /\ <<m, f>>[1] = m /\ <<m, f>>[2] = f
      /\ hist[1] = NewPaneGrid /\ hist[2] = q /\ hist[3] = r
  OBVIOUS
<1>. HIDE DEF hist
<1>. DEFINE w == <<m, f>>
<1>. HIDE DEF w
<1>9. Len(w) = 2 /\ w[1] = m /\ w[2] = f  BY <1>8 DEF w
<1>10. \A k \in 1 .. Len(w) + 1 : OfSocket(hist[k], d, TRUE)
  <2>1. \A k \in 1 .. Len(w) + 1 : k = 1 \/ k = 2 \/ k = 3  BY <1>9
  <2>. QED BY <1>5, <1>6, <1>7, <1>8, <2>1
<1>11. Alike(hist[1], NewPaneGrid) /\ \A k \in 1 .. Len(w) : Alike(hist[k + 1], Applied(hist[k], w[k]))
  BY <1>4, <1>8, <1>9 DEF Alike
<1>12. Foretells(hist, NewPaneGrid, w, s, d, pos, TRUE)
  <2>1. Len(w) + 1 = 3  BY <1>9
  <2>2. Shows(hist[3], s, d) /\ hist[3].scroll = pos  BY <1>2, <1>8 DEF FrameDone
  <2>. QED BY <1>8, <1>10, <1>11, <2>1, <2>2 DEF Foretells
<1>. QED BY <1>12 DEF EndsRight, f, w

\* The invariant holds at first.
LEMMA InitHolds == Init => GridInv
<1>. SUFFICES ASSUME Init PROVE GridInv  OBVIOUS
<1>1. PICK sz \in Sizes, c \in Cell : screen = Screens(sz, c)  BY DEF Init
<1>2. screen \in AllScreens /\ IsScreen(screen)  BY <1>1, PlainScreen
<1>3. def \in Default /\ scroll = "none" /\ scroll \in Position /\ strayed = FALSE /\ strayed \in BOOLEAN
      /\ grid = NewPaneGrid /\ painted = NewPaneGrid.cells /\ wire = <<Frame(screen, def, scroll)>>
  BY DEF Init, Position
<1>4. wire \in Seq(Frames \cup Diffs)
  <2>1. Frame(screen, def, scroll) \in Frames  BY <1>2, <1>3 DEF Frames
  <2>. QED BY <1>3, <2>1
<1>5. Typed  BY <1>2, <1>3, <1>4, NewGrid DEF Typed
<1>6. EndsRight(grid, wire, screen, def, scroll, strayed)
  BY <1>2, <1>3, FrameFirst
<1>7. CleanRowsArePainted  BY <1>3, NothingPainted DEF CleanRowsArePainted
<1>. QED BY <1>5, <1>6, <1>7 DEF GridInv

\* While a message is sent, the grid stands still: what it will read is the last
\* of the forecast with the message applied.
LEMMA Sent ==
    ASSUME GridInv, NEW m \in Frames \cup Diffs, Sends(m), NEW stray, strayed => stray,
           NEW news, NEW newpos,
           \A g : IsGrid(g) /\ Shows(g, screen, def) /\ g.scroll = scroll =>
                     /\ IsGrid(Applied(g, m)) /\ Shows(Applied(g, m), news, def)
                     /\ Applied(g, m).scroll = newpos
                     /\ Applied(g, m).dropped => g.dropped \/ stray
    PROVE  /\ wire' \in Seq(Frames \cup Diffs)
           /\ EndsRight(grid, wire', news, def, newpos, stray)
<1>1. wire \in Seq(Frames \cup Diffs) /\ wire' = Append(wire, m)  BY DEF GridInv, Typed, Sends
<1>2. PICK hist : Foretells(hist, grid, wire, screen, def, scroll, strayed)
  BY DEF GridInv, EndsRight
<1>. DEFINE g == hist[Len(wire) + 1]
            r == Applied(g, m)
<1>3. OfSocket(g, def, strayed) /\ Shows(g, screen, def) /\ g.scroll = scroll
  <2>1. Len(wire) + 1 \in 1 .. Len(wire) + 1  BY <1>1
  <2>. QED BY <1>2, <2>1 DEF Foretells
<1>. HIDE DEF g
<1>4. IsGrid(r) /\ Shows(r, news, def) /\ r.scroll = newpos /\ (r.dropped => g.dropped \/ stray)
  BY <1>3 DEF OfSocket
<1>5. OfSocket(r, def, stray)  BY <1>3, <1>4 DEF OfSocket, Shows
<1>. HIDE DEF r
<1>6. OfSocket(r, def, stray) /\ Shows(r, news, def) /\ r.scroll = newpos  BY <1>4, <1>5
<1>7. EndsRight(grid, Append(wire, m), news, def, newpos, stray)
  BY <1>1, <1>2, <1>6, Lengthen DEF g, r
<1>. QED BY <1>1, <1>7

\* Output of the program keeps the invariant.
LEMMA PrintsHolds ==
    ASSUME GridInv, NEW n \in 0 .. screen.h + 1, NEW x \in 0 .. screen.w - 1, NEW y \in 0 .. screen.h - 1,
           NEW c \in Cell, Prints(n, x, y, c)
    PROVE  GridInv'
<1>. DEFINE after == Put(Scrolled(screen, n), y, x, c)
            i == y * screen.w + x
            m == Diff(n, OneCell(i, c), scroll')
<1>1. IsScreen(screen) /\ def \in Default  BY TheScreens DEF GridInv, Typed
<1>2. n \in Nat /\ scroll' \in Position
  <2>1. screen.h \in Nat  BY <1>1 DEF IsScreen
  <2>. QED BY <2>1 DEF Prints, Position
<1>3. screen' = after /\ Sends(m) /\ UNCHANGED <<def, strayed, grid, painted>>
  BY Zenon DEF Prints, OneCell, Put
<1>4. m.t = "diff"  BY DEF Diff
<1>. HIDE DEF after
<1>5. IsScreen(after) /\ m \in Diffs
  BY <1>1, <1>2, PrintMade DEF after
<1>6. ASSUME NEW g, IsGrid(g), Shows(g, screen, def)
      PROVE  /\ IsGrid(Applied(g, m)) /\ Shows(Applied(g, m), after, def)
             /\ Applied(g, m).scroll = scroll' /\ Applied(g, m).dropped = g.dropped
  <2>1. Applied(g, m) = ApplyDiff(g, m)  BY <1>4 DEF Applied
  <2>. DEFINE r == Applied(g, m)
  <2>. HIDE DEF r, m
  <2>. QED BY <1>1, <1>2, <1>6, <2>1, PrintShown DEF after, m, r
<1>. HIDE DEF m
<1>7. /\ wire' \in Seq(Frames \cup Diffs)
      /\ EndsRight(grid, wire', after, def, scroll', strayed)
  BY <1>3, <1>5, <1>6, Sent
<1>8. Typed'
  <2>1. screen' \in AllScreens  BY <1>3, <1>5, TheScreens
  <2>. QED BY <1>2, <1>3, <1>7, <2>1 DEF Typed, GridInv
<1>9. CleanRowsArePainted'  BY <1>3 DEF GridInv, CleanRowsArePainted
<1>10. EndsRight(grid, wire, screen, def, scroll, strayed)'  BY <1>3, <1>7
<1>. QED BY <1>8, <1>9, <1>10 DEF GridInv

\* So does a resize or a redraw.
LEMMA RedrawsHolds ==
    ASSUME GridInv, NEW sz \in Sizes, NEW c \in Cell, Redraws(sz, c)
    PROVE  GridInv'
<1>. DEFINE next == Screens(sz, c)
            m == Frame(next, def, scroll)
<1>1. def \in Default /\ scroll \in Position  BY DEF GridInv, Typed
<1>2. screen' = next /\ Sends(m) /\ UNCHANGED <<def, scroll, strayed, grid, painted>>
  BY Zenon DEF Redraws
<1>3. next \in AllScreens /\ IsScreen(next)  BY PlainScreen
<1>. HIDE DEF next
<1>4. m \in Frames  BY <1>1, <1>3 DEF Frames
<1>5. m.t = "frame"  BY DEF Frame
<1>6. ASSUME NEW g, IsGrid(g)
      PROVE  /\ IsGrid(Applied(g, m)) /\ Shows(Applied(g, m), next, def)
             /\ Applied(g, m).scroll = scroll /\ Applied(g, m).dropped = g.dropped
  <2>. DEFINE r == Applied(g, m)
  <2>1. r = ApplyFrame(g, m)  BY <1>5 DEF Applied
  <2>2. m = Frame(next, def, scroll)  OBVIOUS
  <2>. HIDE DEF r, m
  <2>3. FrameDone(r, g, next, def, scroll)  BY <1>1, <1>3, <1>6, <2>1, <2>2, FrameApplied
  <2>. QED BY <2>3 DEF FrameDone, r
<1>. HIDE DEF m
<1>7. /\ wire' \in Seq(Frames \cup Diffs)
      /\ EndsRight(grid, wire', next, def, scroll, strayed)
  BY <1>2, <1>4, <1>6, Sent
<1>8. Typed'  BY <1>1, <1>2, <1>3, <1>7 DEF Typed, GridInv
<1>9. CleanRowsArePainted'  BY <1>2 DEF GridInv, CleanRowsArePainted
<1>10. EndsRight(grid, wire, screen, def, scroll, strayed)'  BY <1>2, <1>7
<1>. QED BY <1>8, <1>9, <1>10 DEF GridInv

\* So does a diff with a cell the screen does not have.
LEMMA StraysHolds ==
    ASSUME GridInv, Strays
    PROVE  GridInv'
<1>. DEFINE i == screen.w * screen.h
<1>1. IsScreen(screen) /\ def \in Default /\ scroll \in Position  BY TheScreens DEF GridInv, Typed
<1>2. PICK c \in Cell : Sends(Diff(0, OneCell(i, c), scroll))  BY Zenon DEF Strays, OneCell
<1>3. strayed' = TRUE /\ UNCHANGED <<screen, def, scroll, grid, painted>>  BY DEF Strays
<1>. DEFINE m == Diff(0, OneCell(i, c), scroll)
<1>4. i \in Nat
  <2>1. screen.w \in Nat /\ screen.h \in Nat  BY <1>1 DEF IsScreen
  <2>. QED BY <2>1, SMT
<1>5. m.t = "diff"  BY DEF Diff
<1>6. m = Diff(0, OneCell(i, c), scroll) /\ Sends(m)  BY <1>2
<1>. HIDE DEF i, m
<1>7. m \in Diffs  BY <1>1, <1>4, <1>6 DEF Diffs
<1>8. ASSUME NEW g, IsGrid(g), Shows(g, screen, def)
      PROVE  /\ IsGrid(Applied(g, m)) /\ Shows(Applied(g, m), screen, def)
             /\ Applied(g, m).scroll = scroll
  <2>. DEFINE r == Applied(g, m)
  <2>1. r = ApplyDiff(g, m) /\ g.full  BY <1>5, <1>8 DEF Applied, Shows
  <2>. HIDE DEF r
  <2>2. DiffDone(r, g, 0, i, c, scroll)  BY <1>1, <1>4, <1>6, <1>8, <2>1, DiffApplied
  <2>3. g.w = screen.w /\ g.h = screen.h /\ g.def = def
        /\ \A y \in 0 .. screen.h - 1, x \in 0 .. screen.w - 1 : At(g, y, x) = Resolve(screen.at[y][x], def)
    BY <1>8 DEF Shows, At
  <2>4. SameShape(r, g) /\ r.scroll = scroll  BY <2>2 DEF DiffDone
  <2>5. r.w = screen.w /\ r.h = screen.h /\ r.def = def /\ r.full /\ IsGrid(r)
    BY <2>1, <2>3, <2>4 DEF SameShape
  <2>6. ASSUME NEW y \in 0 .. screen.h - 1, NEW x \in 0 .. screen.w - 1
        PROVE  At(r, y, x) = At(g, y, x)
    <3>0. screen.w \in Nat /\ screen.h \in Nat  BY <1>1 DEF IsScreen
    <3>1. y * screen.w + x # i
      <4>1. y * screen.w + x \in 0 .. screen.w * screen.h - 1  BY <3>0, InTheGrid
      <4>. QED BY <1>4, <4>1 DEF i
    <3>2. y + 0 = y /\ y + 0 < g.h  BY <2>3, <3>0
    <3>3. At(r, y, x) = IF i = y * g.w + x THEN Resolve(c, g.def)
                        ELSE IF y + 0 < g.h THEN At(g, y + 0, x)
                        ELSE [fg |-> g.def, glyph |-> " "]
      BY <2>2, <2>3 DEF DiffDone
    <3>. QED BY <2>3, <3>1, <3>2, <3>3
  <2>7. Shows(r, screen, def)  BY <2>3, <2>5, <2>6 DEF Shows, At
  <2>. QED BY <2>4, <2>5, <2>7 DEF r
<1>9. /\ wire' \in Seq(Frames \cup Diffs)
      /\ EndsRight(grid, wire', screen, def, scroll, TRUE)
  BY <1>6, <1>7, <1>8, Sent
<1>10. Typed'  BY <1>3, <1>9 DEF Typed, GridInv
<1>11. CleanRowsArePainted'  BY <1>3 DEF GridInv, CleanRowsArePainted
<1>12. EndsRight(grid, wire, screen, def, scroll, strayed)'  BY <1>3, <1>9
<1>. QED BY <1>10, <1>11, <1>12 DEF GridInv

\* Two messages one after the other.
LEMMA TwoMessages ==
    ASSUME NEW a, NEW b
    PROVE  <<a>> \o <<b>> = <<a, b>>
<1>. DEFINE S == {a, b}
            u == <<a>> \o <<b>>
            v == <<a, b>>
<1>1. <<a>> \in Seq(S) /\ <<b>> \in Seq(S) /\ Len(<<a>>) = 1 /\ Len(<<b>>) = 1  OBVIOUS
<1>2. u \in Seq(S) /\ Len(u) = 2 /\ u[1] = a /\ u[2] = b  BY <1>1
<1>3. v \in Seq(S) /\ Len(v) = 2 /\ v[1] = a /\ v[2] = b  OBVIOUS
<1>. HIDE DEF u, v, S
<1>4. u = [k \in 1 .. 2 |-> u[k]]  BY <1>2
<1>5. v = [k \in 1 .. 2 |-> v[k]]  BY <1>3
<1>6. \A k \in 1 .. 2 : u[k] = v[k]
  <2>1. \A k \in 1 .. 2 : k = 1 \/ k = 2  OBVIOUS
  <2>. QED BY <1>2, <1>3, <2>1
<1>7. [k \in 1 .. 2 |-> u[k]] = [k \in 1 .. 2 |-> v[k]]  BY <1>6
<1>8. u = v  BY <1>4, <1>5, <1>7
<1>. QED BY <1>8 DEF u, v

\* A new socket keeps the invariant: its forecast starts from no grid.
LEMMA NewSocketHolds ==
    ASSUME GridInv, NEW d \in Default, NEW early \in BOOLEAN, NewSocket(d, early)
    PROVE  GridInv'
<1>. DEFINE f == Frame(screen, d, scroll)
<1>1. IsScreen(screen) /\ screen \in AllScreens /\ scroll \in Position  BY TheScreens DEF GridInv, Typed
<1>2. /\ def' = d /\ grid' = NewPaneGrid /\ strayed' = early /\ painted' = NewPaneGrid.cells
      /\ UNCHANGED <<screen, scroll>>
  BY DEF NewSocket, ResetForNewSocket
<1>3. PICK c \in Cell :
         wire' = (IF early THEN <<Diff(0, OneCell(0, c), scroll)>> ELSE <<>>) \o <<f>>
  BY Zenon DEF NewSocket, OneCell
<1>. DEFINE m == Diff(0, OneCell(0, c), scroll)
<1>4. f \in Frames /\ m \in Diffs  BY <1>1 DEF Frames, Diffs
<1>5. wire' \in Seq(Frames \cup Diffs) /\ EndsRight(NewPaneGrid, wire', screen, d, scroll, early)
  <2>1. CASE early
    <3>. HIDE DEF f, m
    <3>1. wire' = <<m>> \o <<f>>  BY <1>3, <2>1 DEF m
    <3>2. wire' = <<m, f>>  BY <3>1, TwoMessages
    <3>3. <<m, f>> \in Seq(Frames \cup Diffs)  BY <1>4
    <3>4. EndsRight(NewPaneGrid, <<m, f>>, screen, d, scroll, TRUE)  BY <1>1, <1>4, DiffFirst DEF f
    <3>5. early = TRUE  BY <2>1
    <3>. QED BY <3>2, <3>3, <3>4, <3>5
  <2>2. CASE ~early
    <3>1. wire' = <<f>>  BY <1>3, <2>2
    <3>2. <<f>> \in Seq(Frames \cup Diffs)  BY <1>4
    <3>3. EndsRight(NewPaneGrid, <<f>>, screen, d, scroll, early)  BY <1>1, FrameFirst
    <3>. QED BY <3>1, <3>2, <3>3
  <2>. QED BY <2>1, <2>2
<1>. HIDE DEF f, m
<1>6. Typed'  BY <1>1, <1>2, <1>5, NewGrid DEF Typed
<1>7. CleanRowsArePainted'  BY <1>2, NothingPainted DEF CleanRowsArePainted
<1>8. EndsRight(grid, wire, screen, def, scroll, strayed)'  BY <1>2, <1>5
<1>. QED BY <1>6, <1>7, <1>8 DEF GridInv

\* Session.Apply keeps it.
LEMMA ApplyHolds ==
    ASSUME GridInv, Apply
    PROVE  GridInv'
<1>. DEFINE m == Head(wire)
            r == Applied(grid, m)
<1>1. /\ wire # <<>> /\ wire' = Tail(wire) /\ grid' = r
      /\ UNCHANGED <<screen, def, scroll, strayed, painted>>
  BY Zenon DEF Apply, Applied
<1>2. wire \in Seq(Frames \cup Diffs) /\ IsGrid(grid)  BY DEF GridInv, Typed
<1>3. m \in Frames \cup Diffs /\ wire' \in Seq(Frames \cup Diffs)  BY <1>1, <1>2
<1>4. EndsRight(grid, wire, screen, def, scroll, strayed)  BY DEF GridInv
<1>5. OfSocket(r, def, strayed) /\ EndsRight(r, Tail(wire), screen, def, scroll, strayed)
  BY <1>1, <1>2, <1>4, Shorten
<1>. HIDE DEF m
<1>6. \/ MarksWhatChanged(r, grid) /\ r.w = grid.w /\ r.h = grid.h
      \/ \A y \in 0 .. r.h - 1 : r.dirty[y]
  <2>1. CASE m \in Frames
    <3>1. PICK s \in AllScreens, d \in Default, pos \in Position : m = Frame(s, d, pos)
      BY <2>1 DEF Frames
    <3>2. r = ApplyFrame(grid, m)  BY <2>1, MessageKinds DEF Applied
    <3>. HIDE DEF r
    <3>3. FrameDone(r, grid, s, d, pos)  BY <1>2, <3>1, <3>2, TheScreens, FrameApplied
    <3>. QED BY <3>3 DEF FrameDone
  <2>2. CASE m \in Diffs
    <3>1. PICK n \in Nat, i \in Nat, p \in Cell, pos \in Position : m = Diff(n, OneCell(i, p), pos)
      BY <2>2 DEF Diffs
    <3>2. r = ApplyDiff(grid, m)  BY <2>2, MessageKinds DEF Applied
    <3>3. CASE grid.full
      <4>. HIDE DEF r
      <4>1. DiffDone(r, grid, n, i, p, pos)  BY <1>2, <3>1, <3>2, <3>3, DiffApplied
      <4>. QED BY <4>1 DEF DiffDone, SameShape
    <3>4. CASE ~grid.full
      <4>1. SameShape(ApplyDiff(grid, m), grid) /\ MarksWhatChanged(ApplyDiff(grid, m), grid)
        BY <1>2, <2>2, <3>4, NoGridYet
      <4>. HIDE DEF r
      <4>. QED BY <3>2, <4>1 DEF SameShape
    <3>. QED BY <3>3, <3>4
  <2>. QED BY <1>3, <2>1, <2>2
<1>. HIDE DEF r
<1>7. IsGrid(r)  BY <1>5 DEF OfSocket
<1>8. CleanRowsArePainted'
  <2>1. SUFFICES ASSUME NEW y \in DOMAIN r.dirty, ~r.dirty[y], NEW x \in 0 .. r.w - 1
                 PROVE  painted[y * r.w + x] = r.cells[y * r.w + x]
    BY <1>1 DEF CleanRowsArePainted
  <2>2. y \in 0 .. r.h - 1  BY <1>7 DEF IsGrid, Canvas
  <2>3. MarksWhatChanged(r, grid) /\ r.w = grid.w /\ r.h = grid.h  BY <1>6, <2>1, <2>2
  <2>4. ~grid.dirty[y] /\ At(r, y, x) = At(grid, y, x)  BY <2>1, <2>2, <2>3 DEF MarksWhatChanged
  <2>5. y \in DOMAIN grid.dirty  BY <1>2, <2>2, <2>3 DEF IsGrid, Canvas
  <2>6. painted[y * grid.w + x] = grid.cells[y * grid.w + x]
    BY <2>1, <2>3, <2>4, <2>5 DEF GridInv, CleanRowsArePainted
  <2>. QED BY <2>3, <2>4, <2>6 DEF At
<1>9. Typed'  BY <1>1, <1>3, <1>7 DEF GridInv, Typed
<1>10. EndsRight(grid, wire, screen, def, scroll, strayed)'  BY <1>1, <1>5
<1>. QED BY <1>8, <1>9, <1>10 DEF GridInv

\* A painted screen keeps it: the forecast does not depend on the marks.
LEMMA PaintHolds ==
    ASSUME GridInv, Paint
    PROVE  GridInv'
<1>. DEFINE marks == [y \in DOMAIN grid.dirty |-> FALSE]
            r == [grid EXCEPT !.dirty = marks]
<1>1. grid' = r /\ painted' = grid.cells /\ UNCHANGED <<screen, def, scroll, wire, strayed>>
  BY Zenon DEF Paint
<1>2. IsGrid(grid) /\ grid \in Canvas(grid.w, grid.h)  BY DEF GridInv, Typed, IsGrid
<1>3. marks \in [0 .. grid.h - 1 -> BOOLEAN]  BY <1>2 DEF Canvas
<1>. HIDE DEF marks
<1>4. r.cells = grid.cells /\ r.w = grid.w /\ r.h = grid.h /\ r.def = grid.def
  BY <1>2 DEF Canvas
<1>5. r.full = grid.full  BY <1>2 DEF Canvas
<1>6. r.dropped = grid.dropped  BY <1>2 DEF Canvas
<1>7. r.scroll = grid.scroll  BY <1>2 DEF Canvas
<1>8. r \in Canvas(grid.w, grid.h)  BY <1>2, <1>3 DEF Canvas
<1>. HIDE DEF r
<1>9. IsGrid(r)  BY <1>2, <1>4, <1>5, <1>8 DEF IsGrid
<1>10. Alike(r, grid)  BY <1>4, <1>5, <1>6, <1>7 DEF Alike
<1>11. EndsRight(r, wire, screen, def, scroll, strayed)
  <2>1. PICK hist : Foretells(hist, grid, wire, screen, def, scroll, strayed)
    BY DEF GridInv, EndsRight
  <2>2. Alike(hist[1], r)  BY <1>10, <2>1 DEF Foretells, Alike
  <2>3. Foretells(hist, r, wire, screen, def, scroll, strayed)  BY <2>1, <2>2 DEF Foretells
  <2>. QED BY <2>3 DEF EndsRight
<1>12. CleanRowsArePainted'  BY <1>1, <1>4 DEF CleanRowsArePainted
<1>13. Typed'  BY <1>1, <1>9 DEF GridInv, Typed
<1>14. EndsRight(grid, wire, screen, def, scroll, strayed)'  BY <1>1, <1>11
<1>. QED BY <1>12, <1>13, <1>14 DEF GridInv

-----------------------------------------------------------------------------
(* The theorems.                                                           *)

\* The inductive invariant of the grid holds in every reachable state.
THEOREM GridInvariant == Spec => []GridInv
<1>1. GridInv /\ [Next]_vars => GridInv'
  <2>. SUFFICES ASSUME GridInv, [Next]_vars PROVE GridInv'  OBVIOUS
  <2>1. CASE UNCHANGED vars
    BY <2>1 DEF vars, GridInv, Typed, CleanRowsArePainted
  <2>2. CASE \E n \in 0 .. screen.h + 1, x \in 0 .. screen.w - 1, y \in 0 .. screen.h - 1, c \in Cell :
                Prints(n, x, y, c)
    BY <2>2, PrintsHolds
  <2>3. CASE \E sz \in Sizes, c \in Cell : Redraws(sz, c)  BY <2>3, RedrawsHolds
  <2>4. CASE Strays  BY <2>4, StraysHolds
  <2>5. CASE \E d \in Default, early \in BOOLEAN : NewSocket(d, early)  BY <2>5, NewSocketHolds
  <2>6. CASE Apply  BY <2>6, ApplyHolds
  <2>7. CASE Paint  BY <2>7, PaintHolds
  <2>. QED BY <2>1, <2>2, <2>3, <2>4, <2>5, <2>6, <2>7 DEF Next
<1>. QED BY InitHolds, <1>1, PTL DEF Spec

\* TypeOK: PaneGrid has a cell for each index and a mark for each row, and every
\* colour in it is resolved.
THEOREM TypeCorrect == Spec => []TypeOK
<1>1. GridInv => TypeOK
  <2>. SUFFICES ASSUME GridInv PROVE TypeOK  OBVIOUS
  <2>1. grid \in Canvas(grid.w, grid.h)  BY DEF GridInv, Typed, IsGrid
  <2>. QED BY <2>1 DEF TypeOK, Canvas, Position, Pixel
<1>. QED BY <1>1, GridInvariant, PTL

\* CleanRowsArePainted: a row that ClearDirty cleared and nothing marked since
\* reads as it was painted, so repainting the dirty rows is enough.
THEOREM CleanRows == Spec => []CleanRowsArePainted
<1>1. GridInv => CleanRowsArePainted  BY DEF GridInv
<1>. QED BY <1>1, GridInvariant, PTL

\* Mirrors: once the messages in flight are applied the grid of a pane is the
\* server's screen in this connection's colours, whatever shifts, resizes and
\* reconnects came before; it holds no earlier socket's cells and drops none
\* that has a place.
THEOREM MirrorsTheScreen == Spec => []Mirrors
<1>1. GridInv => Mirrors
  <2>. SUFFICES ASSUME GridInv PROVE Mirrors  OBVIOUS
  <2>1. PICK hist : Foretells(hist, grid, wire, screen, def, scroll, strayed)
    BY DEF GridInv, EndsRight
  <2>2. Len(wire) \in Nat  BY DEF GridInv, Typed
  <2>3. OfSocket(grid, def, strayed)
    <3>1. 1 \in 1 .. Len(wire) + 1  BY <2>2
    <3>2. OfSocket(hist[1], def, strayed) /\ Alike(hist[1], grid)  BY <2>1, <3>1 DEF Foretells
    <3>. QED BY <3>2 DEF OfSocket, Alike, GridInv, Typed
  <2>4. wire = <<>> => Shows(grid, screen, def) /\ grid.scroll = scroll
    <3>1. wire = <<>> => Len(wire) + 1 = 1  OBVIOUS
    <3>2. Alike(hist[1], grid)  BY <2>1 DEF Foretells
    <3>3. wire = <<>> => Shows(hist[1], screen, def) /\ hist[1].scroll = scroll
      BY <2>1, <3>1 DEF Foretells
    <3>. QED BY <3>2, <3>3 DEF Alike, Shows
  <2>. QED BY <2>3, <2>4 DEF Mirrors, OfThisSocket, NothingDropped, OfSocket
<1>. QED BY <1>1, GridInvariant, PTL
=============================================================================
