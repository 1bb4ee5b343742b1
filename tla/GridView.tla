------------------------------ MODULE GridView ------------------------------
(***************************************************************************)
(* From the cells of a terminal row to the runs the pane screen draws      *)
(* (src/app/gridview.go): adjacent cells of one look become one run, a     *)
(* reversed cell swaps its colours, a default colour is left to be         *)
(* inherited, and the blank end of a row is dropped.  One row: the code    *)
(* does each on its own.  Module Grid keeps the cells.                     *)
(***************************************************************************)
EXTENDS Naturals, Sequences, SequencesExt, FiniteSetsExt

CONSTANTS Glyph, Color,             \* what a cell may hold and be drawn in
          DefFg, DefBg, Inherit     \* the frame's default colours, and ""

ASSUME ColorAssumption == DefFg \in Color /\ DefBg \in Color /\ Inherit \notin Color

VARIABLE cells      \* one row: [glyph, fg, bg, attr], attr a set of modifiers

Modifier == {"bold", "dim", "italic", "underline", "strike", "reversed", "blink", "hidden"}

\* " " is a blank, "W" a glyph two columns wide, "" the column behind it.
Cell(G, F, B, M) == [glyph : G, fg : F, bg : B, attr : M]
WellFormed(row) ==
    /\ row \in Seq(Cell(Glyph, Color, Color, SUBSET Modifier))
    /\ \A k \in 1..Len(row) : row[k].glyph = "" <=> (k > 1 /\ row[k - 1].glyph = "W")

-----------------------------------------------------------------------------
(* gridRows.                                                               *)

ColorOrInherit(c, default) == IF c = default THEN Inherit ELSE c

\* gridAttr: what else a terminal can ask for has no form here and is dropped.
GridAttr(m) == m \cap {"bold", "dim", "italic", "underline", "strike"}

\* SwapsAfter, a mutant, swaps what is inherited.
SwapsAfter(c) ==
    LET rev == "reversed" \in c.attr
        f == ColorOrInherit(c.fg, DefFg)
        b == ColorOrInherit(c.bg, DefBg)
    IN  [fg |-> IF rev THEN b ELSE f, bg |-> IF rev THEN f ELSE b, attr |-> GridAttr(c.attr)]

\* The look of a cell.  The colours are swapped after the defaults have been
\* put in, so a reversed cell of default colours still shows.
Look(c) ==
    LET rev == "reversed" \in c.attr
    IN  [fg |-> ColorOrInherit(IF rev THEN c.bg ELSE c.fg, DefFg),
         bg |-> ColorOrInherit(IF rev THEN c.fg ELSE c.bg, DefBg),
         attr |-> GridAttr(c.attr)]

\* A run: a look and the glyphs drawn in it.  The empty glyph adds no text.
Extends(runs, c) ==
    LET text == IF c.glyph = "" THEN <<>> ELSE <<c.glyph>>
    IN  IF runs # <<>> /\ Last(runs).look = Look(c)
        THEN Front(runs) \o <<[look |-> Look(c), text |-> Last(runs).text \o text]>>
        ELSE Append(runs, [look |-> Look(c), text |-> text])

Runs(row) == FoldLeft(Extends, <<>>, row)

\* trimTrailingBlank: from the end, runs that draw nothing, then the blanks of
\* the last one that does.
Shows(run)  == run.look.bg # Inherit \/ run.look.attr \cap {"underline", "strike"} # {}
Inked(text) == {k \in 1..Len(text) : text[k] # " "}

TrimTrailingBlank(runs) ==
    LET kept == {k \in 1..Len(runs) : Shows(runs[k]) \/ Inked(runs[k].text) # {}}
        row  == SubSeq(runs, 1, IF kept = {} THEN 0 ELSE Max(kept))
    IN  IF row = <<>> \/ Shows(Last(row)) THEN row
        ELSE Append(Front(row),
                    [Last(row) EXCEPT !.text = SubSeq(@, 1, Max(Inked(@)))])

GridRow(row) == TrimTrailingBlank(Runs(row))

-----------------------------------------------------------------------------
(* What is seen.                                                           *)

\* A glyph in its colours.  A blank has no foreground, and none of the
\* modifiers draws on it but the two lines.
Ink(glyph, fg, bg, attr) ==
    LET lines == attr \cap {"underline", "strike"}
    IN  IF glyph = " " THEN [glyph |-> " ", bg |-> bg, attr |-> lines,
                             fg |-> IF lines = {} THEN Inherit ELSE fg]
        ELSE [glyph |-> glyph, bg |-> bg, attr |-> attr, fg |-> fg]

\* What a run draws: "" is the grid's own colour.
RunInks(run) ==
    LET Resolve(c, default) == IF c = Inherit THEN default ELSE c
    IN  [j \in 1..Len(run.text) |->
            Ink(run.text[j], Resolve(run.look.fg, DefFg), Resolve(run.look.bg, DefBg), run.look.attr)]

Inks(runs) == FlattenSeq([k \in 1..Len(runs) |-> RunInks(runs[k])])

\* The runs laid out left to right in a grid of the frame's default colours, and
\* after the last of them blanks.
Painted(runs, n) ==
    [k \in 1..n |-> IF k <= Len(Inks(runs)) THEN Inks(runs)[k] ELSE Ink(" ", DefFg, DefBg, {})]

\* A cell by itself: the glyph in its own two colours, the other way round when
\* it is reversed.  Blinking and hidden text is drawn as any other.
Resolved(c) ==
    LET rev == "reversed" \in c.attr
    IN  Ink(c.glyph, IF rev THEN c.bg ELSE c.fg, IF rev THEN c.fg ELSE c.bg,
            c.attr \ {"reversed", "blink", "hidden"})

\* The cells that have a glyph.
GlyphCells(row) ==
    FlattenSeq([k \in 1..Len(row) |-> IF row[k].glyph = "" THEN <<>> ELSE <<row[k]>>])

\* Drawing the runs is drawing the cells: the row that leaves the phone's Go
\* side shows every glyph in the colours and modifiers of its cell, whatever was
\* joined, inherited, swapped or dropped, and no two neighbouring runs could
\* have been one.
PaintsTheCells ==
    cells # <<>> =>
    LET glyphs == GlyphCells(cells)
        runs   == GridRow(cells)
    IN  /\ Painted(runs, Len(glyphs)) = [k \in 1..Len(glyphs) |-> Resolved(glyphs[k])]
        /\ \A k \in 1..(Len(runs) - 1) : runs[k].look # runs[k + 1].look
=============================================================================
