------------------------------ MODULE Terminal ------------------------------
(* graphics/terminal.c as functions of its state: the cursor, the glyphs on  *)
(* the screen and the underlines terminal_cursor_draw left there.            *)
(*                                                                           *)
(* Lengths are in units of 8 pixels.  A character is one unit wide and two   *)
(* high, so a text row is named by the unit it starts at; rows start at 1,   *)
(* 3, 5, ... until the first scroll, which puts the cursor at Height - 2 and  *)
(* so leaves a gap of one or two units below the row before.                 *)
(* A row that has left the screen by a unit counts as gone.                  *)
EXTENDS Integers, Sequences

CONSTANTS
    Width,    \* fbi->width / 8
    Height    \* fbi->height / 8

NL == "newline"
BS == "backspace"
Blank == " "

Columns == 1 .. Width - 2
Rows == 0 .. Height - 1

BlankRow == [c \in Columns |-> Blank]

\* terminal_init, and the screen as the boot loader left it.  Two fields are
\* ghosts: text is the rows the text from some point on has taken, in order, and
\* from the column it starts at, or Gone when its first row has left the screen.
TerminalOff ==
    [x |-> 1, y |-> 1, screen |-> [r \in Rows |-> BlankRow], marks |-> {},
     text |-> <<1>>, from |-> 1]

Gone == 0

At(t) == <<t.x, t.y>>

\* chr: a glyph covers its whole cell, an underline included.
Drawn(t, c) ==
    [t EXCEPT !.screen[t.y][t.x] = c, !.marks = @ \ {At(t)}]

\* A scroll takes the first row of the text off the screen.
Leaves(t) == t.text[1] < 2

\* scroll: everything moves up by a row, and the cursor goes to the last one.
Scrolled(t) ==
    LET kept == IF Leaves(t) THEN Tail(t.text) ELSE t.text
    IN  [t EXCEPT !.y = Height - 2,
                  !.screen = [r \in Rows |-> IF r + 2 \in Rows THEN t.screen[r + 2] ELSE BlankRow],
                  !.marks = {<<m[1], m[2] - 2>> : m \in {k \in @ : k[2] >= 2}},
                  !.text = [k \in DOMAIN kept |-> kept[k] - 2],
                  !.from = IF Leaves(t) THEN Gone ELSE @]

\* A new line, at the left edge.
NewRow(t) ==
    LET u == [t EXCEPT !.x = 1, !.y = @ + 2]
        v == IF u.y >= Height - 2 THEN Scrolled(u) ELSE u
    IN  [v EXCEPT !.text = Append(@, v.y)]

\* A backspace stops at the left edge: it never goes back to the row above.
Backed(t) ==
    IF t.x >= 2 THEN Drawn([t EXCEPT !.x = @ - 1], Blank) ELSE t

Typed(t, c) ==
    LET u == [Drawn(t, c) EXCEPT !.x = @ + 1]
    IN  IF u.x >= Width - 1 THEN NewRow(u) ELSE u

\* terminal_putchar.
Putchar(t, c) ==
    IF c = NL THEN NewRow(t) ELSE IF c = BS THEN Backed(t) ELSE Typed(t, c)

\* terminal_print.
Printed(t, s) ==
    LET after[i \in 0 .. Len(s)] == IF i = 0 THEN t ELSE Putchar(after[i - 1], s[i])
    IN  after[Len(s)]

\* terminal_clear; the text on the screen is gone.
Cleared == TerminalOff

\* terminal_cursor_draw: the two pixel rows under the cell, in the colour of
\* the text or of the background.
CursorDrawn(t, visible) ==
    [t EXCEPT !.marks = IF visible THEN @ \cup {At(t)} ELSE @ \ {At(t)}]

\* From here on the text counts.
Anchored(t) == [t EXCEPT !.text = <<t.y>>, !.from = t.x]

\* The number of the character of the text that stands in column c of its k-th row.
Place(t, k, c) == (k - 1) * (Width - 2) + c - t.from + 1

\* What stands on the screen from the anchor to the cursor, in reading order, is
\* s: as long as the rows and columns in between have it, and cell by cell.
Shows(t, s) ==
    /\ Len(s) = Place(t, Len(t.text), t.x) - 1
    /\ \A k \in DOMAIN t.text, c \in Columns :
          Place(t, k, c) \in DOMAIN s => t.screen[t.text[k]][c] = s[Place(t, k, c)]
=============================================================================
