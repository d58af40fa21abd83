------------------------------ MODULE Console ------------------------------
(***************************************************************************)
(* The console of src/display/PotableGrayMap.c: the cursor and the frame   *)
(* buffer, in character cells.  WriteLine runs with interrupts off and     *)
(* touches nothing else, so a string is as good as its characters one      *)
(* after the other: an action is one turn of its loop.  What a glyph looks *)
(* like is left out; a cell holds the character drawn in it.               *)
(***************************************************************************)
EXTENDS Integers

CONSTANTS
  Max_Row, Max_Column,  \* the size of the screen, in cells
  TabWidth,             \* 8
  Visible,              \* the characters that are drawn
  Blank                 \* the space; its glyph is as dark as a cleared cell

ASSUME ConsoleAssumption ==
  /\ Max_Row \in Nat \ {0}
  /\ Max_Column \in Nat \ {0}
  /\ TabWidth \in 1 .. Max_Column
  /\ Max_Column + TabWidth < 256 /\ Max_Row < 255  \* row and column are uint8_t
  /\ Blank \in Visible
  /\ Visible \cap {"\n", "\r", "\t"} = {}

NewLines == {"\n", "\r"}
Characters == Visible \cup NewLines \cup {"\t"}

Cells == (0 .. Max_Row - 1) \X (0 .. Max_Column - 1)

VARIABLES
  row, column,  \* the cursor; column may be Max_Column, behind the last cell
  frame_buffer, \* the character in each cell
  temp          \* the last character written

consoleVars == <<row, column, frame_buffer, temp>>

\* DisplayInit, with FrameBufferClear.
DisplayInit ==
  /\ row = 0
  /\ column = 0
  /\ frame_buffer = [cell \in Cells |-> Blank]
  /\ temp = "\n"
-----------------------------------------------------------------------------
\* The switch: where the cursor stands before anything is checked.
NextStop(c) == ((c + TabWidth) \div TabWidth) * TabWidth

ColumnAfter(ch) ==
  CASE ch \in NewLines -> 0
    [] ch = "\t"       -> NextStop(column)
    [] OTHER           -> column

RowAfter(ch) == IF ch \in NewLines THEN row + 1 ELSE row

\* The two checks behind the switch, the column's before the row's.
Wraps(c) == c >= Max_Column

Scrolls(r) == r >= Max_Row

\* Scroll_Screen(SCROLL_UP_ROW_NUM): every row but the last takes the next
\* one's cells, and the last is cleared.
LastRowKeptM(screen) ==
  [cell \in Cells |->
     IF cell[1] < Max_Row - 1 THEN screen[<<cell[1] + 1, cell[2]>>] ELSE screen[cell]]
Scroll_Screen(screen) ==
  [cell \in Cells |->
     IF cell[1] < Max_Row - 1 THEN screen[<<cell[1] + 1, cell[2]>>] ELSE Blank]

\* WriteChar computes an address from any row and column: a cell that is not
\* on the screen would be written as well.
WriteChar(screen, r, c, ch) ==
  [cell \in DOMAIN screen \cup {<<r, c>>} |->
     IF cell = <<r, c>> THEN ch ELSE screen[cell]]

WriteLine(ch) ==
  LET c0 == ColumnAfter(ch)
      c  == IF Wraps(c0) THEN c0 - Max_Column ELSE c0
      r0 == IF Wraps(c0) THEN RowAfter(ch) + 1 ELSE RowAfter(ch)
      r  == IF Scrolls(r0) THEN r0 - 1 ELSE r0
      screen == IF Scrolls(r0) THEN Scroll_Screen(frame_buffer) ELSE frame_buffer
  IN /\ temp' = ch
     /\ row' = r
     /\ column' = IF ch \in Visible THEN c + 1 ELSE c
     /\ frame_buffer' = IF ch \in Visible THEN WriteChar(screen, r, c, ch) ELSE screen

PrintNext == \E ch \in Characters : WriteLine(ch)

ConsoleSpec == DisplayInit /\ [][PrintNext]_consoleVars
-----------------------------------------------------------------------------
(***************************************************************************)
(* Properties.  LastRowKeptM is a mistaken form of Scroll_Screen.          *)
(***************************************************************************)

\* Nothing is drawn outside the frame buffer, though the cursor may stand one
\* cell behind the end of a row, and wrapping, a tab and a newline meet at the
\* right edge of the bottom row.
ScreenOK ==
  /\ row \in 0 .. Max_Row - 1
  /\ column \in 0 .. Max_Column
  /\ frame_buffer \in [Cells -> Visible]
  /\ temp \in Characters

\* The lines down to row r.
Line(screen, r) == [c \in 0 .. Max_Column - 1 |-> screen[<<r, c>>]]
Shown(screen, r) == [i \in 1 .. r + 1 |-> Line(screen, i - 1)]

\* The screen is a window on the end of what has been printed: whatever the mix
\* of text, tabs and newlines, no line is lost, split, doubled or mixed with
\* what stood on the screen before.
Roll == INSTANCE Paper WITH
  Rows <- Max_Row, Columns <- Max_Column, at <- column, char <- temp,
  lines <- Shown(frame_buffer, row)

ImplementsPaper == Roll!Spec
=============================================================================
