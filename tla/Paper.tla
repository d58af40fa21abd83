------------------------------- MODULE Paper -------------------------------
(***************************************************************************)
(* What a console promises: it types like a printer on a roll of paper, of *)
(* which the last Rows lines can be seen.  A full line is left only when   *)
(* something more is to be typed; a tab that reaches the margin goes on    *)
(* from the start of the next line.                                        *)
(***************************************************************************)
EXTENDS Integers, Sequences

CONSTANTS Rows, Columns, TabWidth, Visible, Blank

VARIABLES
  lines,  \* the lines that can be seen, the one being typed last
  at,     \* where on it the next character goes; Columns when it is full
  char    \* the last character

vars == <<lines, at, char>>

EmptyLine == [c \in 0 .. Columns - 1 |-> Blank]

\* The paper after a line feed: the first line goes out of sight when there is
\* no room for one more.
Fed ==
  IF Len(lines) < Rows THEN Append(lines, EmptyLine)
  ELSE Append(Tail(lines), EmptyLine)

Typed(paper, c, ch) == [paper EXCEPT ![Len(paper)][c] = ch]

Init ==
  /\ lines = <<EmptyLine>>
  /\ at = 0
  /\ char = "\n"

LineFeed ==
  /\ char' \in {"\n", "\r"}
  /\ lines' = Fed
  /\ at' = 0

\* To the next tab stop; the margin is one.
Tab ==
  /\ char' = "\t"
  /\ \E n \in 1 .. Columns + TabWidth : LET c == n * TabWidth IN
       /\ at < c /\ c <= at + TabWidth
       /\ \/ c < Columns /\ at' = c /\ lines' = lines
          \/ c >= Columns /\ at' = c - Columns /\ lines' = Fed

Type(ch) ==
  /\ char' = ch
  /\ \/ at < Columns /\ lines' = Typed(lines, at, ch) /\ at' = at + 1
     \/ at = Columns /\ lines' = Typed(Fed, 0, ch) /\ at' = 1

Next == LineFeed \/ Tab \/ \E ch \in Visible : Type(ch)

Spec == Init /\ [][Next]_vars
=============================================================================
