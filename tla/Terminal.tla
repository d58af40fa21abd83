------------------------------ MODULE Terminal ------------------------------
(***************************************************************************)
(* A pipe and the console in one system: processes write to the pipe, and  *)
(* one process copies what it reads from the pipe to /stdio, with the two  *)
(* system calls that such a program makes.  stdio_write copies the bytes   *)
(* into a string (src/fs/fs_special.c) and has the console print it: its   *)
(* loop ends at the first NUL, which need not be the one it appended.      *)
(*                                                                         *)
(* System calls run with interrupts off: while a string is being printed   *)
(* nothing else happens.                                                   *)
(***************************************************************************)
EXTENDS Pipe, Console

ASSUME TerminalAssumption ==
  /\ Zero \notin Characters          \* the NUL
  /\ Bytes \subseteq Characters \cup {Zero}

VARIABLES
  holding,  \* whether the copying process has read what it has still to write
  string    \* from where the loop of WriteLine stands; empty outside the loop

terminalVars == <<vars, consoleVars, holding, string>>

\* The copy that stdio_write makes of the bytes, with a NUL behind them.
CutShortM(bytes) == SubSeq(bytes, 1, Len(bytes) - 1) \o <<Zero>>
Terminated(bytes) == bytes \o <<Zero>>
-----------------------------------------------------------------------------
TerminalInit == Init /\ DisplayInit /\ holding = FALSE /\ string = <<>>

Write(data) ==
  /\ string = <<>>
  /\ pipe_write(data)
  /\ UNCHANGED <<consoleVars, holding, string>>

Read(size) ==
  /\ string = <<>> /\ ~ holding
  /\ pipe_read(size)
  /\ holding' = TRUE
  /\ UNCHANGED <<consoleVars, string>>

stdio_write ==
  /\ string = <<>> /\ holding
  /\ string' = Terminated(got)
  /\ holding' = FALSE
  /\ UNCHANGED <<vars, consoleVars>>

PrintFirst ==
  /\ string # <<>>
  /\ Head(string) # Zero
  /\ WriteLine(Head(string))
  /\ string' = Tail(string)
  /\ UNCHANGED <<vars, holding>>

PrintEnds ==
  /\ string # <<>>
  /\ Head(string) = Zero
  /\ string' = <<>>
  /\ UNCHANGED <<vars, consoleVars, holding>>

TerminalNext ==
  \/ \E data \in Data : Write(data)
  \/ \E size \in Sizes : Read(size)
  \/ stdio_write
  \/ PrintFirst
  \/ PrintEnds

TerminalSpec == TerminalInit /\ [][TerminalNext]_terminalVars
-----------------------------------------------------------------------------
(***************************************************************************)
(* The property.  CutShortM is a mistaken form of Terminated.              *)
(***************************************************************************)
\* What has been taken by the pipe and is not yet printed.
Copied == IF string # <<>> THEN SubSeq(string, 1, Len(string) - 1)
          ELSE IF holding THEN got ELSE <<>>

\* From the processes that write to the pipe to the screen: through a ring
\* buffer, short reads and writes, a copy and a scrolling screen, every byte is
\* shown once and in order, but for NULs and what is read together with them.
Tty == INSTANCE Teletype WITH
  Rows <- Max_Row, Columns <- Max_Column, at <- column, char <- temp,
  lines <- Shown(frame_buffer, row), NUL <- Zero, Piece <- BufferSize,
  sent <- Copied \o Contents

ImplementsTeletype == Tty!TeletypeSpec
=============================================================================
