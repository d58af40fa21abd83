------------------------------ MODULE Teletype ------------------------------
(***************************************************************************)
(* What a pipe and a console promise together, when a program copies from  *)
(* one to the other: the bytes that the pipe took are typed once, in the   *)
(* order in which they were sent.  Only a NUL is not typed, and it may     *)
(* swallow what is copied in one piece with it.                            *)
(***************************************************************************)
EXTENDS Paper

CONSTANTS
  Data,   \* what is sent at a time: sequences of bytes
  NUL,
  Piece   \* the most bytes that are copied in one piece

VARIABLE sent  \* the bytes taken and not yet typed, the oldest first

Send(data) ==
  /\ \E n \in 0 .. Len(data) : sent' = sent \o SubSeq(data, 1, n)
  /\ UNCHANGED vars

TypeFirst ==
  /\ sent # <<>>
  /\ sent' = Tail(sent)
  /\ char' = Head(sent)
  /\ Next

Swallow ==
  /\ sent # <<>>
  /\ Head(sent) = NUL
  /\ \E n \in 1 .. Piece :
       n <= Len(sent) /\ sent' = SubSeq(sent, n + 1, Len(sent))
  /\ UNCHANGED vars

TeletypeInit == Init /\ sent = <<>>

TeletypeNext == (\E data \in Data : Send(data)) \/ TypeFirst \/ Swallow

TeletypeSpec == TeletypeInit /\ [][TeletypeNext]_<<vars, sent>>
=============================================================================
