----------------------------- MODULE PipeFifo -----------------------------
(***************************************************************************)
(* What a pipe promises: the bytes written come out once, in the order     *)
(* they went in.  A call never waits; it transfers what it can and returns *)
(* how much that was.                                                      *)
(***************************************************************************)
EXTENDS Integers, Sequences

CONSTANTS
  Capacity,  \* the bytes the pipe can hold
  Data,      \* what writers write: sequences of bytes
  Sizes      \* how much readers ask for

VARIABLES
  contents,  \* the bytes in the pipe, the oldest first
  got,       \* the bytes that the last read delivered
  ret        \* what the last call returned

Least(m, n) == IF m <= n THEN m ELSE n

Init == contents = <<>> /\ got = <<>> /\ ret = 0

Put(data) ==
  LET n == Least(Len(data), Capacity - Len(contents)) IN
  /\ contents' = contents \o SubSeq(data, 1, n)
  /\ ret' = n
  /\ UNCHANGED got

Get(size) ==
  LET n == Least(size, Len(contents)) IN
  /\ got' = SubSeq(contents, 1, n)
  /\ contents' = SubSeq(contents, n + 1, Len(contents))
  /\ ret' = n

Next == (\E data \in Data : Put(data)) \/ (\E size \in Sizes : Get(size))

Spec == Init /\ [][Next]_<<contents, got, ret>>
=============================================================================
