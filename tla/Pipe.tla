-------------------------------- MODULE Pipe --------------------------------
(***************************************************************************)
(* The pipe of src/fs/fs_special.c: a ring buffer with a read offset, a    *)
(* write offset and a count.  Processes that inherited the file descriptor *)
(* share it.  A call runs with interrupts off, so it is one action: the    *)
(* loop over the bytes is the function that the buffer becomes.            *)
(***************************************************************************)
EXTENDS Integers, Sequences

CONSTANTS
  BufferSize,  \* PIPE_BUFFER_SIZE
  Bytes,       \* the values of a byte
  Zero,        \* the byte that malloc clears memory to
  Data,        \* what writers write: sequences of bytes
  Sizes        \* how much readers ask for

ASSUME PipeAssumption ==
  /\ BufferSize \in Nat \ {0}
  /\ Zero \in Bytes
  /\ Data \subseteq Seq(Bytes)
  /\ Sizes \subseteq Nat

VARIABLES
  buf, write_offset, read_offset, length,  \* struct pipe_context
  got,       \* the bytes that the last pipe_read stored in its caller's buffer
  ret        \* what the last call returned

vars == <<buf, write_offset, read_offset, length, got, ret>>

Offsets == 0 .. BufferSize - 1
-----------------------------------------------------------------------------
\* An offset incremented n times, set to 0 whenever it reaches the end.
NoWrapM(offset, n) == IF offset + n < BufferSize THEN offset + n ELSE BufferSize - 1
Moved(offset, n) ==
  IF offset + n < BufferSize THEN offset + n ELSE offset + n - BufferSize

\* How much a call transfers.
Writable(size) ==
  IF BufferSize - length >= size THEN size ELSE BufferSize - length
Readable(size) == IF length >= size THEN size ELSE length

\* pipe_open
Init ==
  /\ buf = [k \in Offsets |-> Zero]
  /\ write_offset = 0
  /\ read_offset = 0
  /\ length = 0
  /\ got = <<>>
  /\ ret = 0

\* The i-th byte of data, counted from 0, goes i places past the write offset.
Filled(data, n) ==
  [k \in Offsets |->
    LET i == IF k >= write_offset THEN k - write_offset
                                  ELSE k - write_offset + BufferSize
    IN IF i < n THEN data[i + 1] ELSE buf[k]]

pipe_write(data) ==
  LET n == Writable(Len(data)) IN
  /\ buf' = Filled(data, n)
  /\ length' = length + n
  /\ write_offset' = Moved(write_offset, n)
  /\ ret' = n
  /\ UNCHANGED <<read_offset, got>>

pipe_read(size) ==
  LET n == Readable(size) IN
  /\ got' = [i \in 1 .. n |-> buf[Moved(read_offset, i - 1)]]
  /\ length' = length - n
  /\ read_offset' = Moved(read_offset, n)
  /\ ret' = n
  /\ UNCHANGED <<buf, write_offset>>

Next ==
  \/ \E data \in Data : pipe_write(data)
  \/ \E size \in Sizes : pipe_read(size)

Spec == Init /\ [][Next]_vars
-----------------------------------------------------------------------------
(***************************************************************************)
(* Properties.  NoWrapM is a mistaken form of Moved.                       *)
(***************************************************************************)

\* Every variable has its type; no offset is left at PIPE_BUFFER_SIZE, where
\* the next byte would be written past the end of the buffer.
TypeOK ==
  /\ buf \in [Offsets -> Bytes]
  /\ write_offset \in Offsets
  /\ read_offset \in Offsets
  /\ length \in 0 .. BufferSize
  /\ got \in Seq(Bytes)
  /\ ret \in 0 .. BufferSize

\* The three fields that pipe_read and pipe_write update separately agree:
\* the write offset is length bytes after the read offset, around the ring.
OffsetsAgree == write_offset = Moved(read_offset, length)

\* The bytes from the read offset on, around the ring, are what the pipe holds.
Contents == [i \in 1 .. length |-> buf[Moved(read_offset, i - 1)]]

\* pipe_read and pipe_write implement a first-in-first-out pipe that loses,
\* repeats and reorders nothing, across the end of the buffer.
Fifo == INSTANCE PipeFifo WITH Capacity <- BufferSize, contents <- Contents

ImplementsFifo == Fifo!Spec
=============================================================================
