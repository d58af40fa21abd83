----------------------------- MODULE Allocator -----------------------------
(***************************************************************************)
(* What malloc and free promise (src/include/klibc.h): a buffer of the     *)
(* size asked for, aligned, in the heap, that overlaps no buffer still     *)
(* held.                                                                   *)
(***************************************************************************)
EXTENDS Integers

CONSTANTS
  Bytes,  \* the size of the heap
  Grain   \* what the base of a buffer is a multiple of

VARIABLE live    \* the buffers handed out and not yet freed

Disjoint(x, y) == x.base + x.size <= y.base \/ y.base + y.size <= x.base

Init == live = {}

Allocate(b, n) ==
  /\ b % Grain = 0
  /\ b + n <= Bytes
  /\ \A x \in live : Disjoint(x, [base |-> b, size |-> n])
  /\ live' = live \cup {[base |-> b, size |-> n]}

Release(x) == live' = live \ {x}

Next ==
  \/ \E b \in 0 .. Bytes, n \in 1 .. Bytes : Allocate(b, n)
  \/ \E x \in live : Release(x)

Spec == Init /\ [][Next]_live
=============================================================================
