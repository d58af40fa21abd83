-------------------------------- MODULE Heap --------------------------------
(***************************************************************************)
(* The kernel heap (src/mm/malloc.c): first fit over a linked list of      *)
(* blocks, each with a header in front of it.  A block is split at its     *)
(* end.  Free blocks are only joined when malloc finds nothing, in a pass  *)
(* over the list that is modelled one loop iteration at a time.            *)
(*                                                                         *)
(* Addresses count from KERNEL_HEAP_BASE.  Blocks are identified by the    *)
(* address of their header.  The list head vm_heap.mm_list, which lies     *)
(* outside the heap, is written as the address Total, where no block is.   *)
(* Callers free what they were given, once.                                *)
(***************************************************************************)
EXTENDS Integers, FiniteSets

CONSTANTS
  Total,   \* vm_heap.total, the bytes of the heap
  Header,  \* BLOCK_STRUCT_SIZE
  Grain,   \* the 16 of roundsize, and the least length of a block
  Sizes    \* what callers ask for, in bytes

ASSUME HeapAssumption ==
  /\ Grain \in Nat \ {0}
  /\ Header \in Nat \ {0} /\ Header % Grain = 0
  /\ Total \in Nat /\ Total % Grain = 0 /\ Total >= Header + Grain
  /\ Sizes \subseteq Nat \ {0}

VARIABLES
  blocks,       \* the blocks in mm_list
  next,         \* their list.next
  length,       \* their length
  used,         \* their used flag
  available,    \* vm_heap.available
  block_count,  \* vm_heap.block_count
  held,         \* what callers hold: the header in front of it, and the size
  pc,           \* where malloc is: not called, in __merge_block, or past it
  it,           \* the cursor of __merge_block
  want          \* the rounded size that malloc is looking for

vars == <<blocks, next, length, used, available, block_count, held, pc, it, want>>
heap == <<blocks, next, length, used, available, block_count>>

Address == 0 .. Total - 1
Head    == Total
NULL    == -1
Buffer  == [at : Address, size : 1 .. Total]
-----------------------------------------------------------------------------
\* roundsize: up to a multiple of Grain.  (It wraps to 0 within 16 bytes of
\* 2^64, a size that nothing in the kernel asks for.)
NotRoundedM(size) == size
RoundSize(size) == IF size % Grain = 0 THEN size ELSE (size - (size % Grain)) + Grain

\* The loop of __malloc: the first block that is free and long enough.  The
\* list is in the order of the addresses (Tiling).
Fits(a, size) == ~ used[a] /\ length[a] >= size

FirstFit(a, size) ==
  /\ Fits(a, size)
  /\ \A b \in blocks : b < a => ~ Fits(b, size)

NothingFits(size) == \A a \in blocks : ~ Fits(a, size)

\* Too little would be left for another block: the whole block is given.
WholeBlock(a, size) == length[a] < size + Header + Grain

\* new_entry: the header that splits off the last size bytes of block a.
NewEntryM(a, size) == a + Header + length[a] - size
NewEntry(a, size) == a + length[a] - size

Take(a, size) ==
  /\ WholeBlock(a, size)
  /\ used' = [used EXCEPT ![a] = TRUE]
  /\ available' = available - length[a]
  /\ held' = held \cup {[at |-> a, size |-> size]}
  /\ UNCHANGED <<blocks, next, length, block_count>>

Split(a, size) ==
  /\ ~ WholeBlock(a, size)
  /\ LET b == NewEntry(a, size) IN
     /\ blocks' = blocks \cup {b}
     /\ next' = [next EXCEPT ![a] = b, ![b] = next[a]]
     /\ length' = [length EXCEPT ![a] = @ - (size + Header), ![b] = size]
     /\ used' = [used EXCEPT ![b] = TRUE]
     /\ held' = held \cup {[at |-> b, size |-> size]}
  /\ available' = available - (size + Header)
  /\ block_count' = block_count + 1

Allocate(size) ==
  \E a \in blocks : FirstFit(a, size) /\ (Take(a, size) \/ Split(a, size))
-----------------------------------------------------------------------------
\* What malloc_init leaves before its self-test: one free block.
Init ==
  /\ blocks = {0}
  /\ next = [a \in Address |-> IF a = 0 THEN Head ELSE NULL]
  /\ length = [a \in Address |-> IF a = 0 THEN Total - Header ELSE 0]
  /\ used = [a \in Address |-> FALSE]
  /\ available = Total - Header
  /\ block_count = 1
  /\ held = {}
  /\ pc = "idle"
  /\ it = 0
  /\ want = 0

\* malloc, up to its first __malloc.
Malloc(size) ==
  /\ pc = "idle"
  /\ \/ /\ Allocate(RoundSize(size))
        /\ UNCHANGED <<pc, it, want>>
     \/ /\ NothingFits(RoundSize(size))
        /\ pc' = "merge"
        /\ it' = 0
        /\ want' = RoundSize(size)
        /\ UNCHANGED <<heap, held>>

\* The inner loop of __merge_block: the block after the cursor joins it.
\* Its header is cleared, the pointers too.
JoinsUsedM(a) == next[a] # Head /\ ~ used[a]
Mergeable(a) == next[a] # Head /\ ~ used[a] /\ ~ used[next[a]]

Joined(a, b) == length[a] + length[b] + Header

NotCountedM(n) == n
Gained(n) == n + Header

Absorb ==
  /\ pc = "merge"
  /\ Mergeable(it)
  /\ LET b == next[it] IN
     /\ blocks' = blocks \ {b}
     /\ next' = [next EXCEPT ![it] = next[b], ![b] = NULL]
     /\ length' = [length EXCEPT ![it] = Joined(it, b), ![b] = 0]
     /\ used' = [used EXCEPT ![b] = FALSE]
  /\ block_count' = block_count - 1
  /\ available' = Gained(available)
  /\ UNCHANGED <<held, pc, it, want>>

\* The outer loop: the cursor moves on, or comes back to the list head.
MovesPastM == pc = "merge"
MovesOn == pc = "merge" /\ ~ Mergeable(it)

AdvancePastHeadM ==
  /\ MovesOn
  /\ pc' = IF next[it] = Head THEN "retry" ELSE pc
  /\ it' = next[it]
  /\ UNCHANGED <<heap, held, want>>
Advance ==
  /\ MovesOn
  /\ IF next[it] = Head
       THEN pc' = "retry" /\ UNCHANGED it
       ELSE it' = next[it] /\ UNCHANGED pc
  /\ UNCHANGED <<heap, held, want>>

\* malloc after __merge_block: the second __malloc, which may fail.
Retry ==
  /\ pc = "retry"
  /\ Allocate(want) \/ (NothingFits(want) /\ UNCHANGED <<heap, held>>)
  /\ pc' = "idle"
  /\ want' = 0
  /\ it' = 0

\* free: the block stays where it is.  (A block that is not used is reported
\* by bug() and left alone.)
Free(h) ==
  /\ pc = "idle"
  /\ used[h.at]
  /\ used' = [used EXCEPT ![h.at] = FALSE]
  /\ available' = available + length[h.at]
  /\ held' = held \ {h}
  /\ UNCHANGED <<blocks, next, length, block_count, pc, it, want>>

Next ==
  \/ \E size \in Sizes : Malloc(size)
  \/ Absorb
  \/ Advance
  \/ Retry
  \/ \E h \in held : Free(h)

Spec == Init /\ [][Next]_vars
-----------------------------------------------------------------------------
(***************************************************************************)
(* Properties.  An operator above whose name ends in M is a mistaken form  *)
(* of the one after it, which the properties must tell from it.            *)
(***************************************************************************)

\* Every variable has its type, and the cursor of __merge_block is always a
\* block of the list, though the pass removes blocks while it walks.  (What
\* the counters count is for NoLeak to say.)
TypeOK ==
  /\ blocks \subseteq Address
  /\ next \in [Address -> {NULL} \cup 0 .. Total]
  /\ length \in [Address -> 0 .. Total]
  /\ used \in [Address -> BOOLEAN]
  /\ available \in Int
  /\ block_count \in Int
  /\ held \subseteq Buffer
  /\ pc \in {"idle", "merge", "retry"}
  /\ it \in blocks
  /\ want \in Nat

End(a) == a + Header + length[a]

\* What __mm_list_consistency_check tests first, after every malloc and free:
\* a block ends where the next one of the list begins, the last one at the end
\* of the heap.  Its bug "linking list corrupted" is never reported, and no
\* header lies inside another block.
Tiling ==
  /\ 0 \in blocks
  /\ \A a \in blocks : /\ next[a] = End(a)
                       /\ next[a] \in blocks \cup {Head}
                       /\ length[a] > 0
  /\ \A a, b \in blocks : a < b => End(a) <= b

\* What a caller holds is a used block at least as long as it asked for, and
\* every used block is held by one caller: neither a split, nor a merge pass,
\* nor another caller's free takes a buffer away.
HeldIntact ==
  /\ \A h \in held : /\ h.at \in blocks
                     /\ used[h.at]
                     /\ length[h.at] >= h.size
  /\ \A g, h \in held : g.at = h.at => g = h
  /\ \A a \in blocks : used[a] => \E h \in held : h.at = a

\* The loop of __mm_list_consistency_check: the sum of a value of the blocks,
\* along the list.
Along(value) ==
  LET sum[a \in blocks \cup {Head}] ==
        IF a = Head THEN 0 ELSE value[a] + sum[next[a]]
  IN  sum[0]

FreeLength == [a \in blocks |-> IF used[a] THEN 0 ELSE length[a]]

\* What __mm_list_consistency_check tests last: the lengths and the headers add
\* up to the heap.  Its bug "Memory leakage detected" is never reported, and
\* available stays the number of bytes in free blocks, through every split,
\* merge, allocation of a whole block and free.
NoLeak ==
  /\ Along(length) + (block_count * Header) = Total
  /\ block_count = Cardinality(blocks)
  /\ available = Along(FreeLength)

\* malloc reports failure only when no run of neighbouring free blocks, joined,
\* would be long enough: the one merge pass before the second try misses none.
FailsOnlyWhenFull ==
  [][pc = "retry" /\ held' = held =>
       \A a, b \in blocks :
         a <= b /\ (\A c \in blocks : a <= c /\ c <= b => ~ used[c])
           => End(b) - (a + Header) < want]_vars

\* malloc.c implements what klibc.h promises of malloc and free.  Buffers are
\* aligned, as the pointers and 64-bit fields that callers store in them expect:
\* no sequence of splits and merges, of sizes of whatever remainder, moves a
\* header off its grain.
Abstract == INSTANCE Allocator WITH
  Bytes <- Total,
  live  <- {[base |-> h.at + Header, size |-> h.size] : h \in held}

ImplementsAllocator == Abstract!Spec
=============================================================================
