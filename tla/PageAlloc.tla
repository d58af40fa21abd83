------------------------------ MODULE PageAlloc ------------------------------
(***************************************************************************)
(* The physical page allocator (src/arch/x86/paging.c): a list of free     *)
(* blocks, each with its header in its own first page.  The list is filled *)
(* from the memory descriptors of the firmware.  A block that is longer    *)
(* than asked for gives its last pages.  Adjacent blocks are only joined   *)
(* when nothing fits, in a pass over the list that is modelled one loop    *)
(* iteration at a time.                                                    *)
(*                                                                         *)
(* Every usable descriptor that starts at or below the lower bound makes a *)
(* block there, also one that ends below it, whose length wraps around.    *)
(* The header is the same, so each takes the place of the one before, but  *)
(* its prev pointer is left pointing at itself, and list_del does not take *)
(* it out of the list any more.                                            *)
(*                                                                         *)
(* Addresses are page numbers.  What a caller gets it keeps: page_free is  *)
(* called by vm_map_clear alone, which has no caller.  When a caller gets  *)
(* pages that a header is still in, or that are not the allocator's, what  *)
(* follows depends on what it writes there: the model then stops.          *)
(***************************************************************************)
EXTENDS Integers, Sequences, SequencesExt

CONSTANTS
  MemoryMaps,  \* the memory maps the boot loader may pass
  LowerBound,  \* the first page behind the kernel image
  MemoryEnd,   \* where physical memory ends
  Wrap,        \* how many pages 64 bits can address
  Sizes        \* how many pages callers ask for

\* usable stands for the five types that page_alloc_init accepts.
Descriptor == [usable : BOOLEAN, start : Nat, pages : Nat]
DescriptorEnd(d) == d.start + d.pages

(***************************************************************************)
(* The descriptors come in the order of their addresses, do not overlap    *)
(* and lie in memory.  None is empty: UEFI does not allow it.              *)
(***************************************************************************)
ASSUME PageAllocAssumption ==
  /\ LowerBound \in Nat
  /\ MemoryEnd \in Nat
  /\ Wrap \in Nat /\ MemoryEnd < Wrap
  /\ Sizes \subseteq Nat
  /\ \A map \in MemoryMaps :
       /\ map \in Seq(Descriptor)
       /\ \A i, j \in 1 .. Len(map) :
            i < j => DescriptorEnd(map[i]) <= map[j].start
       /\ \A i \in 1 .. Len(map) :
            map[i].pages > 0 /\ DescriptorEnd(map[i]) <= MemoryEnd

VARIABLES
  mm_list,    \* mm_pool.mm_list
  available,  \* mm_pool.available
  held,       \* what callers were given
  pc,         \* where page_alloc is: not called, in __page_merge, past it, or
              \* where no model follows
  it,         \* the place in the list of the cursor of __page_merge
  want,       \* the size that page_alloc is looking for
  memory_map  \* the memory map that page_alloc_init was given

vars == <<mm_list, available, held, pc, it, want, memory_map>>

Block == [base : Nat, length : Nat]
End(b) == b.base + b.length
PagesOf(b) == b.base .. End(b) - 1
PagesIn(s) == UNION {PagesOf(s[i]) : i \in 1 .. Len(s)}
-----------------------------------------------------------------------------
\* The block of a usable descriptor: what of it lies above the lower bound.
WholeDescriptorM(d) == [base |-> d.start, length |-> d.pages]
BlockOf(d) ==
  LET first == IF d.start > LowerBound THEN d.start ELSE LowerBound
  IN [base |-> first, length |-> (DescriptorEnd(d) - first) % Wrap]

\* A block goes to the end of the list.  One with the same header as the last
\* takes its place.
Linked(list, b) ==
  IF list # <<>> /\ list[Len(list)].base = b.base
    THEN [list EXCEPT ![Len(list)] = b]
    ELSE Append(list, b)

\* The loop of page_alloc_init: each usable descriptor links its block.
BlocksOf(map) ==
  LET listed[n \in 0 .. Len(map)] ==
        IF n = 0 THEN <<>>
        ELSE IF map[n].usable THEN Linked(listed[n - 1], BlockOf(map[n]))
        ELSE listed[n - 1]
  IN listed[Len(map)]

\* What the loop adds to available for each descriptor.
Added(map) ==
  [n \in 1 .. Len(map) |->
     IF map[n].usable THEN BlockOf(map[n]) ELSE [base |-> 0, length |-> 0]]

\* The usable descriptors that make their block at the lower bound.  A block
\* that several have made is not taken out of the list by list_del.
AtBound(map) == {i \in 1 .. Len(map) : map[i].usable /\ map[i].start <= LowerBound}
Pinned(map) == \E i, j \in AtBound(map) : i # j

\* The loop of __page_consistency_check: pages_sum over the list.
TotalLength(s) ==
  LET pages_sum[n \in 0 .. Len(s)] ==
        IF n = 0 THEN 0 ELSE pages_sum[n - 1] + s[n].length
  IN pages_sum[Len(s)]

\* The pages that the kernel may use: of usable memory, behind its image.
FreeAtBoot(map) ==
  UNION {{p \in d.start .. DescriptorEnd(d) - 1 : p >= LowerBound} :
           d \in {map[i] : i \in {j \in 1 .. Len(map) : map[j].usable}}}

boot == FreeAtBoot(memory_map)

\* page_alloc_init.
Init ==
  /\ memory_map \in MemoryMaps
  /\ mm_list = BlocksOf(memory_map)
  /\ available = TotalLength(Added(memory_map))
  /\ held = {}
  /\ pc = "idle"
  /\ it = 1
  /\ want = 0

\* The loop of __page_alloc: the first block that is long enough.
FirstFit(i, size) ==
  /\ mm_list[i].length >= size
  /\ \A j \in 1 .. i - 1 : mm_list[j].length < size

NothingFits(size) == \A i \in 1 .. Len(mm_list) : mm_list[i].length < size

\* Where the pages given begin: at the end of the block.
GivenFirstM(b, size) == b.base
Given(b, size) == (b.base + b.length - size) % Wrap

\* A block of just the size asked for leaves the list, unless list_del fails to
\* take it out.
Stays(b, size) ==
  b.length = size /\ b.base = LowerBound /\ Pinned(memory_map)

EmptyLeftM(i, size) == [mm_list EXCEPT ![i].length = @ - size]
Shortened(i, size) ==
  IF Stays(mm_list[i], size) THEN mm_list
  ELSE IF mm_list[i].length = size
    THEN RemoveAt(mm_list, i)
    ELSE [mm_list EXCEPT ![i].length = @ - size]

Charged(size) == available - size

Allocate(size) ==
  \E i \in 1 .. Len(mm_list) :
    LET given == [base |-> Given(mm_list[i], size), length |-> size] IN
    /\ FirstFit(i, size)
    /\ mm_list' = Shortened(i, size)
    /\ available' = Charged(size)
    /\ held' = held \cup {given}
    /\ pc' = IF Stays(mm_list[i], size) \/ ~ (PagesOf(given) \subseteq boot)
               THEN "astray" ELSE "idle"

\* page_alloc, up to its first __page_alloc.
Alloc(size) ==
  /\ pc = "idle"
  /\ size # 0
  /\ \/ Allocate(size) /\ UNCHANGED <<it, want>>
     \/ /\ NothingFits(size)
        /\ pc' = "merge"
        /\ it' = 1
        /\ want' = size
        /\ UNCHANGED <<mm_list, available, held>>
  /\ UNCHANGED memory_map

\* The inner loop of __page_merge: the next block begins where this one ends.
Adjoins(i) == i < Len(mm_list) /\ End(mm_list[i]) = mm_list[i + 1].base

JoinedLength(i) == mm_list[i].length + mm_list[i + 1].length

Join ==
  /\ pc = "merge"
  /\ Adjoins(it)
  /\ mm_list' = RemoveAt([mm_list EXCEPT ![it].length = JoinedLength(it)], it + 1)
  /\ UNCHANGED <<available, held, pc, it, want, memory_map>>

\* The outer loop, until the cursor is back at the list head.
StepsOverM == pc = "merge"
StepsOn == pc = "merge" /\ ~ Adjoins(it)

Advance ==
  /\ StepsOn
  /\ IF it < Len(mm_list)
       THEN it' = it + 1 /\ UNCHANGED pc
       ELSE pc' = "retry" /\ UNCHANGED it
  /\ UNCHANGED <<mm_list, available, held, want, memory_map>>

\* page_alloc after __page_merge: the second __page_alloc, which may fail.
Retry ==
  /\ pc = "retry"
  /\ \/ Allocate(want)
     \/ /\ NothingFits(want)
        /\ pc' = "idle"
        /\ UNCHANGED <<mm_list, available, held>>
  /\ it' = 1
  /\ want' = 0
  /\ UNCHANGED memory_map

Stopped == pc = "astray" /\ UNCHANGED vars

Next == (\E size \in Sizes : Alloc(size)) \/ Join \/ Advance \/ Retry \/ Stopped

Spec == Init /\ [][Next]_vars
-----------------------------------------------------------------------------
(***************************************************************************)
(* Properties.  An operator above whose name ends in M is a mistaken form  *)
(* of a definition after it, which the properties must tell from it.       *)
(***************************************************************************)

\* Every variable has its type; the cursor is never past the list.
TypeOK ==
  /\ mm_list \in Seq(Block)
  /\ available \in Int
  /\ memory_map \in MemoryMaps
  /\ held \subseteq Block
  /\ pc \in {"idle", "merge", "retry", "astray"}
  /\ it \in Nat \ {0} /\ (it = 1 \/ it <= Len(mm_list))
  /\ want \in Nat

\* The lower bound is in the last of the usable descriptors that start at or
\* below it, whatever lies below: of several, it is the one whose block is left.
BoundInside(map) ==
  \A i \in AtBound(map) :
    (\A j \in AtBound(map) : j <= i) => DescriptorEnd(map[i]) > LowerBound

\* Of any other map, and when a block stays that was given whole, no more is said.
Intact == BoundInside(memory_map) /\ pc # "astray"

\* No page is given twice, none is lost and none is given that the kernel may
\* not use: the list and the callers have the pages of the memory map.
PagesKept == Intact =>
  /\ PagesIn(mm_list) \cup UNION {PagesOf(h) : h \in held} = boot
  /\ \A h \in held : PagesOf(h) \cap PagesIn(mm_list) = {}
  /\ \A g, h \in held : g = h \/ PagesOf(g) \cap PagesOf(h) = {}

\* What was counted for blocks in whose place others are.
Overcount(map) == TotalLength(Added(map)) - TotalLength(BlocksOf(map))

\* What __page_consistency_check tests holds after every call, and more: every
\* variable has its type, the blocks are in the order of their addresses, none
\* is empty, none reaches into another, and available counts their pages, and
\* nothing else if no descriptor lies below the bound.
Consistent ==
  /\ TypeOK
  /\ Intact =>
       /\ \A i \in 1 .. Len(mm_list) : mm_list[i].length > 0
       /\ \A i, j \in 1 .. Len(mm_list) : i < j => End(mm_list[i]) <= mm_list[j].base
       /\ available = TotalLength(mm_list) + Overcount(memory_map)
       /\ ~ Pinned(memory_map) => available = TotalLength(mm_list)

\* page_alloc reports failure only when no run of that many pages is free: the
\* one merge pass before the second try misses no neighbours.
FailsOnlyWhenFull ==
  [][Intact /\ pc = "retry" /\ held' = held =>
       \A p \in boot : ~ (p .. p + want - 1 \subseteq PagesIn(mm_list))]_vars

\* What page_alloc hands out is what an allocator may hand out, also a block
\* that it should have taken out of the list.
Abstract == INSTANCE Allocator WITH
  Bytes <- MemoryEnd,
  Grain <- 1,
  live  <- {[base |-> h.base, size |-> h.length] :
              h \in IF BoundInside(memory_map) THEN held ELSE {}}

ImplementsAllocator == Abstract!Spec
=============================================================================
