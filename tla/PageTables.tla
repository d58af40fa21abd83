----------------------------- MODULE PageTables -----------------------------
(***************************************************************************)
(* The four-level page tables (src/arch/x86/paging.c).  There is one tree, *)
(* which init_mm_map builds (src/arch/x86/init/init_mm_map.c, with copies  *)
(* of the same functions) and into which vm_map_do_mapping writes the      *)
(* entry of a map each time its process is dispatched.                     *)
(*                                                                         *)
(* One action is one level of the walk of __do_mapping for one page, or    *)
(* the check of one page by __validate_mapping.  Addresses are page        *)
(* numbers.                                                                *)
(***************************************************************************)
EXTENDS Integers, Sequences

CONSTANTS
  Fan,         \* entries of a table: 512
  Tables,      \* the pages that can become tables
  Root,        \* the page that CR3 names
  Supply(_),   \* which of some free pages the allocator may give
  BootChunks,  \* what init_mm_map maps, in its order
  Chunks,      \* what vm_map_do_mapping may map
  Empty,       \* an entry without PAGING_MASK_P
  Junk,        \* an entry of a page that has not been cleared
  NoChunk      \* no call of modify_chunk_mapping

Entries == 0 .. Fan - 1
Virtual == 0 .. Fan * Fan * Fan * Fan - 1

\* The arguments of modify_chunk_mapping.  Every caller's flags have the
\* present bit; vm_map_do_mapping asserts that the last page is in range.
Chunk == [virt : Virtual, frame : Nat, pages : Nat \ {0}, flag : STRING]
InRange(c) == c \in Chunk /\ c.virt + c.pages - 1 \in Virtual

Leaf == [frame : Nat, flag : STRING]

ASSUME PageTablesAssumption ==
  /\ Fan \in Nat \ {0}
  /\ Root \in Tables
  /\ Empty \notin Tables /\ Empty \notin Leaf
  /\ \A free \in SUBSET Tables :
       Supply(free) \subseteq free /\ (free # {} => Supply(free) # {})
  /\ BootChunks \in Seq(Chunk)
  /\ \A i \in 1 .. Len(BootChunks) : InRange(BootChunks[i])
  /\ \A c \in Chunks : InRange(c)
  /\ NoChunk \notin Chunk \cup [chunk : Chunk, done : Nat]

VARIABLES
  contents,  \* the entries of each page of Tables
  level,     \* of each table, from 1 for the root; 0 for a page not yet used
  boot,      \* how many of BootChunks init_mm_map has mapped
  pc,        \* "idle", in __map_by_pages or in __validate_mapping, or halted
  chunk,     \* the arguments of modify_chunk_mapping
  done,      \* how many of its pages the loop has behind it
  at         \* the table that __do_mapping has reached

vars == <<contents, level, boot, pc, chunk, done, at>>

\* Where an address has its entry in a table of level k: nine bits of it.
IndexM(k, v) ==
  (CASE k = 1 -> ((v \div Fan) \div Fan) \div Fan
     [] k = 2 -> (v \div Fan) \div Fan
     [] k \in {3, 4} -> v \div Fan) % Fan
Index(k, v) ==
  (CASE k = 1 -> ((v \div Fan) \div Fan) \div Fan
     [] k = 2 -> (v \div Fan) \div Fan
     [] k = 3 -> v \div Fan
     [] k = 4 -> v) % Fan

\* __init_table.
Cleared == [i \in Entries |-> Empty]

Free == {t \in Tables : level[t] = 0}

Init ==
  /\ contents = [t \in Tables |-> IF t = Root THEN Cleared ELSE [i \in Entries |-> Junk]]
  /\ level = [t \in Tables |-> IF t = Root THEN 1 ELSE 0]
  /\ boot = 0
  /\ pc = "idle"
  /\ chunk = NoChunk
  /\ done = 0
  /\ at = Root

\* __query_mapping, one level and all four.
Below(t, k, v) == IF t = Empty THEN Empty ELSE contents[t][Index(k, v)]
Query(v) == Below(Below(Below(Below(Root, 1, v), 2, v), 3, v), 4, v)

\* The page that the loop is at and what it is to be mapped to.
Page == chunk.virt + done
FrameStuckM == [frame |-> chunk.frame, flag |-> chunk.flag]
Wanted == [frame |-> chunk.frame + done, flag |-> chunk.flag]

\* The entry that __do_mapping is looking at, and its PAGING_MASK_P.
Place == Index(level[at], Page)
Entry == contents[at][Place]
NeverPresentM == FALSE
Present == Entry # Empty
-----------------------------------------------------------------------------
Begin(c) ==
  /\ pc' = "map"
  /\ chunk' = c
  /\ done' = 0
  /\ at' = Root
  /\ UNCHANGED <<contents, level, boot>>

MapAtBoot ==
  /\ pc = "idle"
  /\ boot < Len(BootChunks)
  /\ Begin(BootChunks[boot + 1])

\* vm_map_do_mapping, after init_mm_map is over.
MapForProcess ==
  /\ pc = "idle"
  /\ boot = Len(BootChunks)
  /\ \E c \in Chunks : Begin(c)

\* __do_mapping above the last level: the next table is there ...
Descend ==
  /\ pc = "map"
  /\ level[at] < 4
  /\ Present
  /\ at' = Entry
  /\ UNCHANGED <<contents, level, boot, pc, chunk, done>>

\* ... or gets allocated, cleared and entered ...
AddTable ==
  /\ pc = "map"
  /\ level[at] < 4
  /\ ~ Present
  /\ \E t \in Supply(Free) :
       /\ contents' = [contents EXCEPT ![t] = Cleared, ![at][Place] = t]
       /\ level' = [level EXCEPT ![t] = level[at] + 1]
       /\ at' = t
  /\ UNCHANGED <<boot, pc, chunk, done>>

\* ... or cannot be: convert_phy_to_virt asserts that there is a page.
NoPage ==
  /\ pc = "map"
  /\ level[at] < 4
  /\ ~ Present
  /\ Free = {}
  /\ pc' = "no page"
  /\ UNCHANGED <<contents, level, boot, chunk, done, at>>

\* The loops of __map_by_pages and __validate_mapping.
LastPage == done + 1 = chunk.pages
NextDone == IF LastPage THEN 0 ELSE done + 1

\* The end of __do_mapping writes the entry of the page.
SetEntry ==
  /\ pc = "map"
  /\ level[at] = 4
  /\ contents' = [contents EXCEPT ![at][Place] = Wanted]
  /\ at' = Root
  /\ done' = NextDone
  /\ pc' = IF LastPage THEN "validate" ELSE "map"
  /\ UNCHANGED <<level, boot, chunk>>

\* One page of __validate_mapping, which halts when the check fails.
Validate ==
  /\ pc = "validate"
  /\ IF Query(Page) = Wanted
       THEN /\ done' = NextDone
            /\ pc' = IF LastPage THEN "idle" ELSE "validate"
            /\ chunk' = IF LastPage THEN NoChunk ELSE chunk
            /\ boot' = IF LastPage /\ boot < Len(BootChunks) THEN boot + 1 ELSE boot
       ELSE /\ pc' = "inconsistent"
            /\ UNCHANGED <<done, chunk, boot>>
  /\ UNCHANGED <<contents, level, at>>

\* __halt__, with interrupts off.
Halted == pc \in {"no page", "inconsistent"} /\ UNCHANGED vars

Next ==
  \/ MapAtBoot \/ MapForProcess
  \/ Descend \/ AddTable \/ NoPage \/ SetEntry
  \/ Validate \/ Halted

Spec == Init /\ [][Next]_vars
-----------------------------------------------------------------------------
(***************************************************************************)
(* Properties.  An operator above whose name ends in M is a mistaken form  *)
(* of a definition after it, which the properties must tell from it.       *)
(***************************************************************************)
Used == {t \in Tables : level[t] # 0}
Inner == {t \in Used : level[t] < 4}

\* Every variable has its type; the entries of a table in use are empty or what
\* its level asks for, and the walk is always at a table in use.
TypeOK ==
  /\ level \in [Tables -> 0 .. 4]
  /\ \A t \in Used : level[t] = 4 => contents[t] \in [Entries -> Leaf \cup {Empty}]
  /\ \A t \in Inner : contents[t] \in [Entries -> Used \cup {Empty}]
  /\ boot \in 0 .. Len(BootChunks)
  /\ pc \in {"idle", "map", "validate", "no page", "inconsistent"}
  /\ pc \in {"map", "validate"} => InRange(chunk) /\ done \in 0 .. chunk.pages - 1
  /\ at \in Used

\* The tables form a tree in which each hangs one level below the one entry
\* that names it, and no page that was taken for a table is lost, though the
\* walk adds tables to it for all processes, in any order.
TreeShaped ==
  /\ level[Root] = 1
  /\ \A t \in Inner, i \in Entries :
       contents[t][i] # Empty => level[contents[t][i]] = level[t] + 1
  /\ \A t, u \in Inner, i, j \in Entries :
       contents[t][i] # Empty /\ contents[t][i] = contents[u][j] => t = u /\ i = j
  /\ \A u \in Used \ {Root} : \E t \in Inner, i \in Entries : contents[t][i] = u

\* __validate_mapping never reports "Mapping consistency checking failed.":
\* every page of a chunk still has the entry written for it when the loop over
\* all of them is done.
ConsistencyHolds == pc # "inconsistent"

\* The tree of tables is a function from pages to frames, and a request changes
\* its own pages and no others: no walk reaches the entry of another page, and
\* a table that is added maps nothing.
Abstract == INSTANCE AddressSpace WITH
  Chunks  <- Chunks \cup {BootChunks[i] : i \in 1 .. Len(BootChunks)},
  Absent  <- Empty,
  Nothing <- NoChunk,
  map     <- [v \in Virtual |-> Query(v)],
  todo    <- IF pc = "map" THEN [chunk |-> chunk, done |-> done] ELSE NoChunk

ImplementsAddressSpace == Abstract!Spec
=============================================================================
