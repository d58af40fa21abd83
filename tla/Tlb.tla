-------------------------------- MODULE Tlb --------------------------------
(***************************************************************************)
(* PageTables beside the processor that uses them.  A translation that has *)
(* been used stays in the TLB until it is invalidated or happens to be     *)
(* replaced.  The kernel loads CR3 once, in load_mm_map, and has no INVLPG:*)
(* its steps leave the TLB alone, also when they overwrite an entry.       *)
(***************************************************************************)
EXTENDS PageTables

VARIABLE tlb  \* for each page the entry that the processor remembers, or Empty

TlbInit == Init /\ tlb = [v \in Virtual |-> Empty]

\* The program that runs between two calls of the kernel uses a page that is
\* mapped with PAGING_MASK_U_S.
Access(v) ==
  /\ pc = "idle"
  /\ boot = Len(BootChunks)
  /\ tlb[v] = Empty
  /\ Query(v) # Empty /\ Query(v).flag = "user"
  /\ tlb' = [tlb EXCEPT ![v] = Query(v)]
  /\ UNCHANGED vars

Replace(v) ==
  /\ tlb' = [tlb EXCEPT ![v] = Empty]
  /\ UNCHANGED vars

TlbNext ==
  \/ Next /\ UNCHANGED tlb
  \/ \E v \in Virtual : Access(v) \/ Replace(v)

TlbSpec == TlbInit /\ [][TlbNext]_<<vars, tlb>>

(***************************************************************************)
(* A program runs on the pages of its own map.  vm_map_dup makes a child   *)
(* its own copy, "memory map structure and its associate phyisical memory  *)
(* region" (src/mm/vm_map.c:67), and sched maps it before the child runs;  *)
(* but the processor may go on using the pages of whoever ran before.      *)
(***************************************************************************)
NoStaleTranslation ==
  pc = "idle" => \A v \in Virtual : tlb[v] # Empty => tlb[v] = Query(v)
=============================================================================
