---------------------------- MODULE MCPageTables ----------------------------
(***************************************************************************)
(* PageTables for TLC: tables of two entries, so that sixteen pages need   *)
(* four levels.  At boot the two lowest pages are mapped flat and the      *)
(* highest is the kernel's; the chunks of processes overwrite the flat     *)
(* map, cross from one table into the next at each level, and overlap.     *)
(***************************************************************************)
EXTENDS PageTables, FiniteSetsExt

C(virt, frame, pages, flag) ==
  [virt |-> virt, frame |-> frame, pages |-> pages, flag |-> flag]

MCTables == 1 .. 12
MCSupply(free) == IF free = {} THEN {} ELSE {Max(free)}
MCBootChunks == << C(15, 1, 1, "kernel"), C(0, 0, 2, "kernel") >>
MCChunks ==
  { C(virt, frame, pages, "user") : virt \in {0, 3, 7}, frame \in {4, 7}, pages \in 1 .. 2 }
    \cup {C(1, 8, 2, "user"), C(12, 3, 1, "kernel")}
=============================================================================
