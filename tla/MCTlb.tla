------------------------------- MODULE MCTlb -------------------------------
(***************************************************************************)
(* Tlb for TLC: the first page is mapped at boot and then for each of two  *)
(* processes.                                                              *)
(***************************************************************************)
EXTENDS Tlb, FiniteSetsExt

C(virt, frame, pages, flag) ==
  [virt |-> virt, frame |-> frame, pages |-> pages, flag |-> flag]

MCTables == 1 .. 4
MCSupply(free) == IF free = {} THEN {} ELSE {Max(free)}
MCBootChunks == << C(0, 0, 2, "kernel") >>
MCChunks == { C(0, 4, 1, "user"), C(0, 7, 1, "user") }
=============================================================================
