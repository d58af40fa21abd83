----------------------------- MODULE MCTrapGate -----------------------------
(***************************************************************************)
(* TrapGate for TLC: the kernel thread, the thread of /test and two more   *)
(* that fork can create, enough for two threads caught at once while a     *)
(* third enters the kernel over them.                                      *)
(***************************************************************************)
EXTENDS TrapGate

CONSTANTS t0, t1, t2, t3
=============================================================================
