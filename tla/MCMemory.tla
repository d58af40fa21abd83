------------------------------ MODULE MCMemory ------------------------------
(***************************************************************************)
(* ProcessMemory for TLC: a process, two more, and one exec; pages of two  *)
(* words, of which a kernel structure covers the first; a program file     *)
(* that fills its page and one that does not; and a volume whose cluster 0 *)
(* is as large as a word.                                                  *)
(***************************************************************************)
EXTENDS ProcessMemory, TLC

CONSTANTS t0, t1, t2, t3, p1, p2, p3, m1, m2, m3, m4, f1, f2, f3, f4

MCThreads  == {t0, t1, t2, t3}
MCProcs    == {p1, p2, p3}
MCMaps     == {m1, m2, m3, m4}
MCFrames   == {f1, f2, f3, f4}
MCNoFile   == 1 :> 1
MCPrograms == {1 :> 1 @@ 2 :> 1, 1 :> 0}

\* Which free structure or page is taken makes no difference: it is enough to
\* look at the behaviours in which they are taken in this order, and a new map
\* has the page of its number (or one of another map, were that possible).
Prefix(S, order) == \A i \in 2 .. Len(order) : order[i] \in S => order[i - 1] \in S

PageFor == (m1 :> f1) @@ (m2 :> f2) @@ (m3 :> f3) @@ (m4 :> f4)

InOrder ==
  /\ Prefix(threads', <<t1, t2, t3>>)
  /\ Prefix(procs', <<p1, p2, p3>>)
  /\ Prefix(maps', <<m1, m2, m3, m4>>)
  /\ \A m \in maps' \ maps :
       phy_addr'[m] \in {PageFor[m]} \cup {phy_addr[n] : n \in maps}

OrderedSpec ==
  /\ MemoryInit
  /\ ram = [f \in FRAMES |-> [w \in Words |-> 0]]
  /\ [][MemoryNext /\ InOrder]_memoryVars
=============================================================================
