------------------------------ MODULE MCSched ------------------------------
(***************************************************************************)
(* LinkedSched, and with it Sched, for TLC: model values for the           *)
(* structures, enough for a process, a child, a grandchild and one more,   *)
(* and for execs and failed forks in between.                              *)
(***************************************************************************)
EXTENDS LinkedSched

CONSTANTS t0, t1, t2, t3, t4, p1, p2, p3, p4, m1, m2, m3, m4, m5,
          n0, n1, n2, n3, n4

MCThreads == {t0, t1, t2, t3, t4}
MCProcs   == {p1, p2, p3, p4}
MCMaps    == {m1, m2, m3, m4, m5}
MCNodes   == {n0, n1, n2, n3, n4}

\* Which free structure malloc returns makes no difference: it is enough to
\* look at the behaviours in which it returns them in this order, and for each
\* thread always the same node of the queue.  (A symmetry set would say the
\* same, but not for liveness.)
Prefix(S, order) == \A i \in 2 .. Len(order) : order[i] \in S => order[i - 1] \in S

OwnNodes ==
  [n \in MCNodes |-> CASE n = n0 -> t0 [] n = n1 -> t1 [] n = n2 -> t2
                       [] n = n3 -> t3 [] n = n4 -> t4]

InOrder ==
  /\ Prefix(threads', <<t1, t2, t3, t4>>)
  /\ Prefix(procs', <<p1, p2, p3, p4>>)
  /\ Prefix(maps', <<m1, m2, m3, m4, m5>>)
  /\ \A n \in NODES : content'[n] \in {NULL, OwnNodes[n]}

OrderedSpec ==
  /\ LinkedInit /\ content[n0] = KernelThread
  /\ [][LinkedNext /\ InOrder]_linkedVars
  /\ Fairness
=============================================================================
