---------------------------- MODULE SchedProofs ----------------------------
(***************************************************************************)
(* The scheduler's safety invariants, for any number of structures and any *)
(* size of the identifier tables.                                          *)
(*                                                                         *)
(* None of them is inductive alone.  That the queue holds a live thread    *)
(* rests on the kernel thread, which no exit stops because it has no       *)
(* process; that a dispatched thread finds its process alive rests on      *)
(* OneThread; that the maps are private rests on every map of a process    *)
(* being taken.  IInv is their conjunction.  That identifiers are distinct *)
(* and that families are right need invariants of their own beside it,     *)
(* IdInv and FamilyInv, and so do the memories of the processes and, in    *)
(* the last part, the pointers of the lists that hold the sequences.       *)
(***************************************************************************)
EXTENDS ProcessMemory, LinkedSched, NaturalsInduction, WellFoundedInduction, TLAPS

\* The thread of main: no process, never stopped.
KernelLive ==
  /\ LiveThread(KernelThread)
  /\ thread[KernelThread].proc = NULL

\* A map that a process uses has been taken from the free ones.
MapsTaken == \A p \in procs : proc[p].vm_map \in maps

\* So has every process on a child list.
ChildrenTaken == \A p \in procs : SetOf(proc[p].child) \subseteq procs

IInv ==
  /\ TypeOK
  /\ KernelLive
  /\ QueueHoldsLive
  /\ RunsInOwnMemory
  /\ OneThread
  /\ MapsTaken
  /\ PrivateMemory
  /\ ChildrenTaken
-----------------------------------------------------------------------------
\* Enqueuing t keeps every other element where it is.
LEMMA EnqueueFacts ==
  ASSUME NEW S, NEW q \in Seq(S), NEW t \in S
  PROVE  /\ Enqueue(q, t) \in Seq(S)
         /\ Len(Enqueue(q, t)) = Len(q) + 1
         /\ \A k \in 1 .. Len(q) : Enqueue(q, t)[k] = q[k]
         /\ Enqueue(q, t)[Len(q) + 1] = t
BY DEF Enqueue

\* The n-th element of a queue leaves with those before it and comes back last.
LEMMA RotatedFacts ==
  ASSUME NEW S, NEW q \in Seq(S), NEW n \in 1 .. Len(q)
  PROVE  /\ Rotated(q, n) \in Seq(S)
         /\ Len(Rotated(q, n)) = Len(q) - n + 1
         /\ \A k \in 1 .. Len(q) - n : Rotated(q, n)[k] = q[n + k]
         /\ Rotated(q, n)[Len(q) - n + 1] = q[n]
<1>1. q[n] \in S /\ n \in Nat /\ Len(q) \in Nat /\ n <= Len(q)
  OBVIOUS
<1> DEFINE s == SubSeq(q, n + 1, Len(q))
<1>2. /\ s \in Seq(S)
      /\ Len(s) = Len(q) - n
      /\ \A k \in 1 .. Len(q) - n : s[k] = q[n + k]
  OBVIOUS
<1>3. Rotated(q, n) = Enqueue(s, q[n])
  BY DEF Rotated
<1> HIDE DEF s
<1>4. /\ Enqueue(s, q[n]) \in Seq(S)
      /\ Len(Enqueue(s, q[n])) = Len(s) + 1
      /\ \A k \in 1 .. Len(s) : Enqueue(s, q[n])[k] = s[k]
      /\ Enqueue(s, q[n])[Len(s) + 1] = q[n]
  BY <1>1, <1>2, EnqueueFacts
<1>5. Len(s) + 1 = Len(q) - n + 1
  BY <1>1, <1>2
<1>6. \A k \in 1 .. Len(q) - n : Enqueue(s, q[n])[k] = q[n + k]
  BY <1>2, <1>4
<1> QED
  BY <1>2, <1>3, <1>4, <1>5, <1>6

\* What sched leaves, from the threads th and processes pr of its caller: a
\* queue without duplicates that holds every thread still live, and a live
\* thread running.
LEMMA DispatchFacts ==
  ASSUME ready_queue \in Seq(THREADS),
         NEW th, NEW pr,
         \A i \in DOMAIN ready_queue : ready_queue[i] \in threads,
         \A i, j \in DOMAIN ready_queue :
           ready_queue[i] = ready_queue[j] => i = j,
         \A t \in threads : th[t].status # Stopped =>
           \E i \in DOMAIN ready_queue : ready_queue[i] = t,
         Dispatch(th, pr)
  PROVE  /\ ready_queue' \in Seq(THREADS)
         /\ \A i \in DOMAIN ready_queue' : ready_queue'[i] \in threads
         /\ \A i, j \in DOMAIN ready_queue' :
              ready_queue'[i] = ready_queue'[j] => i = j
         /\ \A t \in threads : th[t].status # Stopped =>
              \E i \in DOMAIN ready_queue' : ready_queue'[i] = t
         /\ current_thread' \in threads
         /\ th[current_thread'].status # Stopped
         /\ current_proc' = th[current_thread'].proc
         /\ mapped' = MappedFor(current_proc', pr)
<1> DEFINE q == ready_queue
<1>1. PICK n \in 1 .. Len(q) :
        /\ NextIs(th, n)
        /\ ready_queue' = Rotated(q, n)
        /\ current_thread' = q[n]
        /\ current_proc' = th[q[n]].proc
        /\ mapped' = MappedFor(th[q[n]].proc, pr)
  BY DEF Dispatch
<1>2. /\ ready_queue' \in Seq(THREADS)
      /\ Len(ready_queue') = Len(q) - n + 1
      /\ \A k \in 1 .. Len(q) - n : ready_queue'[k] = q[n + k]
      /\ ready_queue'[Len(q) - n + 1] = q[n]
  <2>1. /\ Rotated(q, n) \in Seq(THREADS)
        /\ Len(Rotated(q, n)) = Len(q) - n + 1
        /\ \A k \in 1 .. Len(q) - n : Rotated(q, n)[k] = q[n + k]
        /\ Rotated(q, n)[Len(q) - n + 1] = q[n]
    BY RotatedFacts
  <2> QED
    BY <1>1, <2>1
<1>3. /\ Len(q) \in Nat
      /\ DOMAIN q = 1 .. Len(q)
      /\ DOMAIN ready_queue' = 1 .. Len(q) - n + 1
  BY <1>2
<1> DEFINE Old(k) == IF k = Len(q) - n + 1 THEN n ELSE n + k
<1>4. \A k \in DOMAIN ready_queue' :
        Old(k) \in DOMAIN q /\ ready_queue'[k] = q[Old(k)]
  BY <1>1, <1>2, <1>3
<1>5. \A j, k \in DOMAIN ready_queue' : Old(j) = Old(k) => j = k
  BY <1>1, <1>3
<1>6. \A i \in DOMAIN ready_queue' : ready_queue'[i] \in threads
  BY <1>4
<1>7. \A i, j \in DOMAIN ready_queue' :
        ready_queue'[i] = ready_queue'[j] => i = j
  BY <1>4, <1>5
<1>8. ASSUME NEW t \in threads, th[t].status # Stopped
      PROVE  \E i \in DOMAIN ready_queue' : ready_queue'[i] = t
  <2>1. PICK i \in 1 .. Len(q) : q[i] = t
    BY <1>3, <1>8
  <2>2. i >= n
    BY <1>1, <1>8, <2>1 DEF NextIs
  <2>3. CASE i = n
    BY <1>1, <1>2, <1>3, <2>1, <2>3
  <2>4. CASE i > n
    <3>1. i - n \in 1 .. Len(q) - n /\ n + (i - n) = i
      BY <1>1, <1>3, <2>1, <2>4
    <3>2. ready_queue'[i - n] = t
      BY <1>2, <2>1, <3>1
    <3>3. i - n \in DOMAIN ready_queue'
      BY <1>3, <3>1
    <3> QED
      BY <3>2, <3>3
  <2> QED
    BY <1>1, <2>1, <2>2, <2>3, <2>4
<1>9. current_thread' \in threads /\ th[current_thread'].status # Stopped
  BY <1>1, <1>3 DEF NextIs
<1> QED
  BY <1>1, <1>2, <1>6, <1>7, <1>8, <1>9
-----------------------------------------------------------------------------
LEMMA InitInv == Init => IInv
<1> SUFFICES ASSUME Init PROVE IInv
  OBVIOUS
<1> USE SchedAssumption DEF Init
<1>1. TypeOK
  BY DEF TypeOK, Thread, Ids, RaxOf, Pending, Stopped
<1>2. KernelLive
  BY DEF KernelLive, LiveThread, Pending, Stopped
<1>3. QueueHoldsLive
  BY DEF QueueHoldsLive, LiveThread
<1>4. RunsInOwnMemory /\ OneThread /\ MapsTaken /\ PrivateMemory /\ ChildrenTaken
  BY DEF RunsInOwnMemory, OneThread, MapsTaken, PrivateMemory, ChildrenTaken,
         LiveThread, Pending, Stopped
<1> QED
  BY <1>1, <1>2, <1>3, <1>4 DEF IInv

\* Both allocators return an identifier or -1, and marking stays in the table.
LEMMA IdFacts ==
  ASSUME NEW table \in SUBSET Ids, NEW id \in Ids \cup {NoId}
  PROVE  Marked(table, id) \subseteq Ids
BY DEF Marked

\* Saving the context touches nothing but RAX.
LEMMA SavedFacts ==
  ASSUME TypeOK
  PROVE  /\ ContextSaved \in [THREADS -> Thread]
         /\ \A t \in THREADS : /\ ContextSaved[t].status = thread[t].status
                               /\ ContextSaved[t].proc = thread[t].proc
BY DEF ContextSaved, TypeOK, Thread, RaxOf

\* fork and the first exec: a process with one thread and a map of its own.
LEMMA NewProcessInv ==
  ASSUME IInv,
         NEW t \in THREADS, NEW p \in PROCS, NEW m \in MAPS,
         NEW par \in procs \cup {NULL},
         NewProcess(t, p, m, par)
  PROVE  /\ TypeOK' <=> mapped' \in MAPS \cup {NULL}
         /\ KernelLive'
         /\ QueueHoldsLive'
         /\ OneThread'
         /\ MapsTaken'
         /\ PrivateMemory'
         /\ ChildrenTaken'
         /\ LiveThread(current_thread)'
         /\ (current_proc = thread[current_thread].proc)'
         /\ current_proc # NULL => /\ LiveProc(current_proc)'
                                   /\ proc'[current_proc].vm_map
                                        = proc[current_proc].vm_map
<1> USE SchedAssumption
<1>1. PICK newtid \in Ids \cup {NoId}, newpid \in Ids \cup {NoId} :
        /\ t \notin threads /\ p \notin procs /\ m \notin maps
        /\ tid_table' = Marked(tid_table, newtid)
        /\ pid_table' = Marked(pid_table, newpid)
        /\ threads' = threads \cup {t}
        /\ procs' = procs \cup {p}
        /\ maps' = maps \cup {m}
        /\ thread' = [ContextSaved EXCEPT ![t] =
                        [tid |-> newtid, status |-> Pending, proc |-> p,
                         rax |-> "own"]]
        /\ proc' = ProcessesWith(p, newpid, par, t, m)
        /\ ready_queue' = Enqueue(ready_queue, t)
        /\ UNCHANGED <<current_thread, current_proc, irq0>>
  BY DEF NewProcess, NewMap
<1>2. TypeOK /\ KernelLive /\ QueueHoldsLive /\ RunsInOwnMemory /\ OneThread
        /\ MapsTaken /\ PrivateMemory /\ ChildrenTaken
  BY DEF IInv
<1>3. par = NULL \/ (par \in procs /\ par # p /\ par # NULL)
  BY <1>1, <1>2 DEF TypeOK
\* The threads: the new one, and the old ones but for RAX.
<1>4. /\ thread' \in [THREADS -> Thread]
      /\ thread'[t] = [tid |-> newtid, status |-> Pending, proc |-> p,
                       rax |-> "own"]
      /\ \A u \in threads : /\ u # t
                            /\ thread'[u].status = thread[u].status
                            /\ thread'[u].proc = thread[u].proc
  <2>1. [tid |-> newtid, status |-> Pending, proc |-> p, rax |-> "own"]
          \in Thread
    BY DEF Thread, RaxOf
  <2> QED
    BY <1>1, <1>2, <2>1, SavedFacts DEF TypeOK
\* The processes: the new one, and the old ones but for their child lists.
<1>5. /\ proc' \in [PROCS -> Process \cup {NULL}]
      /\ proc'[p] \in Process
      /\ proc'[p].status = Pending
      /\ proc'[p].threads = <<t>>
      /\ proc'[p].vm_map = m
      /\ proc'[p].child = <<>>
  <2>1. [pid |-> newpid, status |-> Pending, parent |-> par, child |-> <<>>,
         threads |-> <<t>>, vm_map |-> m] \in Process
    BY <1>2 DEF Process, TypeOK
  <2>2. ASSUME par \in procs
        PROVE  [proc[par] EXCEPT !.child = Append(@, p)] \in Process
    <3>1. proc[par] \in Process
      BY <1>2, <2>2 DEF TypeOK
    <3>2. Append(proc[par].child, p) \in Seq(PROCS)
      BY <3>1 DEF Process
    <3> QED
      BY <3>1, <3>2 DEF Process
  <2> QED
    BY <1>1, <1>2, <1>3, <2>1, <2>2 DEF ProcessesWith, TypeOK
<1>6. \A q \in procs : /\ q # p
                       /\ proc'[q] \in Process
                       /\ proc'[q].status = proc[q].status
                       /\ proc'[q].threads = proc[q].threads
                       /\ proc'[q].vm_map = proc[q].vm_map
                       /\ SetOf(proc'[q].child) \subseteq SetOf(proc[q].child) \cup {p}
  <2> TAKE q \in procs
  <2>1. q # p /\ q \in PROCS /\ proc[q] \in Process
    BY <1>1, <1>2 DEF TypeOK
  <2>2. CASE q = par
    <3>1. proc'[q] = [proc[q] EXCEPT !.child = Append(@, p)]
      BY <1>1, <2>1, <2>2 DEF ProcessesWith
    <3>2. /\ Append(proc[q].child, p) \in Seq(PROCS)
          /\ SetOf(Append(proc[q].child, p)) \subseteq SetOf(proc[q].child) \cup {p}
      <4>1. proc[q].child \in Seq(PROCS)
        BY <2>1 DEF Process
      <4> QED
        BY <4>1 DEF SetOf
    <3> QED
      BY <2>1, <3>1, <3>2 DEF Process
  <2>3. CASE q # par
    BY <1>1, <2>1, <2>3 DEF ProcessesWith
  <2> QED
    BY <2>2, <2>3
<1>7. /\ ready_queue' \in Seq(THREADS)
      /\ Len(ready_queue') = Len(ready_queue) + 1
      /\ \A k \in 1 .. Len(ready_queue) : ready_queue'[k] = ready_queue[k]
      /\ ready_queue'[Len(ready_queue) + 1] = t
      /\ Len(ready_queue) \in Nat
      /\ DOMAIN ready_queue = 1 .. Len(ready_queue)
      /\ DOMAIN ready_queue' = 1 .. Len(ready_queue) + 1
  <2>1. ready_queue \in Seq(THREADS)
    BY <1>2 DEF TypeOK
  <2>2. t \in THREADS
    OBVIOUS
  <2>3. /\ Enqueue(ready_queue, t) \in Seq(THREADS)
        /\ Len(Enqueue(ready_queue, t)) = Len(ready_queue) + 1
        /\ \A k \in 1 .. Len(ready_queue) :
             Enqueue(ready_queue, t)[k] = ready_queue[k]
        /\ Enqueue(ready_queue, t)[Len(ready_queue) + 1] = t
    BY ONLY <2>1, <2>2, EnqueueFacts
  <2>4. ready_queue' = Enqueue(ready_queue, t)
    BY <1>1
  <2> QED
    BY <2>1, <2>3, <2>4
<1>8. TypeOK' <=> mapped' \in MAPS \cup {NULL}
  BY <1>1, <1>2, <1>4, <1>5, <1>6, <1>7, IdFacts DEF TypeOK
<1>9. KernelLive'
  BY <1>1, <1>2, <1>4 DEF KernelLive, LiveThread
<1>10. QueueHoldsLive'
  <2>1. \A i \in DOMAIN ready_queue' : ready_queue'[i] \in threads'
    BY <1>1, <1>2, <1>7 DEF QueueHoldsLive
  <2>2. \A i, j \in DOMAIN ready_queue' :
          ready_queue'[i] = ready_queue'[j] => i = j
    BY <1>1, <1>2, <1>7 DEF QueueHoldsLive
  <2>3. \A u \in THREADS : LiveThread(u)' =>
          \E i \in DOMAIN ready_queue' : ready_queue'[i] = u
    BY <1>1, <1>2, <1>4, <1>7 DEF QueueHoldsLive, LiveThread
  <2> QED
    BY <2>1, <2>2, <2>3 DEF QueueHoldsLive
<1>11. OneThread'
  <2>1. ASSUME NEW q \in procs'
        PROVE  \E u \in threads' : /\ proc'[q].threads = <<u>>
                                   /\ thread'[u].proc = q
                                   /\ thread'[u].status = proc'[q].status
    BY <1>1, <1>2, <1>4, <1>5, <1>6 DEF OneThread
  <2>2. ASSUME NEW u \in threads', thread'[u].proc # NULL
        PROVE  /\ thread'[u].proc \in procs'
               /\ proc'[thread'[u].proc].threads = <<u>>
    BY <1>1, <1>2, <1>4, <1>5, <1>6, <2>2 DEF OneThread
  <2> QED
    BY <2>1, <2>2 DEF OneThread
<1>12. MapsTaken' /\ PrivateMemory' /\ ChildrenTaken'
  <2>1. MapsTaken' /\ PrivateMemory'
    BY <1>1, <1>2, <1>5, <1>6 DEF MapsTaken, PrivateMemory
  <2>2. ASSUME NEW q \in procs'
        PROVE  SetOf(proc'[q].child) \subseteq procs'
    <3>1. CASE q = p
      BY <1>5, <3>1 DEF SetOf
    <3>2. CASE q \in procs
      BY <1>1, <1>2, <1>6, <3>2 DEF ChildrenTaken
    <3> QED
      BY <1>1, <2>2, <3>1, <3>2
  <2> QED
    BY <2>1, <2>2 DEF ChildrenTaken
<1>13. /\ LiveThread(current_thread)'
       /\ (current_proc = thread[current_thread].proc)'
       /\ current_proc # NULL => /\ LiveProc(current_proc)'
                                 /\ proc'[current_proc].vm_map
                                      = proc[current_proc].vm_map
  BY <1>1, <1>2, <1>4, <1>6 DEF RunsInOwnMemory, LiveThread, LiveProc
<1> QED
  BY <1>8, <1>9, <1>10, <1>11, <1>12, <1>13
-----------------------------------------------------------------------------
\* The timer interrupt: nothing but RAX, the queue and what runs.
LEMMA TimerTickInv == ASSUME IInv, TimerTick PROVE IInv'
<1> USE SchedAssumption
<1>1. TypeOK /\ KernelLive /\ QueueHoldsLive /\ RunsInOwnMemory /\ OneThread
        /\ MapsTaken /\ PrivateMemory /\ ChildrenTaken
  BY DEF IInv
<1>2. /\ Dispatch(ContextSaved, proc)
      /\ thread' = ContextSaved
      /\ UNCHANGED <<threads, procs, proc, maps, tid_table, pid_table, irq0>>
  BY DEF TimerTick
<1>3. /\ thread' \in [THREADS -> Thread]
      /\ \A t \in THREADS : /\ thread'[t].status = thread[t].status
                            /\ thread'[t].proc = thread[t].proc
  BY <1>1, <1>2, SavedFacts
<1>4. /\ ready_queue' \in Seq(THREADS)
      /\ \A i \in DOMAIN ready_queue' : ready_queue'[i] \in threads
      /\ \A i, j \in DOMAIN ready_queue' :
           ready_queue'[i] = ready_queue'[j] => i = j
      /\ \A t \in threads : ContextSaved[t].status # Stopped =>
           \E i \in DOMAIN ready_queue' : ready_queue'[i] = t
      /\ current_thread' \in threads
      /\ ContextSaved[current_thread'].status # Stopped
      /\ current_proc' = ContextSaved[current_thread'].proc
      /\ mapped' = MappedFor(current_proc', proc)
  <2>1. /\ ready_queue \in Seq(THREADS)
        /\ \A i \in DOMAIN ready_queue : ready_queue[i] \in threads
        /\ \A i, j \in DOMAIN ready_queue :
             ready_queue[i] = ready_queue[j] => i = j
        /\ \A t \in threads : ContextSaved[t].status # Stopped =>
             \E i \in DOMAIN ready_queue : ready_queue[i] = t
    BY <1>1, SavedFacts DEF TypeOK, QueueHoldsLive, LiveThread
  <2> QED
    BY <1>2, <2>1, DispatchFacts
<1>5. current_proc' # NULL => current_proc' \in procs
  BY <1>1, <1>2, <1>3, <1>4 DEF OneThread, TypeOK
<1>6. TypeOK'
  BY <1>1, <1>2, <1>3, <1>4, <1>5 DEF TypeOK, MappedFor, Process
<1>7. KernelLive'
  BY <1>1, <1>2, <1>3 DEF KernelLive, LiveThread, TypeOK
<1>8. QueueHoldsLive'
  BY <1>2, <1>4 DEF QueueHoldsLive, LiveThread
<1>9. OneThread'
  BY <1>1, <1>2, <1>3 DEF OneThread, TypeOK
<1>10. RunsInOwnMemory'
  <2>1. LiveThread(current_thread)' /\ (current_proc = thread[current_thread].proc)'
    BY <1>2, <1>4 DEF LiveThread
  <2>2. ASSUME current_proc' # NULL
        PROVE  LiveProc(current_proc)' /\ mapped' = proc'[current_proc'].vm_map
    <3>1. proc[current_proc'].threads = <<current_thread'>>
      BY <1>1, <1>2, <1>3, <1>4, <2>2 DEF OneThread, TypeOK
    <3>2. proc[current_proc'].status = thread[current_thread'].status
      BY <1>1, <1>5, <2>2, <3>1 DEF OneThread
    <3> QED
      BY <1>1, <1>2, <1>3, <1>4, <1>5, <2>2, <3>2 DEF LiveProc, MappedFor, TypeOK
  <2> QED
    BY <2>1, <2>2 DEF RunsInOwnMemory
<1>11. MapsTaken' /\ PrivateMemory' /\ ChildrenTaken'
  BY <1>1, <1>2 DEF MapsTaken, PrivateMemory, ChildrenTaken
<1> QED
  BY <1>6, <1>7, <1>8, <1>9, <1>10, <1>11 DEF IInv

\* The one thread of the current process, and what exit marks stopped: that
\* thread, which is not the kernel thread, and that process.
LEMMA ExitFacts ==
  ASSUME IInv, current_proc # NULL
  PROVE  /\ proc[current_proc].threads = <<current_thread>>
         /\ current_proc \in procs
         /\ \A t \in THREADS :
              ThreadsAfterExit(current_proc)[t] =
                IF t = current_thread THEN [thread[t] EXCEPT !.status = Stopped]
                                      ELSE thread[t]
         /\ current_thread # KernelThread
         /\ ThreadsAfterExit(current_proc) \in [THREADS -> Thread]
         /\ ProcessesAfterExit(current_proc) \in [PROCS -> Process \cup {NULL}]
         /\ \A p \in procs :
              /\ ProcessesAfterExit(current_proc)[p] \in Process
              /\ ProcessesAfterExit(current_proc)[p].threads = proc[p].threads
              /\ ProcessesAfterExit(current_proc)[p].vm_map = proc[p].vm_map
              /\ ProcessesAfterExit(current_proc)[p].child = proc[p].child
              /\ ProcessesAfterExit(current_proc)[p].status =
                   IF p = current_proc THEN Stopped ELSE proc[p].status
<1>1. TypeOK /\ KernelLive /\ RunsInOwnMemory /\ OneThread /\ ChildrenTaken
  BY DEF IInv
<1>2. /\ proc[current_proc].threads = <<current_thread>>
      /\ current_proc \in procs
      /\ current_thread # KernelThread
  BY <1>1 DEF RunsInOwnMemory, OneThread, LiveThread, LiveProc, KernelLive
<1>3. SetOf(proc[current_proc].threads) = {current_thread}
  BY <1>2 DEF SetOf
<1>4. \A t \in THREADS :
        ThreadsAfterExit(current_proc)[t] =
          IF t = current_thread THEN [thread[t] EXCEPT !.status = Stopped]
                                ELSE thread[t]
  BY <1>3 DEF ThreadsAfterExit
<1>5. ThreadsAfterExit(current_proc) \in [THREADS -> Thread]
  <2>1. \A t \in THREADS : [thread[t] EXCEPT !.status = Stopped] \in Thread
    BY <1>1 DEF TypeOK, Thread
  <2> QED
    BY <1>1, <2>1 DEF ThreadsAfterExit, TypeOK
<1>6. ASSUME NEW p \in PROCS, proc[p] \in Process
      PROVE  /\ ProcessesAfterExit(current_proc)[p] \in Process
             /\ ProcessesAfterExit(current_proc)[p].threads = proc[p].threads
             /\ ProcessesAfterExit(current_proc)[p].vm_map = proc[p].vm_map
             /\ ProcessesAfterExit(current_proc)[p].child = proc[p].child
             /\ ProcessesAfterExit(current_proc)[p].status =
                  IF p = current_proc THEN Stopped ELSE proc[p].status
  <2>1. CASE p = current_proc
    BY <1>6, <2>1 DEF ProcessesAfterExit, Process
  <2>2. CASE p # current_proc
    <3>1. proc[current_proc].parent \in PROCS \cup {NULL}
      BY <1>1, <1>2 DEF TypeOK, Process
    <3>2. [proc[p] EXCEPT !.parent = proc[current_proc].parent] \in Process
      BY <1>6, <3>1 DEF Process
    <3> QED
      BY <1>6, <2>2, <3>2 DEF ProcessesAfterExit, Process
  <2> QED
    BY <2>1, <2>2
<1>7. ASSUME NEW p \in PROCS, p \notin procs
      PROVE  ProcessesAfterExit(current_proc)[p] = proc[p]
  BY <1>1, <1>2, <1>7 DEF ProcessesAfterExit, ChildrenTaken
<1> QED
  BY <1>1, <1>2, <1>4, <1>5, <1>6, <1>7 DEF TypeOK, ProcessesAfterExit
-----------------------------------------------------------------------------
\* exit: the queue still holds every thread that is live after it.
LEMMA ExitInv == ASSUME IInv, Exit PROVE IInv'
<1> DEFINE th == ThreadsAfterExit(current_proc)
           pr == ProcessesAfterExit(current_proc)
<1>1. TypeOK /\ KernelLive /\ QueueHoldsLive /\ RunsInOwnMemory /\ OneThread
        /\ MapsTaken /\ PrivateMemory /\ ChildrenTaken
  BY DEF IInv
<1>2. /\ current_proc # NULL
      /\ Dispatch(th, pr)
      /\ proc' = pr
      /\ thread' = [th EXCEPT ![current_thread'].rax = "foreign"]
      /\ UNCHANGED <<threads, procs, maps, tid_table, pid_table, irq0>>
  BY DEF Exit
<1>3. /\ th \in [THREADS -> Thread]
      /\ \A t \in THREADS :
           /\ th[t].proc = thread[t].proc
           /\ th[t].status = IF t = current_thread THEN Stopped
                                                   ELSE thread[t].status
  BY <1>1, <1>2, ExitFacts DEF TypeOK, Thread
<1>4. /\ pr \in [PROCS -> Process \cup {NULL}]
      /\ current_proc \in procs
      /\ proc[current_proc].threads = <<current_thread>>
      /\ current_thread # KernelThread
      /\ \A p \in procs :
           /\ pr[p] \in Process
           /\ pr[p].threads = proc[p].threads
           /\ pr[p].vm_map = proc[p].vm_map
           /\ pr[p].child = proc[p].child
           /\ pr[p].status = IF p = current_proc THEN Stopped ELSE proc[p].status
  BY <1>2, ExitFacts
<1> HIDE DEF th, pr
<1>5. /\ ready_queue' \in Seq(THREADS)
      /\ \A i \in DOMAIN ready_queue' : ready_queue'[i] \in threads
      /\ \A i, j \in DOMAIN ready_queue' :
           ready_queue'[i] = ready_queue'[j] => i = j
      /\ \A t \in threads : th[t].status # Stopped =>
           \E i \in DOMAIN ready_queue' : ready_queue'[i] = t
      /\ current_thread' \in threads
      /\ th[current_thread'].status # Stopped
      /\ current_proc' = th[current_thread'].proc
      /\ mapped' = MappedFor(current_proc', pr)
  <2>1. /\ ready_queue \in Seq(THREADS)
        /\ \A i \in DOMAIN ready_queue : ready_queue[i] \in threads
        /\ \A i, j \in DOMAIN ready_queue :
             ready_queue[i] = ready_queue[j] => i = j
        /\ \A t \in threads : th[t].status # Stopped =>
             \E i \in DOMAIN ready_queue : ready_queue[i] = t
    BY <1>1, <1>3 DEF TypeOK, QueueHoldsLive, LiveThread
  <2> QED
    BY <1>2, <2>1, DispatchFacts
<1>6. /\ thread' \in [THREADS -> Thread]
      /\ \A t \in THREADS : /\ thread'[t].proc = thread[t].proc
                            /\ thread'[t].status = th[t].status
  BY <1>1, <1>2, <1>3, <1>5 DEF Thread, RaxOf
<1>7. current_proc' # NULL => current_proc' \in procs
  BY <1>1, <1>3, <1>5 DEF OneThread, TypeOK
<1>8. TypeOK'
  BY <1>1, <1>2, <1>4, <1>5, <1>6, <1>7 DEF TypeOK, MappedFor, Process
<1>9. KernelLive'
  BY <1>1, <1>2, <1>3, <1>4, <1>6 DEF KernelLive, LiveThread, TypeOK
<1>10. QueueHoldsLive'
  BY <1>1, <1>2, <1>5, <1>6 DEF QueueHoldsLive, LiveThread, TypeOK
\* The thread and the process of exit are each other's only one.
<1>11. OneThread'
  <2>1. ASSUME NEW p \in procs
        PROVE  \E t \in threads : /\ proc'[p].threads = <<t>>
                                  /\ thread'[t].proc = p
                                  /\ thread'[t].status = proc'[p].status
    <3>1. PICK t \in threads : /\ proc[p].threads = <<t>>
                               /\ thread[t].proc = p
                               /\ thread[t].status = proc[p].status
      BY <1>1 DEF OneThread
    <3>2. t = current_thread <=> p = current_proc
      BY <1>1, <1>4, <3>1 DEF RunsInOwnMemory
    <3> QED
      BY <1>1, <1>2, <1>3, <1>4, <1>6, <3>1, <3>2 DEF TypeOK
  <2>2. \A t \in threads : thread'[t].proc # NULL =>
          thread'[t].proc \in procs /\ proc'[thread'[t].proc].threads = <<t>>
    BY <1>1, <1>2, <1>4, <1>6 DEF OneThread, TypeOK
  <2> QED
    BY <1>2, <2>1, <2>2 DEF OneThread
<1>12. RunsInOwnMemory'
  <2>1. LiveThread(current_thread)' /\ (current_proc = thread[current_thread].proc)'
    BY <1>1, <1>2, <1>3, <1>5, <1>6 DEF LiveThread, TypeOK
  <2>2. ASSUME current_proc' # NULL
        PROVE  LiveProc(current_proc)' /\ mapped' = proc'[current_proc'].vm_map
    <3>1. PICK t \in threads :
            /\ proc'[current_proc'].threads = <<t>>
            /\ thread'[t].status = proc'[current_proc'].status
      BY <1>2, <1>7, <1>11, <2>2 DEF OneThread
    <3>2. proc'[current_proc'].threads = <<current_thread'>>
      BY <1>2, <1>11, <2>1, <2>2 DEF OneThread, LiveThread
    <3>3. t = current_thread'
      BY <3>1, <3>2
    <3> QED
      BY <1>2, <1>5, <1>7, <2>1, <2>2, <3>1, <3>3
         DEF LiveProc, LiveThread, MappedFor
  <2> QED
    BY <2>1, <2>2 DEF RunsInOwnMemory
<1>13. MapsTaken' /\ PrivateMemory' /\ ChildrenTaken'
  BY <1>1, <1>2, <1>4 DEF MapsTaken, PrivateMemory, ChildrenTaken
<1> QED
  BY <1>8, <1>9, <1>10, <1>11, <1>12, <1>13 DEF IInv

\* exec from a process: the thread starts over, its process gets a new map.
LEMMA ExecInv == ASSUME IInv, NEW m \in MAPS, Exec(m) PROVE IInv'
<1> USE SchedAssumption
<1>1. TypeOK /\ KernelLive /\ QueueHoldsLive /\ RunsInOwnMemory /\ OneThread
        /\ MapsTaken /\ PrivateMemory /\ ChildrenTaken
  BY DEF IInv
<1>2. PICK newtid \in Ids \cup {NoId} :
        /\ tid_table' = Marked(tid_table, newtid)
        /\ thread' = [thread EXCEPT ![current_thread] =
                        [tid |-> newtid, status |-> Pending,
                         proc |-> current_proc, rax |-> "own"]]
  BY DEF Exec, NewMap
<1>3. /\ current_proc # NULL
      /\ m \notin maps
      /\ maps' = maps \cup {m}
      /\ mapped' = m
      /\ proc' = [proc EXCEPT ![current_proc].vm_map = m]
      /\ UNCHANGED <<ready_queue, current_thread, current_proc, threads, procs,
                     pid_table, irq0>>
  BY DEF Exec, NewMap
<1>4. /\ current_thread \in threads
      /\ current_proc \in procs
      /\ thread[current_thread].proc = current_proc
      /\ thread[current_thread].status = Pending
      /\ proc[current_proc].threads = <<current_thread>>
      /\ current_thread # KernelThread
  BY <1>1, <1>3 DEF RunsInOwnMemory, OneThread, LiveThread, LiveProc, KernelLive,
                    TypeOK, Thread
<1>5. /\ thread' \in [THREADS -> Thread]
      /\ \A t \in THREADS : /\ thread'[t].status = thread[t].status
                            /\ thread'[t].proc = thread[t].proc
  <2>1. [tid |-> newtid, status |-> Pending, proc |-> current_proc,
         rax |-> "own"] \in Thread
    BY <1>1, <1>3 DEF Thread, RaxOf, TypeOK
  <2> QED
    BY <1>1, <1>2, <1>4, <2>1 DEF TypeOK
<1>6. /\ proc' \in [PROCS -> Process \cup {NULL}]
      /\ \A p \in procs :
           /\ proc'[p] \in Process
           /\ proc'[p].status = proc[p].status
           /\ proc'[p].threads = proc[p].threads
           /\ proc'[p].child = proc[p].child
           /\ proc'[p].vm_map = IF p = current_proc THEN m ELSE proc[p].vm_map
  <2>1. proc[current_proc] \in Process
    BY <1>1, <1>4 DEF TypeOK
  <2>2. [proc[current_proc] EXCEPT !.vm_map = m] \in Process
    BY <2>1 DEF Process
  <2> QED
    BY <1>1, <1>3, <1>4, <2>1, <2>2 DEF TypeOK, Process
<1>7. TypeOK'
  BY <1>1, <1>2, <1>3, <1>5, <1>6, IdFacts DEF TypeOK
<1>8. KernelLive' /\ QueueHoldsLive'
  BY <1>1, <1>3, <1>5 DEF KernelLive, QueueHoldsLive, LiveThread, TypeOK
<1>9. OneThread'
  BY <1>1, <1>3, <1>5, <1>6 DEF OneThread, TypeOK
<1>10. RunsInOwnMemory'
  BY <1>1, <1>3, <1>4, <1>5, <1>6 DEF RunsInOwnMemory, LiveThread, LiveProc, TypeOK
<1>11. MapsTaken' /\ PrivateMemory' /\ ChildrenTaken'
  BY <1>1, <1>3, <1>6 DEF MapsTaken, PrivateMemory, ChildrenTaken
<1> QED
  BY <1>7, <1>8, <1>9, <1>10, <1>11 DEF IInv
-----------------------------------------------------------------------------
\* Every step of the scheduler preserves the invariant.
LEMMA NextInv == ASSUME IInv, [Next]_vars PROVE IInv'
<1> USE SchedAssumption
<1>1. TypeOK /\ KernelLive /\ QueueHoldsLive /\ RunsInOwnMemory /\ OneThread
        /\ MapsTaken /\ PrivateMemory /\ ChildrenTaken
  BY DEF IInv
<1>2. CASE UnmaskTimer
  BY <1>1, <1>2 DEF UnmaskTimer, IInv, TypeOK, KernelLive, QueueHoldsLive,
     RunsInOwnMemory, OneThread, MapsTaken, PrivateMemory, ChildrenTaken,
     LiveThread, LiveProc
<1>3. CASE TimerTick
  BY <1>3, TimerTickInv
<1>4. CASE ForkNoMemory
  <2>1. /\ thread' = ContextSaved
        /\ tid_table' \subseteq Ids
        /\ UNCHANGED <<ready_queue, current_thread, current_proc, threads, procs,
                       proc, maps, mapped, pid_table, irq0>>
    BY <1>1, <1>4, IdFacts DEF ForkNoMemory, TypeOK
  <2>2. /\ thread' \in [THREADS -> Thread]
        /\ \A t \in THREADS : /\ thread'[t].status = thread[t].status
                              /\ thread'[t].proc = thread[t].proc
    BY <1>1, <2>1, SavedFacts
  <2>3. TypeOK'
    BY <1>1, <2>1, <2>2 DEF TypeOK
  <2>4. KernelLive' /\ QueueHoldsLive' /\ RunsInOwnMemory' /\ OneThread'
    BY <1>1, <2>1, <2>2 DEF KernelLive, QueueHoldsLive, RunsInOwnMemory,
       OneThread, LiveThread, LiveProc, TypeOK
  <2>5. MapsTaken' /\ PrivateMemory' /\ ChildrenTaken'
    BY <1>1, <2>1 DEF MapsTaken, PrivateMemory, ChildrenTaken
  <2> QED
    BY <2>3, <2>4, <2>5 DEF IInv
<1>5. CASE Exit
  BY <1>5, ExitInv
<1>6. CASE \E m \in MAPS : Exec(m)
  BY <1>6, ExecInv
<1>7. ASSUME NEW t \in THREADS, NEW p \in PROCS, NEW m \in MAPS,
             ExecFirst(t, p, m)
      PROVE  IInv'
  <2>1. current_proc = NULL /\ mapped' = m /\ NewProcess(t, p, m, NULL)
    BY <1>7 DEF ExecFirst
  <2>2. UNCHANGED current_proc
    BY <2>1 DEF NewProcess, NewMap
  <2> QED
    BY <2>1, <2>2, NewProcessInv DEF IInv, RunsInOwnMemory
<1>8. ASSUME NEW t \in THREADS, NEW p \in PROCS, NEW m \in MAPS, Fork(t, p, m)
      PROVE  IInv'
  <2>1. /\ current_proc # NULL
        /\ current_proc \in procs
        /\ mapped' = mapped
        /\ NewProcess(t, p, m, current_proc)
    BY <1>1, <1>8 DEF Fork, RunsInOwnMemory, LiveProc
  <2>2. UNCHANGED current_proc
    BY <2>1 DEF NewProcess, NewMap
  <2>3. mapped' = proc[current_proc].vm_map /\ mapped' \in MAPS \cup {NULL}
    BY <1>1, <2>1 DEF RunsInOwnMemory, TypeOK
  <2> QED
    BY <2>1, <2>2, <2>3, NewProcessInv DEF IInv, RunsInOwnMemory
<1>9. CASE UNCHANGED vars
  BY <1>1, <1>9 DEF vars, IInv, TypeOK, KernelLive, QueueHoldsLive,
     RunsInOwnMemory, OneThread, MapsTaken, PrivateMemory, ChildrenTaken,
     LiveThread, LiveProc
<1> QED
  BY <1>2, <1>3, <1>4, <1>5, <1>6, <1>7, <1>8, <1>9 DEF Next

LEMMA Invariance == Spec => []IInv
BY InitInv, NextInv, PTL DEF Spec

\* Every variable keeps its type: no full identifier table is written outside.
THEOREM TypeCorrect == Spec => []TypeOK
<1>1. IInv => TypeOK
  BY DEF IInv
<1> QED
  BY Invariance, <1>1, PTL

\* The ready queue holds every live thread once, whatever the number of threads.
THEOREM QueueCorrect == Spec => []QueueHoldsLive
<1>1. IInv => QueueHoldsLive
  BY DEF IInv
<1> QED
  BY Invariance, <1>1, PTL

\* assert(load_thread != NULL) of sched never fails: the kernel thread is
\* queued and live, and no exit stops it.
THEOREM AssertNeverFails == Spec => []AssertHolds
<1>1. IInv => AssertHolds
  <2> SUFFICES ASSUME IInv PROVE AssertHolds
    OBVIOUS
  <2>1. PICK i \in DOMAIN ready_queue : ready_queue[i] = KernelThread
    BY SchedAssumption DEF IInv, KernelLive, QueueHoldsLive
  <2> QED
    BY <2>1 DEF IInv, KernelLive, AssertHolds
<1> QED
  BY Invariance, <1>1, PTL

\* What runs is live, in its own process, in its own memory, which it shares
\* with no other process.
THEOREM MemoryCorrect == Spec => [](RunsInOwnMemory /\ PrivateMemory)
<1>1. IInv => RunsInOwnMemory /\ PrivateMemory
  BY DEF IInv
<1> QED
  BY Invariance, <1>1, PTL

\* A process and its thread point at each other and stop together.
THEOREM OneThreadCorrect == Spec => []OneThread
<1>1. IInv => OneThread
  BY DEF IInv
<1> QED
  BY Invariance, <1>1, PTL
-----------------------------------------------------------------------------
\* What a new process changes of the threads that are there already: nothing
\* but RAX, and neither what runs.
LEMMA NewProcessThreads ==
  ASSUME IInv, NEW t \in THREADS, NEW p \in PROCS, NEW m \in MAPS, NEW par,
         NewProcess(t, p, m, par)
  PROVE  /\ current_thread' = current_thread
         /\ \A u \in threads : thread'[u].status = thread[u].status
<1>1. PICK newtid \in Ids \cup {NoId} :
        /\ t \notin threads
        /\ thread' = [ContextSaved EXCEPT ![t] =
                        [tid |-> newtid, status |-> Pending, proc |-> p,
                         rax |-> "own"]]
        /\ current_thread' = current_thread
  BY DEF NewProcess
<1> QED
  BY <1>1, SavedFacts DEF IInv, TypeOK

\* A thread that is stopped is not the one that runs, and no step starts it.
LEMMA StoppedStays ==
  ASSUME IInv, Next, NEW t \in threads, thread[t].status = Stopped
  PROVE  thread'[t].status = Stopped /\ current_thread' # t
<1>1. /\ TypeOK /\ QueueHoldsLive
      /\ current_thread # t
      /\ t \in THREADS
  BY DEF IInv, RunsInOwnMemory, LiveThread, TypeOK
<1>2. CASE UnmaskTimer
  BY <1>1, <1>2 DEF UnmaskTimer
<1>3. CASE TimerTick
  <2>1. Dispatch(ContextSaved, proc) /\ thread' = ContextSaved
    BY <1>3 DEF TimerTick
  <2>2. \A u \in THREADS : ContextSaved[u].status = thread[u].status
    BY <1>1, SavedFacts
  <2>3. ContextSaved[current_thread'].status # Stopped
    BY <1>1, <2>1, <2>2, DispatchFacts DEF TypeOK, QueueHoldsLive, LiveThread
  <2> QED
    BY <1>1, <2>1, <2>2, <2>3
<1>4. CASE ForkNoMemory
  BY <1>1, <1>4, SavedFacts DEF ForkNoMemory
<1>5. CASE Exit
  <2> DEFINE th == ThreadsAfterExit(current_proc)
  <2>1. /\ current_proc # NULL
        /\ Dispatch(th, ProcessesAfterExit(current_proc))
        /\ thread' = [th EXCEPT ![current_thread'].rax = "foreign"]
    BY <1>5 DEF Exit
  <2>2. /\ th \in [THREADS -> Thread]
        /\ \A u \in THREADS :
             th[u] = IF u = current_thread THEN [thread[u] EXCEPT !.status = Stopped]
                                           ELSE thread[u]
    BY <2>1, ExitFacts
  <2> HIDE DEF th
  <2>3. \A u \in threads : th[u].status # Stopped => LiveThread(u)
    BY <1>1, <2>2 DEF LiveThread, TypeOK, Thread
  <2>4. th[current_thread'].status # Stopped
    BY <1>1, <2>1, <2>3, DispatchFacts DEF TypeOK, QueueHoldsLive
  <2> QED
    BY <1>1, <2>1, <2>2, <2>4
<1>6. CASE \E m \in MAPS : Exec(m)
  BY <1>1, <1>6 DEF Exec, TypeOK
<1>7. CASE \E u \in THREADS, p \in PROCS, m \in MAPS :
             ExecFirst(u, p, m) \/ Fork(u, p, m)
  <2>1. PICK u \in THREADS, p \in PROCS, m \in MAPS :
          NewProcess(u, p, m, NULL) \/ NewProcess(u, p, m, current_proc)
    BY <1>7 DEF ExecFirst, Fork
  <2> QED
    BY <1>1, <2>1, NewProcessThreads
<1> QED
  BY <1>2, <1>3, <1>4, <1>5, <1>6, <1>7 DEF Next

\* What exit has stopped is never dispatched again, though it is left in the
\* ready queue, and nothing makes it live.
THEOREM StoppedStaysStopped == Spec => StoppedForGood
<1>1. IInv /\ [Next]_vars =>
        [\A t \in threads :
           thread[t].status = Stopped =>
             thread'[t].status = Stopped /\ current_thread' # t]_vars
  BY StoppedStays
<1> QED
  BY Invariance, <1>1, PTL DEF Spec, StoppedForGood
-----------------------------------------------------------------------------
\* Dispatching keeps the order of the queue but for the thread dispatched.
LEMMA DispatchOrder ==
  ASSUME ready_queue \in Seq(THREADS), NEW th, NEW pr, Dispatch(th, pr),
         NEW t \in THREADS, NEW u \in THREADS, Ahead(ready_queue', u, t)
  PROVE  Ahead(ready_queue, u, t) \/ current_thread' = t
<1> DEFINE q == ready_queue
<1>1. PICK n \in 1 .. Len(q) :
        ready_queue' = Rotated(q, n) /\ current_thread' = q[n]
  BY DEF Dispatch
<1>2. /\ Rotated(q, n) \in Seq(THREADS)
      /\ Len(Rotated(q, n)) = Len(q) - n + 1
      /\ \A k \in 1 .. Len(q) - n : Rotated(q, n)[k] = q[n + k]
      /\ Rotated(q, n)[Len(q) - n + 1] = q[n]
  BY RotatedFacts
<1>3. /\ Len(q) \in Nat
      /\ DOMAIN q = 1 .. Len(q)
      /\ DOMAIN ready_queue' = 1 .. Len(q) - n + 1
  BY <1>1, <1>2
<1>4. PICK i, j \in DOMAIN ready_queue' :
        i < j /\ ready_queue'[i] = u /\ ready_queue'[j] = t
  BY DEF Ahead
<1>5. CASE j = Len(q) - n + 1
  BY <1>1, <1>2, <1>4, <1>5
<1>6. CASE j # Len(q) - n + 1
  <2>1. i \in 1 .. Len(q) - n /\ j \in 1 .. Len(q) - n
    BY <1>3, <1>4, <1>6
  <2>2. /\ n + i \in DOMAIN q /\ n + j \in DOMAIN q /\ n + i < n + j
        /\ q[n + i] = u /\ q[n + j] = t
    BY <1>1, <1>2, <1>3, <1>4, <2>1
  <2> QED
    BY <2>2 DEF Ahead
<1> QED
  BY <1>5, <1>6

\* A new thread goes behind all that wait.
LEMMA EnqueueOrder ==
  ASSUME NEW q \in Seq(THREADS), NEW new \in THREADS, new \notin SetOf(q),
         NEW t \in SetOf(q), NEW u, Ahead(Enqueue(q, new), u, t)
  PROVE  Ahead(q, u, t)
<1>1. /\ Enqueue(q, new) \in Seq(THREADS)
      /\ Len(Enqueue(q, new)) = Len(q) + 1
      /\ \A k \in 1 .. Len(q) : Enqueue(q, new)[k] = q[k]
      /\ Enqueue(q, new)[Len(q) + 1] = new
  BY EnqueueFacts
<1>2. PICK i, j \in 1 .. Len(q) + 1 :
        i < j /\ Enqueue(q, new)[i] = u /\ Enqueue(q, new)[j] = t
  BY <1>1 DEF Ahead
<1>3. Len(q) \in Nat /\ DOMAIN q = 1 .. Len(q)
  OBVIOUS
<1>4. j # Len(q) + 1
  BY <1>1, <1>2
<1>5. i \in 1 .. Len(q) /\ j \in 1 .. Len(q)
  BY <1>2, <1>3, <1>4
<1> QED
  BY <1>1, <1>2, <1>3, <1>5 DEF Ahead

\* No thread that waits is overtaken, except by going round: the queue is
\* first in, first out over fork, exec, exit and the timer.
THEOREM FirstInFirstOut == Spec => NobodyJumpsAhead
<1>1. ASSUME IInv, [Next]_vars
      PROVE  [\A t, u \in THREADS :
                (/\ Ahead(ready_queue', u, t)
                 /\ t \in SetOf(ready_queue)
                 /\ ~ Ahead(ready_queue, u, t)) => current_thread' = t]_vars
  <2> SUFFICES ASSUME Next, NEW t \in THREADS, NEW u \in THREADS,
                      Ahead(ready_queue', u, t), t \in SetOf(ready_queue)
               PROVE  Ahead(ready_queue, u, t) \/ current_thread' = t
    BY <1>1
  <2>1. /\ ready_queue \in Seq(THREADS)
        /\ SetOf(ready_queue) \subseteq threads
    BY <1>1 DEF IInv, TypeOK, QueueHoldsLive, SetOf
  <2>2. CASE UNCHANGED ready_queue
    BY <2>2
  <2>3. ASSUME NEW th, NEW pr, Dispatch(th, pr)
        PROVE  Ahead(ready_queue, u, t) \/ current_thread' = t
    BY <2>1, <2>3, DispatchOrder
  <2>4. ASSUME NEW v \in THREADS, NEW p \in PROCS, NEW m \in MAPS, NEW par,
               NewProcess(v, p, m, par)
        PROVE  Ahead(ready_queue, u, t)
    <3>1. v \notin SetOf(ready_queue) /\ ready_queue' = Enqueue(ready_queue, v)
      BY <2>1, <2>4 DEF NewProcess
    <3> QED
      BY <2>1, <3>1, EnqueueOrder
  <2>5. \/ UNCHANGED ready_queue
        \/ \E th, pr : Dispatch(th, pr)
        \/ \E v \in THREADS, p \in PROCS, m \in MAPS, par \in {NULL, current_proc} :
             NewProcess(v, p, m, par)
    BY DEF Next, UnmaskTimer, TimerTick, ForkNoMemory, Exit, Exec, ExecFirst, Fork
  <2> QED
    BY <2>2, <2>3, <2>4, <2>5
<1> QED
  BY Invariance, <1>1, PTL DEF Spec, NobodyJumpsAhead
-----------------------------------------------------------------------------
\* An identifier in use is marked in its table, unless it is the -1 of a full
\* one; so what an allocator returns next is nobody's.
IdsMarked ==
  /\ \A t \in threads : thread[t].tid \in tid_table \cup {NoId}
  /\ \A p \in procs : proc[p].pid \in pid_table \cup {NoId}

IdInv == IdsMarked /\ IdsDistinct

LEMMA IdAllocFacts ==
  ASSUME NEW table, NEW id \in Ids \cup {NoId}, IdAlloc(table, id)
  PROVE  /\ id = NoId \/ id \notin table
         /\ id \in Marked(table, id) \cup {NoId}
         /\ table \subseteq Marked(table, id)
BY DEF IdAlloc, Marked

\* When no thread and no process but one gets a new identifier, and that one
\* what its allocator returns, identifiers stay distinct.
LEMMA IdStep ==
  ASSUME IInv, IdInv, [Next]_vars PROVE IdInv'
<1>1. /\ TypeOK
      /\ \A t \in threads : thread[t].tid \in tid_table \cup {NoId}
      /\ \A p \in procs : proc[p].pid \in pid_table \cup {NoId}
      /\ IdsDistinct
      /\ ChildrenTaken
  BY DEF IInv, IdInv, IdsMarked
<1>2. \A t \in THREADS : ContextSaved[t].tid = thread[t].tid
  BY <1>1 DEF ContextSaved, TypeOK, Thread
\* No identifier changes.
<1>3. ASSUME /\ \A t \in threads : thread'[t].tid = thread[t].tid
             /\ \A p \in procs : proc'[p].pid = proc[p].pid
             /\ UNCHANGED <<threads, procs, pid_table>>
             /\ tid_table \subseteq tid_table'
      PROVE  IdInv'
  BY <1>1, <1>3 DEF IdInv, IdsMarked, IdsDistinct
<1>4. CASE UnmaskTimer \/ UNCHANGED vars
  BY <1>3, <1>4 DEF UnmaskTimer, vars
<1>5. CASE TimerTick
  BY <1>1, <1>2, <1>3, <1>5 DEF TimerTick, TypeOK
<1>6. CASE ForkNoMemory
  BY <1>1, <1>2, <1>3, <1>6, IdAllocFacts DEF ForkNoMemory, TypeOK
<1>7. CASE Exit
  <2>1. /\ current_proc # NULL
        /\ proc' = ProcessesAfterExit(current_proc)
        /\ thread' = [ThreadsAfterExit(current_proc)
                        EXCEPT ![current_thread'].rax = "foreign"]
        /\ UNCHANGED <<threads, procs, tid_table, pid_table>>
    BY <1>7 DEF Exit
  <2>2. \A t \in threads : thread'[t].tid = thread[t].tid
    BY <1>1, <2>1 DEF ThreadsAfterExit, TypeOK, Thread
  <2>3. \A p \in procs : proc'[p].pid = proc[p].pid
    BY <1>1, <2>1 DEF ProcessesAfterExit, TypeOK, Process
  <2> QED
    BY <1>3, <2>1, <2>2, <2>3
\* exec: the current thread gets a new identifier.
<1>8. CASE \E m \in MAPS : Exec(m)
  <2>1. PICK m \in MAPS, newtid \in Ids \cup {NoId} :
          /\ IdAlloc(tid_table, newtid)
          /\ tid_table' = Marked(tid_table, newtid)
          /\ thread' = [thread EXCEPT ![current_thread] =
                          [tid |-> newtid, status |-> Pending,
                           proc |-> current_proc, rax |-> "own"]]
          /\ proc' = [proc EXCEPT ![current_proc].vm_map = m]
          /\ UNCHANGED <<threads, procs, pid_table>>
    BY <1>8 DEF Exec
  <2>2. \A t \in threads : thread'[t].tid = IF t = current_thread THEN newtid
                                                                 ELSE thread[t].tid
    BY <1>1, <2>1 DEF TypeOK
  <2>3. \A p \in procs : proc'[p].pid = proc[p].pid
    BY <1>1, <2>1 DEF TypeOK, Process
  <2>4. /\ newtid = NoId \/ newtid \notin tid_table
        /\ newtid \in tid_table' \cup {NoId}
        /\ tid_table \subseteq tid_table'
    BY <2>1, IdAllocFacts
  <2> QED
    BY <1>1, <2>1, <2>2, <2>3, <2>4 DEF IdInv, IdsMarked, IdsDistinct
\* fork and the first exec: a new thread and a new process.
<1>9. CASE \E t \in THREADS, p \in PROCS, m \in MAPS :
             ExecFirst(t, p, m) \/ Fork(t, p, m)
  <2>1. PICK t \in THREADS, p \in PROCS, m \in MAPS, par \in {NULL, current_proc} :
          NewProcess(t, p, m, par)
    BY <1>9 DEF ExecFirst, Fork
  <2>2. PICK newtid \in Ids \cup {NoId}, newpid \in Ids \cup {NoId} :
          /\ t \notin threads /\ p \notin procs
          /\ IdAlloc(tid_table, newtid) /\ IdAlloc(pid_table, newpid)
          /\ tid_table' = Marked(tid_table, newtid)
          /\ pid_table' = Marked(pid_table, newpid)
          /\ threads' = threads \cup {t}
          /\ procs' = procs \cup {p}
          /\ thread' = [ContextSaved EXCEPT ![t] =
                          [tid |-> newtid, status |-> Pending, proc |-> p,
                           rax |-> "own"]]
          /\ proc' = ProcessesWith(p, newpid, par, t, m)
    BY <2>1 DEF NewProcess
  <2>3. /\ thread'[t].tid = newtid
        /\ \A u \in threads : thread'[u].tid = thread[u].tid
    BY <1>1, <1>2, <2>2, SavedFacts DEF TypeOK
  <2>4. /\ proc'[p].pid = newpid
        /\ \A q \in procs : proc'[q].pid = proc[q].pid
    BY <1>1, <2>2 DEF ProcessesWith, TypeOK, Process
  <2>5. /\ newtid = NoId \/ newtid \notin tid_table
        /\ newtid \in tid_table' \cup {NoId}
        /\ tid_table \subseteq tid_table'
        /\ newpid = NoId \/ newpid \notin pid_table
        /\ newpid \in pid_table' \cup {NoId}
        /\ pid_table \subseteq pid_table'
    BY <2>2, IdAllocFacts
  <2>6. IdsMarked'
    BY <1>1, <2>2, <2>3, <2>4, <2>5 DEF IdsMarked
  <2>7. ASSUME NEW u \in threads', NEW v \in threads',
               thread'[u].tid = thread'[v].tid
        PROVE  u = v \/ thread'[u].tid = NoId
    BY <1>1, <2>2, <2>3, <2>5, <2>7 DEF IdsDistinct
  <2>8. ASSUME NEW q \in procs', NEW r \in procs', proc'[q].pid = proc'[r].pid
        PROVE  q = r \/ proc'[q].pid = NoId
    BY <1>1, <2>2, <2>4, <2>5, <2>8 DEF IdsDistinct
  <2> QED
    BY <2>6, <2>7, <2>8 DEF IdInv, IdsDistinct
<1> QED
  BY <1>4, <1>5, <1>6, <1>7, <1>8, <1>9 DEF Next

\* No two threads and no two processes share an identifier, until a table of
\* any size is full.
THEOREM IdsStayDistinct == Spec => []IdsDistinct
<1>1. Init => IdInv
  BY SchedAssumption DEF Init, IdInv, IdsMarked, IdsDistinct
<1>2. IdInv => IdsDistinct
  BY DEF IdInv
<1> QED
  BY Invariance, IdStep, <1>1, <1>2, PTL DEF Spec
-----------------------------------------------------------------------------
(***************************************************************************)
(* Who is whose parent: exit gives each process of the list the parent of  *)
(* the one that exits, so it must be shown that this grandparent is not    *)
(* the child itself (ages decrease along parent), that a child's parent is *)
(* not changed by the exit of a third process (a process is on one list    *)
(* only), and that an ancestor that lives is still the parent of those it  *)
(* was handed on from.                                                     *)
(***************************************************************************)
Parent(p)   == proc[p].parent
Children(p) == SetOf(proc[p].child)

\* A process is put on one list only.
OneList ==
  \A p, q \in procs : \A c \in Children(p) \cap Children(q) : p = q

\* Parents are processes in use; and some order on processes, such as their
\* age, has parents before children, adopted children included.
Elders(rank) ==
  \A p \in procs :
    /\ Parent(p) # NULL => Parent(p) \in procs /\ rank[Parent(p)] < rank[p]
    /\ \A c \in Children(p) : rank[p] < rank[c]

\* Family, of one process c that was put on the list of q.
HandedOn(c, q) ==
  IF LiveProc(q) THEN Parent(c) = q
  ELSE /\ Parent(c) # q
       /\ Parent(c) = NULL \/ LiveProc(Parent(c)) => Parent(c) = Parent(q)

FamilyInv ==
  /\ Family
  /\ OneList
  /\ \E rank \in [PROCS -> Nat] : Elders(rank)

LEMMA FamilyIs == Family <=> \A q \in procs : \A c \in Children(q) : HandedOn(c, q)
BY DEF Family, HandedOn, Parent, Children

\* The child list of a parent gains the new process, and no parent changes.
LEMMA NewProcessFamily ==
  ASSUME IInv, FamilyInv,
         NEW t \in THREADS, NEW p \in PROCS, NEW m \in MAPS,
         NEW par \in procs \cup {NULL}, par # NULL => LiveProc(par),
         NewProcess(t, p, m, par)
  PROVE  FamilyInv'
<1> USE SchedAssumption
<1>1. PICK newpid \in Ids \cup {NoId} :
        /\ p \notin procs
        /\ procs' = procs \cup {p}
        /\ proc' = ProcessesWith(p, newpid, par, t, m)
  BY DEF NewProcess
<1>2. /\ TypeOK /\ ChildrenTaken /\ Family /\ OneList
      /\ procs \subseteq PROCS /\ NULL \notin PROCS
      /\ par # p
  BY <1>1 DEF IInv, FamilyInv, TypeOK
<1>3. /\ proc'[p].status = Pending
      /\ Parent(p)' = par
      /\ Children(p)' = {}
  BY <1>1, <1>2 DEF ProcessesWith, Parent, Children, SetOf
<1>4. ASSUME NEW q \in procs
      PROVE  /\ q # p
             /\ proc'[q].status = proc[q].status
             /\ Parent(q)' = Parent(q)
             /\ Children(q)' = Children(q) \cup (IF q = par THEN {p} ELSE {})
  <2>1. q # p /\ q \in PROCS /\ proc[q] \in Process
    BY <1>1, <1>2 DEF TypeOK
  <2>2. CASE q = par
    <3>1. proc'[q] = [proc[q] EXCEPT !.child = Append(@, p)]
      BY <1>1, <2>1, <2>2 DEF ProcessesWith
    <3>2. proc[q].child \in Seq(PROCS)
      BY <2>1 DEF Process
    <3>3. SetOf(Append(proc[q].child, p)) = SetOf(proc[q].child) \cup {p}
      <4> DEFINE s == proc[q].child
      <4>1. /\ s \in Seq(PROCS) /\ Len(s) \in Nat
            /\ DOMAIN s = 1 .. Len(s)
            /\ DOMAIN Append(s, p) = 1 .. Len(s) + 1
            /\ \A i \in 1 .. Len(s) : Append(s, p)[i] = s[i]
            /\ Append(s, p)[Len(s) + 1] = p
        BY <3>2
      <4> HIDE DEF s
      <4>2. SetOf(Append(s, p)) \subseteq SetOf(s) \cup {p}
        BY <4>1 DEF SetOf
      <4>3. Len(s) + 1 \in DOMAIN Append(s, p)
        BY <4>1
      <4>4. \A i \in DOMAIN s : i \in DOMAIN Append(s, p) /\ Append(s, p)[i] = s[i]
        BY <4>1
      <4>5. SetOf(s) \cup {p} \subseteq SetOf(Append(s, p))
        BY <4>1, <4>3, <4>4 DEF SetOf
      <4> QED
        BY <4>2, <4>5 DEF s
    <3> QED
      BY <2>1, <2>2, <3>1, <3>3 DEF Parent, Children, Process
  <2>3. CASE q # par
    BY <1>1, <2>1, <2>3 DEF ProcessesWith, Parent, Children
  <2> QED
    BY <2>2, <2>3
<1>5. \A q \in procs : p \notin Children(q) /\ Children(q) \subseteq procs
  BY <1>1, <1>2 DEF ChildrenTaken, Children
<1>6. Family'
  <2> SUFFICES ASSUME NEW q \in procs', NEW c \in Children(q)'
               PROVE  HandedOn(c, q)'
    BY DEF Family, HandedOn, Parent, Children
  <2>1. PICK rank \in [PROCS -> Nat] : Elders(rank)
    BY DEF FamilyInv
  <2>2. q \in procs /\ (LiveProc(q)' <=> LiveProc(q))
    BY <1>1, <1>3, <1>4 DEF LiveProc
  <2>3. CASE c \in Children(q)
    <3>1. c \in procs /\ HandedOn(c, q)
      BY <1>2, <1>5, <2>2, <2>3, FamilyIs
    <3>2. Parent(c)' = Parent(c) /\ Parent(q)' = Parent(q)
      BY <1>4, <2>2, <3>1
    <3>3. Parent(c) # NULL => Parent(c) \in procs
      BY <2>1, <3>1 DEF Elders
    <3>4. Parent(c) # NULL => (LiveProc(Parent(c))' <=> LiveProc(Parent(c)))
      BY <1>1, <1>4, <3>2, <3>3 DEF LiveProc
    <3> QED
      BY <2>2, <3>1, <3>2, <3>4 DEF HandedOn
  <2>4. CASE c = p /\ q = par
    BY <1>2, <1>3, <2>2, <2>4 DEF HandedOn
  <2> QED
    BY <1>4, <2>2, <2>3, <2>4
<1>7. OneList'
  BY <1>1, <1>2, <1>3, <1>4, <1>5 DEF OneList
<1>8. \E rank \in [PROCS -> Nat] : Elders(rank)'
  <2>1. PICK rank \in [PROCS -> Nat] : Elders(rank)
    BY DEF FamilyInv
  <2> DEFINE new == [rank EXCEPT ![p] = IF par = NULL THEN 0 ELSE rank[par] + 1]
  <2>2. /\ new \in [PROCS -> Nat]
        /\ \A q \in procs : new[q] = rank[q]
        /\ par # NULL => rank[par] < new[p]
    BY <1>1, <1>2
  <2> HIDE DEF new
  <2>3. ASSUME NEW q \in procs', Parent(q)' # NULL
        PROVE  Parent(q)' \in procs' /\ new[Parent(q)'] < new[q]
    BY <1>1, <1>3, <1>4, <2>1, <2>2, <2>3 DEF Elders
  <2>4. ASSUME NEW q \in procs', NEW c \in Children(q)'
        PROVE  new[q] < new[c]
    <3>1. q \in procs
      BY <1>1, <1>3
    <3>2. CASE c \in Children(q)
      BY <1>5, <2>1, <2>2, <3>1, <3>2 DEF Elders
    <3>3. CASE c = p /\ q = par
      BY <1>2, <2>2, <3>1, <3>3
    <3> QED
      BY <1>4, <3>1, <3>2, <3>3
  <2>5. Elders(new)'
    BY <2>3, <2>4 DEF Elders, Parent, Children
  <2> QED
    BY <2>2, <2>5
<1> QED
  BY <1>6, <1>7, <1>8 DEF FamilyInv

\* exit: the children of the exiting process get its parent.
LEMMA ExitFamily == ASSUME IInv, FamilyInv, Exit PROVE FamilyInv'
<1> USE SchedAssumption
<1> DEFINE x == current_proc
<1>1. /\ x \in procs
      /\ proc' = ProcessesAfterExit(x)
      /\ procs' = procs
      /\ TypeOK /\ ChildrenTaken /\ Family /\ OneList
      /\ procs \subseteq PROCS /\ NULL \notin PROCS
      /\ LiveProc(x)
  BY DEF IInv, FamilyInv, Exit, RunsInOwnMemory, LiveProc, TypeOK
<1>2. PICK rank \in [PROCS -> Nat] : Elders(rank)
  BY DEF FamilyInv
<1>3. /\ x \notin Children(x)
      /\ \A q \in procs : Children(q) \subseteq procs
      /\ Parent(x) # NULL => Parent(x) \in procs /\ rank[Parent(x)] < rank[x]
      /\ \A c \in Children(x) : rank[x] < rank[c]
  BY <1>1, <1>2 DEF Elders, ChildrenTaken, Children
<1>4. ASSUME NEW q \in procs
      PROVE  /\ proc'[q].status = IF q = x THEN Stopped ELSE proc[q].status
             /\ Children(q)' = Children(q)
             /\ Parent(q)' = IF q \in Children(x) THEN Parent(x) ELSE Parent(q)
  BY <1>1, <1>3 DEF ProcessesAfterExit, Parent, Children, TypeOK, Process
<1>5. Family'
  <2> SUFFICES ASSUME NEW q \in procs, NEW c \in Children(q)
               PROVE  HandedOn(c, q)'
    BY <1>1, <1>4 DEF Family, HandedOn, Parent, Children
  <2>1. c \in procs /\ HandedOn(c, q) /\ x # NULL
    BY <1>1, <1>3, FamilyIs
  <2>2. LiveProc(q)' <=> LiveProc(q) /\ q # x
    BY <1>1, <1>4 DEF LiveProc
  <2>3. CASE q = x
    <3>1. Parent(c)' = Parent(q) /\ Parent(q)' = Parent(q)
      BY <1>1, <1>3, <1>4, <2>1, <2>3
    <3>2. rank[q] \in Nat
      BY <1>1, <1>2
    <3>3. Parent(q) # q
      BY <1>3, <2>1, <2>3, <3>2
    <3> QED
      BY <2>2, <2>3, <3>1, <3>3 DEF HandedOn
  <2>4. CASE q # x
    <3>1. Parent(c)' = Parent(c)
      BY <1>1, <1>4, <2>1, <2>4 DEF OneList
    <3>2. CASE LiveProc(q)
      BY <2>1, <2>2, <2>4, <3>1, <3>2 DEF HandedOn
    <3>3. CASE ~ LiveProc(q)
      <4>1. Parent(c) # q
        BY <2>1, <3>3 DEF HandedOn
      <4>2. PICK d : d = Parent(c)
        OBVIOUS
      <4>3. ASSUME d = NULL \/ LiveProc(d)'
            PROVE  d = Parent(q)'
        <5>1. d # x
          BY <1>1, <1>4, <2>1, <4>3 DEF LiveProc
        <5>2. d = NULL \/ LiveProc(d)
          BY <1>1, <1>4, <4>3, <5>1 DEF LiveProc
        <5>3. d = Parent(q)
          BY <2>1, <3>3, <4>2, <5>2 DEF HandedOn
        <5>4. q \notin Children(x)
          BY <1>1, <5>1, <5>3, FamilyIs DEF HandedOn
        <5> QED
          BY <1>4, <5>3, <5>4
      <4> QED
        BY <2>2, <3>1, <3>3, <4>1, <4>2, <4>3 DEF HandedOn
    <3> QED
      BY <3>2, <3>3
  <2> QED
    BY <2>3, <2>4
<1>6. OneList'
  BY <1>1, <1>4 DEF OneList
<1>7. Elders(rank)'
  <2>1. ASSUME NEW q \in procs, Parent(q)' # NULL
        PROVE  Parent(q)' \in procs /\ rank[Parent(q)'] < rank[q]
    <3>1. CASE q \in Children(x)
      <4>1. /\ Parent(q)' = Parent(x)
            /\ rank[Parent(x)] < rank[x]
            /\ rank[x] < rank[q]
            /\ Parent(x) \in procs
        BY <1>3, <1>4, <2>1, <3>1
      <4>2. rank[Parent(x)] \in Nat /\ rank[x] \in Nat /\ rank[q] \in Nat
        BY <1>1, <1>2, <4>1
      <4> QED
        BY <4>1, <4>2
    <3>2. CASE q \notin Children(x)
      BY <1>2, <1>4, <2>1, <3>2 DEF Elders
    <3> QED
      BY <3>1, <3>2
  <2>2. \A q \in procs : \A c \in Children(q)' : rank[q] < rank[c]
    BY <1>2, <1>4 DEF Elders
  <2> QED
    BY <1>1, <2>1, <2>2 DEF Elders, Parent, Children
<1> QED
  BY <1>2, <1>5, <1>6, <1>7 DEF FamilyInv

LEMMA FamilyStep == ASSUME IInv, FamilyInv, [Next]_vars PROVE FamilyInv'
<1>1. TypeOK /\ RunsInOwnMemory
  BY DEF IInv
\* No list, no parent and no status of a process changes.
<1>2. ASSUME /\ procs' = procs
             /\ \A q \in procs : /\ proc'[q].parent = proc[q].parent
                                 /\ proc'[q].child = proc[q].child
                                 /\ proc'[q].status = proc[q].status
      PROVE  FamilyInv'
  <2>1. PICK rank \in [PROCS -> Nat] : Elders(rank)
    BY DEF FamilyInv
  <2>2. \A q \in procs : /\ Parent(q)' = Parent(q)
                         /\ Children(q)' = Children(q)
                         /\ LiveProc(q)' <=> LiveProc(q)
    BY <1>2 DEF Parent, Children, LiveProc
  <2>3. \A q \in procs : Children(q) \subseteq procs
    BY DEF IInv, ChildrenTaken, Children
  <2>4. Family'
    <3> SUFFICES ASSUME NEW q \in procs, NEW c \in Children(q)
                 PROVE  HandedOn(c, q)'
      BY <1>2, <2>2 DEF Family, HandedOn, Parent, Children
    <3>1. c \in procs /\ HandedOn(c, q)
      BY <2>3, FamilyIs DEF FamilyInv
    <3>2. Parent(c) # NULL => Parent(c) \in procs
      BY <2>1, <3>1 DEF Elders
    <3> QED
      BY <2>2, <3>1, <3>2 DEF HandedOn
  <2>5. OneList' /\ Elders(rank)'
    BY <1>2, <2>1, <2>2 DEF FamilyInv, OneList, Elders
  <2> QED
    BY <2>1, <2>4, <2>5 DEF FamilyInv
<1>3. CASE UnmaskTimer \/ TimerTick \/ ForkNoMemory \/ UNCHANGED vars
  BY <1>2, <1>3 DEF UnmaskTimer, TimerTick, ForkNoMemory, vars
<1>4. CASE Exit
  BY <1>4, ExitFamily
<1>5. CASE \E m \in MAPS : Exec(m)
  <2>1. PICK m \in MAPS : /\ proc' = [proc EXCEPT ![current_proc].vm_map = m]
                          /\ procs' = procs
    BY <1>5 DEF Exec
  <2> QED
    BY <1>1, <1>2, <2>1 DEF TypeOK, Process
<1>6. CASE \E t \in THREADS, p \in PROCS, m \in MAPS :
             ExecFirst(t, p, m) \/ Fork(t, p, m)
  <2>1. PICK t \in THREADS, p \in PROCS, m \in MAPS :
          \/ NewProcess(t, p, m, NULL)
          \/ current_proc # NULL /\ NewProcess(t, p, m, current_proc)
    BY <1>6 DEF ExecFirst, Fork
  <2> QED
    BY <1>1, <2>1, NewProcessFamily DEF RunsInOwnMemory, LiveProc
<1> QED
  BY <1>3, <1>4, <1>5, <1>6 DEF Next

LEMMA FamilyInvariance == Spec => []FamilyInv
<1>1. Init => FamilyInv
  <2> SUFFICES ASSUME Init PROVE FamilyInv
    OBVIOUS
  <2>1. procs = {} /\ [p \in PROCS |-> 0] \in [PROCS -> Nat]
    BY DEF Init
  <2> QED
    BY <2>1 DEF FamilyInv, Family, OneList, Elders
<1> QED
  BY Invariance, FamilyStep, <1>1, PTL DEF Spec

\* The family is right for any number of processes, whatever order they stop in:
\* a child of a live process knows its parent, that of a stopped one is handed
\* on, and never past an ancestor that lives.
THEOREM FamilyCorrect == Spec => []Family
<1>1. FamilyInv => Family
  BY DEF FamilyInv
<1> QED
  BY FamilyInvariance, <1>1, PTL
-----------------------------------------------------------------------------
(***************************************************************************)
(* The memories of the processes are private, for any number of processes, *)
(* pages and programs.  The induction adds to IInv, by which no two        *)
(* processes have one map and the mapped one is that of the running        *)
(* process, that no two maps have one page.                                *)
(***************************************************************************)
\* A map that has been handed out has a page, and no other map has that page.
PagesOwned ==
  /\ \A m \in maps : phy_addr[m] \in FRAMES
  /\ \A m, n \in maps : phy_addr[m] = phy_addr[n] => m = n

MemoryInv ==
  /\ IInv
  /\ phy_addr \in [MAPS -> FRAMES \cup {NULL}]
  /\ ram \in [FRAMES -> Page]
  /\ PagesOwned

\* The page in which a process finds its memory.
PageOf(p) == phy_addr[proc[p].vm_map]
-----------------------------------------------------------------------------
\* Every process has a page, which it shares with no other process.
LEMMA PageFacts ==
  ASSUME MemoryInv
  PROVE  /\ \A p \in procs : /\ p \in PROCS
                             /\ proc[p].vm_map \in maps
                             /\ PageOf(p) \in FRAMES
                             /\ ram[PageOf(p)] \in Page
         /\ \A p, q \in procs : PageOf(p) = PageOf(q) => p = q
         /\ \A p \in PROCS : (MemoryOf[p] # NULL) <=> p \in procs
<1>1. /\ procs \subseteq PROCS
      /\ \A p \in procs : proc[p].vm_map \in maps
  BY DEF MemoryInv, IInv, TypeOK, MapsTaken
<1>2. \A p \in procs : PageOf(p) \in FRAMES /\ ram[PageOf(p)] \in Page
  BY <1>1 DEF MemoryInv, PagesOwned, PageOf
<1>3. \A p, q \in procs : PageOf(p) = PageOf(q) => p = q
  BY <1>1 DEF MemoryInv, IInv, PrivateMemory, PagesOwned, PageOf
<1>4. NULL \notin Page
  BY MemoryAssumption DEF Page
<1>5. \A p \in PROCS : (MemoryOf[p] # NULL) <=> p \in procs
  BY <1>2, <1>4 DEF MemoryOf, PageOf
<1> QED
  BY <1>1, <1>2, <1>3, <1>5

\* The running process has the mapped page.
LEMMA MappedFacts ==
  ASSUME MemoryInv, current_proc # NULL
  PROVE  /\ current_proc \in procs
         /\ phy_addr[mapped] = PageOf(current_proc)
BY DEF MemoryInv, IInv, RunsInOwnMemory, LiveProc, PageOf

\* One process's page takes other contents: its memory, and no other, changes.
LEMMA OnePageChanges ==
  ASSUME MemoryInv, NEW p \in procs, NEW page \in Page,
         UNCHANGED <<procs, proc, phy_addr>>,
         ram' = [ram EXCEPT ![PageOf(p)] = page]
  PROVE  Private!Becomes(p, page) /\ ram' \in [FRAMES -> Page]
<1>1. ram' \in [FRAMES -> Page]
  BY PageFacts DEF MemoryInv
<1>2. \A q \in procs : ram'[PageOf(q)] = IF q = p THEN page ELSE ram[PageOf(q)]
  BY PageFacts DEF MemoryInv
<1>3. \A q \in procs : PageOf(q)' = PageOf(q)
  BY DEF PageOf
<1>4. MemoryOf' = [q \in PROCS |-> IF q \in procs THEN ram'[PageOf(q)] ELSE NULL]
  BY <1>3 DEF MemoryOf, PageOf
<1>5. MemoryOf = [q \in PROCS |-> IF q \in procs THEN ram[PageOf(q)] ELSE NULL]
  BY DEF MemoryOf, PageOf
<1>6. MemoryOf' = [MemoryOf EXCEPT ![p] = page]
  BY <1>2, <1>4, <1>5, PageFacts
<1> QED
  BY <1>1, <1>6 DEF Private!Becomes

(***************************************************************************)
(* A new map m with a page that was not in use becomes the map of process  *)
(* p, new or not: its memory is what that page then holds, and no other    *)
(* changes.                                                                *)
(***************************************************************************)
LEMMA NewPage ==
  ASSUME MemoryInv, NEW p \in PROCS, NEW m \in MAPS, NEW at \in FRAMES,
         NEW page \in Page,
         m \notin maps, maps' = maps \cup {m},
         procs' = procs \cup {p},
         proc'[p].vm_map = m,
         \A q \in procs : q # p => proc'[q].vm_map = proc[q].vm_map,
         Unused(at),
         phy_addr' = [phy_addr EXCEPT ![m] = at],
         ram' = [ram EXCEPT ![at] = page]
  PROVE  /\ Private!Becomes(p, page)
         /\ phy_addr' \in [MAPS -> FRAMES \cup {NULL}]
         /\ ram' \in [FRAMES -> Page]
         /\ PagesOwned'
<1>1. phy_addr' \in [MAPS -> FRAMES \cup {NULL}] /\ ram' \in [FRAMES -> Page]
  BY DEF MemoryInv
<1>2. maps \subseteq MAPS /\ \A n \in maps : phy_addr[n] \in FRAMES /\ phy_addr[n] # at
  BY DEF MemoryInv, IInv, TypeOK, PagesOwned, Unused
<1>3. phy_addr'[m] = at /\ \A n \in maps : phy_addr'[n] = phy_addr[n]
  BY <1>2 DEF MemoryInv
<1>4. PagesOwned'
  BY <1>2, <1>3 DEF MemoryInv, PagesOwned
<1>5. ram'[at] = page /\ \A n \in maps : ram'[phy_addr[n]] = ram[phy_addr[n]]
  BY <1>2 DEF MemoryInv
<1>6. ram'[phy_addr'[proc'[p].vm_map]] = page
  BY <1>3, <1>5
<1>7. \A q \in procs : q # p => ram'[phy_addr'[proc'[q].vm_map]] = ram[PageOf(q)]
  BY <1>3, <1>5, PageFacts DEF PageOf
<1>8. MemoryOf' = [q \in PROCS |-> IF q \in procs \cup {p}
                                     THEN ram'[phy_addr'[proc'[q].vm_map]] ELSE NULL]
  BY DEF MemoryOf
<1>9. MemoryOf = [q \in PROCS |-> IF q \in procs THEN ram[PageOf(q)] ELSE NULL]
  BY DEF MemoryOf, PageOf
<1>10. MemoryOf' = [MemoryOf EXCEPT ![p] = page]
  BY <1>6, <1>7, <1>8, <1>9
<1> QED
  BY <1>1, <1>4, <1>10 DEF Private!Becomes
-----------------------------------------------------------------------------
LEMMA InitialMemory == MemoryInit => MemoryInv /\ Private!Init
<1> SUFFICES ASSUME MemoryInit PROVE MemoryInv /\ Private!Init
  OBVIOUS
<1>1. IInv
  BY InitInv DEF MemoryInit
<1>2. procs = {} /\ maps = {} /\ current_proc = NULL
  BY DEF MemoryInit, Init
<1>3. MemoryInv
  BY <1>1, <1>2 DEF MemoryInit, MemoryInv, PagesOwned
<1> QED
  BY <1>2, <1>3 DEF Private!Init, MemoryOf

\* What a program file leaves in its page is a start of that program.
LEMMA LoadedFacts ==
  ASSUME MemoryInv, NEW at \in FRAMES, NEW file \in Programs \cup {NoFile}
  PROVE  Loaded(at, file) \in Page /\ Private!StartOf(file, Loaded(at, file))
BY MemoryAssumption DEF MemoryInv, Loaded, Page, Private!StartOf

LEMMA SpoiledFacts ==
  ASSUME MemoryInv, NEW at \in FRAMES
  PROVE  Spoiled(at) \in Page
BY MemoryAssumption DEF MemoryInv, Spoiled, Page

\* What NewProcess does to the maps of the processes.
LEMMA NewProcessMaps ==
  ASSUME MemoryInv, NEW t \in THREADS, NEW p \in PROCS, NEW m \in MAPS,
         NEW par \in PROCS \cup {NULL}, NewProcess(t, p, m, par),
         par # NULL => par \in procs
  PROVE  /\ p \notin procs
         /\ procs' = procs \cup {p}
         /\ m \notin maps /\ maps' = maps \cup {m}
         /\ proc'[p].vm_map = m
         /\ \A q \in procs : q # p => proc'[q].vm_map = proc[q].vm_map
         /\ UNCHANGED current_proc
<1>1. PICK newpid \in Ids \cup {NoId} : proc' = ProcessesWith(p, newpid, par, t, m)
  BY DEF NewProcess
<1>2. \A q \in procs : q \in PROCS /\ proc[q] \in Process
  BY DEF MemoryInv, IInv, TypeOK
<1>3. ASSUME NEW q \in procs, q # p
      PROVE  proc'[q].vm_map = proc[q].vm_map
  BY <1>1, <1>2, <1>3 DEF ProcessesWith, Process
<1>4. proc'[p].vm_map = m
  BY <1>1 DEF ProcessesWith
<1> QED
  BY <1>3, <1>4 DEF NewProcess, NewMap

LEMMA LoadFirstStep ==
  ASSUME MemoryInv, IInv', NEW t \in THREADS, NEW p \in PROCS, NEW m \in MAPS,
         LoadFirst(t, p, m)
  PROVE  MemoryInv' /\ Private!Next
<1>1. PICK at \in FRAMES, file \in Programs \cup {NoFile} :
        /\ Unused(at)
        /\ phy_addr' = [phy_addr EXCEPT ![m] = at]
        /\ ram' = [ram EXCEPT ![at] = Loaded(at, file)]
  BY DEF LoadFirst, LoadInto
<1>2. /\ p \notin procs
      /\ procs' = procs \cup {p}
      /\ m \notin maps /\ maps' = maps \cup {m}
      /\ proc'[p].vm_map = m
      /\ \A q \in procs : q # p => proc'[q].vm_map = proc[q].vm_map
      /\ UNCHANGED current_proc
  BY NewProcessMaps DEF LoadFirst, ExecFirst
<1>3. Loaded(at, file) \in Page /\ Private!StartOf(file, Loaded(at, file))
  BY LoadedFacts
<1>4. /\ Private!Becomes(p, Loaded(at, file))
      /\ phy_addr' \in [MAPS -> FRAMES \cup {NULL}]
      /\ ram' \in [FRAMES -> Page]
      /\ PagesOwned'
  BY <1>1, <1>2, <1>3, NewPage
<1>5. ~ Private!Exists(p)
  BY <1>2, PageFacts DEF Private!Exists
<1>6. Private!Boot(p, file)
  BY <1>2, <1>3, <1>4, <1>5 DEF Private!Boot, Page
<1> QED
  BY <1>4, <1>6 DEF MemoryInv, Private!Next

LEMMA DuplicateStep ==
  ASSUME MemoryInv, IInv', NEW t \in THREADS, NEW p \in PROCS, NEW m \in MAPS,
         Duplicate(t, p, m)
  PROVE  MemoryInv' /\ Private!Next
<1>1. current_proc # NULL /\ current_proc \in procs
  BY MappedFacts DEF Duplicate, Fork
<1>2. /\ PageOf(current_proc) \in FRAMES
      /\ ram[PageOf(current_proc)] \in Page
      /\ current_proc \in PROCS
  BY <1>1, PageFacts
<1>3. PICK at \in FRAMES :
        /\ Unused(at)
        /\ phy_addr' = [phy_addr EXCEPT ![m] = at]
        /\ ram' = [ram EXCEPT ![at] = ram[PageOf(current_proc)]]
  BY DEF Duplicate, CopyInto, PageOf
<1>4. /\ p \notin procs
      /\ procs' = procs \cup {p}
      /\ m \notin maps /\ maps' = maps \cup {m}
      /\ proc'[p].vm_map = m
      /\ \A q \in procs : q # p => proc'[q].vm_map = proc[q].vm_map
      /\ UNCHANGED current_proc
  BY <1>1, <1>2, NewProcessMaps DEF Duplicate, Fork
<1>5. /\ Private!Becomes(p, ram[PageOf(current_proc)])
      /\ phy_addr' \in [MAPS -> FRAMES \cup {NULL}]
      /\ ram' \in [FRAMES -> Page]
      /\ PagesOwned'
  BY <1>2, <1>3, <1>4, NewPage
<1>6. MemoryOf[current_proc] = ram[PageOf(current_proc)]
  BY <1>1, <1>2 DEF MemoryOf, PageOf
<1>7. ~ Private!Exists(p)
  BY <1>4, PageFacts DEF Private!Exists
<1>8. Private!Fork(p)
  BY <1>1, <1>4, <1>5, <1>6, <1>7 DEF Private!Fork
<1> QED
  BY <1>5, <1>8 DEF MemoryInv, Private!Next

LEMMA LoadStep ==
  ASSUME MemoryInv, IInv', NEW m \in MAPS, Load(m)
  PROVE  MemoryInv' /\ Private!Next
<1>1. current_proc # NULL /\ current_proc \in procs
  BY MappedFacts DEF Load, Exec
<1>2. current_proc \in PROCS /\ proc \in [PROCS -> Process \cup {NULL}]
      /\ \A q \in procs : q \in PROCS /\ proc[q] \in Process
  BY <1>1 DEF MemoryInv, IInv, TypeOK
<1>3. PICK at \in FRAMES, file \in Programs \cup {NoFile} :
        /\ Unused(at)
        /\ phy_addr' = [phy_addr EXCEPT ![m] = at]
        /\ ram' = [ram EXCEPT ![at] = Loaded(at, file)]
  BY DEF Load, LoadInto
<1>4. /\ m \notin maps /\ maps' = maps \cup {m}
      /\ procs' = procs
      /\ UNCHANGED current_proc
      /\ proc' = [proc EXCEPT ![current_proc].vm_map = m]
  BY DEF Load, Exec, NewMap
<1>5. /\ procs' = procs \cup {current_proc}
      /\ proc'[current_proc].vm_map = m
      /\ \A q \in procs : q # current_proc => proc'[q].vm_map = proc[q].vm_map
  BY <1>1, <1>2, <1>4 DEF Process
<1>6. Loaded(at, file) \in Page /\ Private!StartOf(file, Loaded(at, file))
  BY LoadedFacts
<1>7. /\ Private!Becomes(current_proc, Loaded(at, file))
      /\ phy_addr' \in [MAPS -> FRAMES \cup {NULL}]
      /\ ram' \in [FRAMES -> Page]
      /\ PagesOwned'
  BY <1>2, <1>3, <1>4, <1>5, <1>6, NewPage
<1>8. Private!Exec(file)
  BY <1>1, <1>4, <1>6, <1>7 DEF Private!Exec, Page
<1> QED
  BY <1>7, <1>8 DEF MemoryInv, Private!Next

LEMMA DuplicateFailsStep ==
  ASSUME MemoryInv, IInv', DuplicateFails
  PROVE  MemoryInv' /\ Private!Next
<1>1. /\ current_proc # NULL /\ current_proc \in procs
      /\ phy_addr[mapped] = PageOf(current_proc)
  BY MappedFacts DEF DuplicateFails, ForkNoMemory
<1>2. PageOf(current_proc) \in FRAMES /\ current_proc \in PROCS
  BY <1>1, PageFacts
<1>3. /\ UNCHANGED <<procs, proc, maps, current_proc, phy_addr>>
      /\ ram' = [ram EXCEPT ![PageOf(current_proc)] = Spoiled(PageOf(current_proc))]
  BY <1>1 DEF DuplicateFails, ForkNoMemory
<1>4. Private!Becomes(current_proc, Spoiled(PageOf(current_proc)))
      /\ ram' \in [FRAMES -> Page]
  BY <1>1, <1>2, <1>3, SpoiledFacts, OnePageChanges
<1>5. MemoryInv'
  BY <1>3, <1>4 DEF MemoryInv, PagesOwned
<1>6. MemoryOf[current_proc] = ram[PageOf(current_proc)]
  BY <1>1, <1>2 DEF MemoryOf, PageOf
<1>7. Private!RunShort
  BY <1>1, <1>3, <1>4, <1>6 DEF Private!RunShort, Spoiled
<1> QED
  BY <1>5, <1>7 DEF Private!Next

LEMMA StoreStep ==
  ASSUME MemoryInv, IInv', NEW w \in Words, NEW value \in Values, Store(w, value)
  PROVE  MemoryInv' /\ Private!Next
<1> DEFINE page == [ram[PageOf(current_proc)] EXCEPT ![w] = value]
<1>1. /\ current_proc # NULL /\ current_proc \in procs
      /\ phy_addr[mapped] = PageOf(current_proc)
  BY MappedFacts DEF Store
<1>2. /\ PageOf(current_proc) \in FRAMES /\ current_proc \in PROCS
      /\ ram[PageOf(current_proc)] \in Page
  BY <1>1, PageFacts
<1>3. /\ UNCHANGED <<procs, proc, maps, current_proc, phy_addr>>
      /\ ram' = [ram EXCEPT ![PageOf(current_proc)] = page]
  BY <1>1 DEF Store, vars
<1>4. page \in Page
  BY <1>2 DEF Page
<1>5. MemoryOf[current_proc] = ram[PageOf(current_proc)]
  BY <1>1, <1>2 DEF MemoryOf, PageOf
<1> HIDE DEF page
<1>6. Private!Becomes(current_proc, page) /\ ram' \in [FRAMES -> Page]
  BY <1>1, <1>3, <1>4, OnePageChanges
<1>7. MemoryInv'
  BY <1>3, <1>6 DEF MemoryInv, PagesOwned
<1>8. Private!Store(w, value)
  BY <1>1, <1>3, <1>5, <1>6 DEF Private!Store, page
<1> QED
  BY <1>7, <1>8 DEF Private!Next

LEMMA SwitchStep ==
  ASSUME MemoryInv, IInv', Switch
  PROVE  MemoryInv' /\ Private!Next
<1>1. UNCHANGED <<procs, maps, phy_addr, ram>>
  BY DEF Switch, TimerTick, Exit, UnmaskTimer
<1>2. \A q \in procs : proc'[q].vm_map = proc[q].vm_map
  <2>1. \A q \in procs : q \in PROCS /\ proc[q] \in Process
    BY DEF MemoryInv, IInv, TypeOK
  <2>2. UNCHANGED proc \/ proc' = ProcessesAfterExit(current_proc)
    BY DEF Switch, TimerTick, Exit, UnmaskTimer
  <2> QED
    BY <2>1, <2>2 DEF ProcessesAfterExit, Process
<1>3. MemoryInv'
  BY <1>1 DEF MemoryInv, PagesOwned
<1>4. UNCHANGED MemoryOf
  BY <1>1, <1>2 DEF MemoryOf
<1>5. current_proc' # NULL => current_proc' \in procs /\ current_proc' \in PROCS
  BY <1>1 DEF IInv, RunsInOwnMemory, LiveProc, TypeOK
<1>6. Private!Switch
  BY <1>4, <1>5, PageFacts DEF Private!Switch, Private!Exists
<1> QED
  BY <1>3, <1>6 DEF Private!Next

LEMMA MemoryStep ==
  ASSUME MemoryInv, [MemoryNext]_memoryVars
  PROVE  MemoryInv' /\ [Private!Next]_<<current_proc, MemoryOf>>
<1>1. CASE UNCHANGED memoryVars
  <2>1. [Next]_vars
    BY <1>1 DEF memoryVars
  <2>2. IInv'
    BY <2>1, NextInv DEF MemoryInv
  <2>3. UNCHANGED <<procs, proc, maps, current_proc, phy_addr, ram>>
    BY <1>1 DEF memoryVars, vars
  <2> QED
    BY <2>2, <2>3 DEF MemoryInv, PagesOwned, MemoryOf
<1>2. CASE MemoryNext
  <2>1. [Next]_vars
    BY <1>2 DEF MemoryNext, Switch, DuplicateFails, Load, LoadFirst, Duplicate,
                Store, Next
  <2>2. IInv'
    BY <2>1, NextInv DEF MemoryInv
  <2> QED
    BY <1>2, <2>2, SwitchStep, DuplicateFailsStep, LoadStep, LoadFirstStep,
       DuplicateStep, StoreStep DEF MemoryNext
<1> QED
  BY <1>1, <1>2

\* Each process has a memory of its own, which nothing but its own stores, its
\* own exec and its own calls that run short of memory change.
THEOREM MemoriesPrivate == MemorySpec => ImplementsPrivateMemories
BY InitialMemory, MemoryStep, PTL DEF MemorySpec, ImplementsPrivateMemories, Private!Spec
-----------------------------------------------------------------------------
(***************************************************************************)
(* The pointers hold the sequences.  First what the stores of list.h do to *)
(* a ring of cells; then the ready queue, whose nodes Holds relates to its *)
(* threads, through the dequeues of sched's loop; then the rings of the    *)
(* processes.  A store to one ring leaves the others alone because no cell *)
(* is on two: a thread is of one process (OneThread) and a process on one  *)
(* child list (OneList).                                                   *)
(***************************************************************************)
Pointers == [next : ListCells \cup {NULL}, prev : ListCells \cup {NULL}]
Linking == [ListCells -> Pointers]

\* The i-th cell of the ring of head and s; the head stands at both ends.
At(head, s, i) == IF i \in 1 .. Len(s) THEN s[i] ELSE head

Ring(l, head, s) ==
  \A i \in 0 .. Len(s) : /\ l[At(head, s, i)].next = At(head, s, i + 1)
                         /\ l[At(head, s, i + 1)].prev = At(head, s, i)

\* No cell is in the ring twice.
Apart(head, s) ==
  \A i, j \in 0 .. Len(s) : At(head, s, i) = At(head, s, j) => i = j

LEMMA AtFacts ==
  ASSUME NEW head \in ListCells, NEW s \in Seq(ListCells)
  PROVE  /\ At(head, s, 0) = head /\ At(head, s, Len(s) + 1) = head
         /\ \A i \in 1 .. Len(s) : At(head, s, i) = s[i]
         /\ \A i \in 0 .. Len(s) + 1 : At(head, s, i) \in ListCells
         /\ Len(s) \in Nat
BY DEF At

\* list_init touches one cell.
LEMMA ListInit ==
  ASSUME NEW l \in Linking, NEW cell \in ListCells
  PROVE  /\ list_init(l, cell) \in Linking
         /\ list_init(l, cell)[cell] = [next |-> cell, prev |-> cell]
         /\ \A c \in ListCells : c # cell => list_init(l, cell)[c] = l[c]
BY DEF Linking, Pointers, list_init

\* The four stores of __list_add, for a cell that is in no list.
LEMMA ListAdd ==
  ASSUME NEW l \in Linking, NEW head \in ListCells, NEW new \in ListCells, NEW last,
         last \in ListCells, l[head].prev = last, head # new, last # new
  PROVE  LET m == list_add_before(l, head, new)
         IN /\ m \in Linking
            /\ m[new] = [next |-> head, prev |-> last]
            /\ m[head].prev = new
            /\ m[head].next = IF last = head THEN new ELSE l[head].next
            /\ last # head => m[last].next = new /\ m[last].prev = l[last].prev
            /\ \A c \in ListCells \ {new, head, last} : m[c] = l[c]
<1>1. PICK m1 : m1 = [l EXCEPT ![new].prev = last]
  OBVIOUS
<1>2. PICK m2 : m2 = [m1 EXCEPT ![last].next = new]
  OBVIOUS
<1>3. PICK m3 : m3 = [m2 EXCEPT ![new].next = head]
  OBVIOUS
<1>4. PICK m4 : m4 = [m3 EXCEPT ![head].prev = new]
  OBVIOUS
<1>5. list_add_before(l, head, new) = m4
  BY <1>1, <1>2, <1>3, <1>4 DEF list_add_before, list_add
<1>6. m1 \in Linking /\ m1[new].prev = last /\ \A c \in ListCells \ {new} : m1[c] = l[c]
  BY <1>1 DEF Linking, Pointers
<1>7. /\ m2 \in Linking /\ m2[new].prev = last
      /\ m2[last] = [next |-> new, prev |-> l[last].prev]
      /\ \A c \in ListCells \ {new, last} : m2[c] = l[c]
  BY <1>2, <1>6 DEF Linking, Pointers
<1>8. /\ m3 \in Linking /\ m3[new] = [next |-> head, prev |-> last]
      /\ m3[last] = [next |-> new, prev |-> l[last].prev]
      /\ \A c \in ListCells \ {new, last} : m3[c] = l[c]
  BY <1>3, <1>7 DEF Linking, Pointers
<1>9. /\ m4 \in Linking /\ m4[new] = m3[new]
      /\ m4[head] = [next |-> m3[head].next, prev |-> new]
      /\ \A c \in ListCells \ {head} : m4[c] = m3[c]
  BY <1>4, <1>8 DEF Linking, Pointers
<1> QED
  BY <1>5, <1>8, <1>9

\* What happens to other cells does not change a ring.
LEMMA RingSame ==
  ASSUME NEW l, NEW m, NEW head \in ListCells, NEW s \in Seq(ListCells),
         Ring(l, head, s), m[head] = l[head], \A i \in 1 .. Len(s) : m[s[i]] = l[s[i]]
  PROVE  Ring(m, head, s)
<1>1. \A i \in 0 .. Len(s) + 1 : m[At(head, s, i)] = l[At(head, s, i)]
  BY DEF At
<1>2. \A i \in 0 .. Len(s) : i \in 0 .. Len(s) + 1 /\ i + 1 \in 0 .. Len(s) + 1
  BY AtFacts
<1> QED
  BY <1>1, <1>2 DEF Ring

\* The new cell becomes the last of the ring, and nothing else changes.
LEMMA RingGrows ==
  ASSUME NEW l \in Linking, NEW head \in ListCells, NEW s \in Seq(ListCells),
         NEW new \in ListCells,
         Ring(l, head, s), Apart(head, s),
         new # head, \A i \in 1 .. Len(s) : s[i] # new
  PROVE  LET m == list_add_before(l, head, new)
         IN /\ m \in Linking
            /\ Append(s, new) \in Seq(ListCells)
            /\ Ring(m, head, Append(s, new)) /\ Apart(head, Append(s, new))
            /\ \A c \in ListCells :
                 c # new /\ c # head /\ (\A i \in 1 .. Len(s) : s[i] # c) => m[c] = l[c]
<1> DEFINE m == list_add_before(l, head, new)
           a == Append(s, new)
           last == At(head, s, Len(s))
<1>1. /\ Len(s) \in Nat /\ last \in ListCells /\ At(head, s, 0) = head
      /\ At(head, s, Len(s) + 1) = head
      /\ \A i \in 0 .. Len(s) : At(head, s, i) \in ListCells
      /\ \A i \in 1 .. Len(s) : At(head, s, i) = s[i]
  BY AtFacts
<1>2. l[head].prev = last /\ l[last].next = head
  BY <1>1 DEF Ring
<1>3. \A i \in 0 .. Len(s) : At(head, s, i) # new
  BY <1>1
<1>4. /\ m \in Linking
      /\ m[new] = [next |-> head, prev |-> last]
      /\ m[head].prev = new
      /\ m[head].next = IF last = head THEN new ELSE l[head].next
      /\ last # head => m[last].next = new /\ m[last].prev = l[last].prev
      /\ \A c \in ListCells \ {new, head, last} : m[c] = l[c]
  BY <1>1, <1>2, <1>3, ListAdd
<1> HIDE DEF m, last
<1>5. a \in Seq(ListCells) /\ Len(a) = Len(s) + 1 /\ a[Len(s) + 1] = new
      /\ \A i \in 1 .. Len(s) : a[i] = s[i]
  OBVIOUS
<1> HIDE DEF a
<1>6. /\ \A i \in 0 .. Len(s) : At(head, a, i) = At(head, s, i)
      /\ At(head, a, Len(s) + 1) = new /\ At(head, a, Len(s) + 2) = head
  BY <1>1, <1>5 DEF At
<1>7. Apart(head, a)
  <2> SUFFICES ASSUME NEW i \in 0 .. Len(s) + 1, NEW j \in 0 .. Len(s) + 1,
                      At(head, a, i) = At(head, a, j)
               PROVE  i = j
    BY <1>5 DEF Apart
  <2>1. CASE i \in 0 .. Len(s) /\ j \in 0 .. Len(s)
    BY <1>6, <2>1 DEF Apart
  <2>2. CASE i = Len(s) + 1
    BY <1>1, <1>3, <1>6, <2>2
  <2>3. CASE j = Len(s) + 1
    BY <1>1, <1>3, <1>6, <2>3
  <2> QED
    BY <1>1, <2>1, <2>2, <2>3
<1>8. \A i \in 0 .. Len(s) - 1 : At(head, s, i) # last
  BY <1>1 DEF Apart, last
<1>9. \A i \in 1 .. Len(s) : At(head, s, i) # head
  BY <1>1 DEF Apart
<1>10. ASSUME NEW i \in 0 .. Len(s) - 1
       PROVE  /\ m[At(head, s, i)].next = At(head, s, i + 1)
              /\ m[At(head, s, i + 1)].prev = At(head, s, i)
  <2>1. i \in 0 .. Len(s) /\ i + 1 \in 1 .. Len(s) /\ i + 1 \in 0 .. Len(s)
    BY <1>1
  <2>2. l[At(head, s, i)].next = At(head, s, i + 1) /\ l[At(head, s, i + 1)].prev = At(head, s, i)
    BY <2>1 DEF Ring
  <2>3. m[At(head, s, i)].next = l[At(head, s, i)].next
    BY <1>1, <1>3, <1>4, <1>8, <2>1
  <2>4. m[At(head, s, i + 1)].prev = l[At(head, s, i + 1)].prev
    BY <1>1, <1>3, <1>4, <1>9, <2>1
  <2> QED
    BY <2>2, <2>3, <2>4
<1>11. m[last].next = new /\ m[new].prev = last /\ m[new].next = head /\ m[head].prev = new
  BY <1>4
<1>12. ASSUME NEW i \in 0 .. Len(s) + 1
       PROVE  /\ m[At(head, a, i)].next = At(head, a, i + 1)
              /\ m[At(head, a, i + 1)].prev = At(head, a, i)
  <2>1. CASE i \in 0 .. Len(s) - 1
    <3>1. i \in 0 .. Len(s) /\ i + 1 \in 0 .. Len(s)
      BY <1>1, <2>1
    <3> QED
      BY <1>6, <1>10, <2>1, <3>1
  <2>2. CASE i = Len(s)
    BY <1>1, <1>6, <1>11, <2>2 DEF last
  <2>3. CASE i = Len(s) + 1
    <3>1. i + 1 = Len(s) + 2
      BY <1>1, <2>3
    <3> QED
      BY <1>6, <1>11, <2>3, <3>1
  <2> QED
    BY <1>1, <2>1, <2>2, <2>3
<1>13. Ring(m, head, a)
  BY <1>5, <1>12 DEF Ring
<1>14. ASSUME NEW c \in ListCells, c # new, c # head, \A i \in 1 .. Len(s) : s[i] # c
       PROVE  m[c] = l[c]
  <2>1. c # last
    BY <1>1, <1>14 DEF last, At
  <2> QED
    BY <1>4, <1>14, <2>1
<1> QED
  BY <1>4, <1>5, <1>7, <1>13, <1>14 DEF a, m

\* The first cell leaves the ring, and nothing else changes.
LEMMA RingShrinks ==
  ASSUME NEW l \in Linking, NEW head \in ListCells, NEW s \in Seq(ListCells),
         Ring(l, head, s), Apart(head, s), s # <<>>
  PROVE  LET m == list_del(l, s[1])
         IN /\ m \in Linking
            /\ l[head].next = s[1]
            /\ Tail(s) \in Seq(ListCells)
            /\ Ring(m, head, Tail(s)) /\ Apart(head, Tail(s))
            /\ \A c \in ListCells :
                 c # head /\ (\A i \in 1 .. Len(s) : s[i] # c) => m[c] = l[c]
<1> DEFINE first == s[1]
           second == At(head, s, 2)
           m == list_del(l, first)
           t == Tail(s)
<1>1. /\ Len(s) \in Nat /\ 1 <= Len(s) /\ At(head, s, 0) = head /\ At(head, s, Len(s) + 1) = head
      /\ At(head, s, 1) = first
      /\ \A i \in 0 .. Len(s) + 1 : At(head, s, i) \in ListCells
      /\ \A i \in 1 .. Len(s) : At(head, s, i) = s[i]
  BY AtFacts
<1>2. /\ l[head].next = first /\ l[first].prev = head
      /\ l[first].next = second /\ l[second].prev = first
  <2>1. 0 \in 0 .. Len(s) /\ 1 \in 0 .. Len(s) /\ 0 + 1 = 1 /\ 1 + 1 = 2
    BY <1>1
  <2> HIDE DEF first, second
  <2> QED
    BY <1>1, <2>1 DEF Ring, second
<1>3. first \in ListCells /\ second \in ListCells /\ first # head /\ second # first
  <2>1. 0 \in 0 .. Len(s) /\ 1 \in 0 .. Len(s) /\ 2 \in 0 .. Len(s) + 1
    BY <1>1
  <2>2. first # head
    BY <1>1, <2>1 DEF Apart
  <2>3. CASE Len(s) = 1
    <3>1. second = head
      BY ONLY <1>1, <2>3
    <3> QED
      BY <1>1, <2>1, <2>2, <3>1
  <2>4. CASE Len(s) # 1
    <3>1. 2 \in 0 .. Len(s)
      <4>1. Len(s) \in Nat /\ 1 <= Len(s)
        BY ONLY <1>1, Zenon
      <4>2. \A n \in Nat : 1 <= n /\ n # 1 => 2 \in 0 .. n
        OBVIOUS
      <4> QED
        BY ONLY <2>4, <4>1, <4>2, Zenon
    <3> QED
      BY <1>1, <2>1, <2>2, <3>1 DEF Apart
  <2> QED
    BY <2>3, <2>4
<1> HIDE DEF first, second
<1>4. /\ m \in Linking
      /\ m[head].next = second /\ m[second].prev = head
      /\ \A c \in ListCells : c # second => m[c].prev = l[c].prev
      /\ \A c \in ListCells : c # head => m[c].next = l[c].next
  <2>1. PICK m1 : m1 = [l EXCEPT ![head].next = second]
    OBVIOUS
  <2>2. PICK m2 : m2 = [m1 EXCEPT ![second].prev = head]
    OBVIOUS
  <2>3. m = m2
    BY <1>2, <2>1, <2>2 DEF list_del
  <2>4. /\ m1 \in Linking /\ m1[head].next = second
        /\ \A c \in ListCells : m1[c].prev = l[c].prev
        /\ \A c \in ListCells : c # head => m1[c].next = l[c].next
    BY <1>3, <2>1 DEF Linking, Pointers
  <2>5. /\ m2 \in Linking /\ m2[second].prev = head
        /\ \A c \in ListCells : m2[c].next = m1[c].next
        /\ \A c \in ListCells : c # second => m2[c].prev = m1[c].prev
    BY <1>3, <2>2, <2>4 DEF Linking, Pointers
  <2> QED
    BY <2>3, <2>4, <2>5
<1>5. t \in Seq(ListCells) /\ Len(t) = Len(s) - 1 /\ \A i \in 1 .. Len(s) - 1 : t[i] = s[i + 1]
  BY <1>1
<1> HIDE DEF t, m
<1>6. /\ At(head, t, 0) = head
      /\ \A i \in 1 .. Len(s) : At(head, t, i) = At(head, s, i + 1)
  BY <1>1, <1>5 DEF At
<1>7. Apart(head, t)
  <2> SUFFICES ASSUME NEW i \in 0 .. Len(s) - 1, NEW j \in 0 .. Len(s) - 1,
                      At(head, t, i) = At(head, t, j)
               PROVE  i = j
    BY <1>5 DEF Apart
  <2> DEFINE in(k) == IF k = 0 THEN 0 ELSE k + 1
  <2>1. \A k \in 0 .. Len(s) - 1 : in(k) \in 0 .. Len(s) /\ At(head, t, k) = At(head, s, in(k))
    BY <1>1, <1>6
  <2>2. in(i) = in(j)
    <3> HIDE DEF in
    <3> QED
      BY <2>1 DEF Apart
  <2> QED
    BY <2>2
<1>8. ASSUME NEW i \in 0 .. Len(s) - 1
      PROVE  /\ m[At(head, t, i)].next = At(head, t, i + 1)
             /\ m[At(head, t, i + 1)].prev = At(head, t, i)
  <2>1. CASE i = 0
    <3>1. At(head, t, 1) = second
      BY <1>1, <1>6 DEF second
    <3> QED
      BY <1>4, <1>6, <2>1, <3>1
  <2>2. CASE i # 0
    <3>1. /\ i \in 1 .. Len(s) /\ i + 1 \in 1 .. Len(s) /\ i + 1 \in 0 .. Len(s)
          /\ i + 2 \in 0 .. Len(s) + 1 /\ (i + 1) + 1 = i + 2
      BY <1>1, <2>2
    <3>2. At(head, t, i) = At(head, s, i + 1) /\ At(head, t, i + 1) = At(head, s, i + 2)
      BY <1>6, <3>1
    <3>3. /\ l[At(head, s, i + 1)].next = At(head, s, i + 2)
          /\ l[At(head, s, i + 2)].prev = At(head, s, i + 1)
      BY <3>1 DEF Ring
    <3>4. At(head, s, i + 1) # head
      BY <1>1, <3>1 DEF Apart
    <3>5. At(head, s, i + 2) # second
      <4>1. 2 \in 0 .. Len(s) /\ i + 2 # 2 /\ 0 # 2 /\ 0 \in 0 .. Len(s)
        BY <1>1, <2>2, <3>1
      <4>2. CASE i + 2 \in 0 .. Len(s)
        BY <4>1, <4>2 DEF Apart, second
      <4>3. CASE i + 2 = Len(s) + 1
        BY <1>1, <4>1, <4>3 DEF Apart, second
      <4> QED
        BY <1>1, <3>1, <4>2, <4>3
    <3>6. At(head, s, i + 1) \in ListCells /\ At(head, s, i + 2) \in ListCells
      BY <1>1, <3>1
    <3> QED
      BY <1>4, <3>2, <3>3, <3>4, <3>5, <3>6
  <2> QED
    BY <2>1, <2>2
<1>9. Ring(m, head, t)
  BY <1>5, <1>8 DEF Ring
<1>10. ASSUME NEW c \in ListCells, c # head, \A i \in 1 .. Len(s) : s[i] # c
       PROVE  m[c] = l[c]
  <2>1. c # second
    BY <1>1, <1>10 DEF second, At
  <2>2. m[c].next = l[c].next /\ m[c].prev = l[c].prev
    BY <1>4, <1>10, <2>1
  <2>3. m[c] \in Pointers /\ l[c] \in Pointers
    BY <1>4 DEF Linking
  <2> QED
    BY <2>2, <2>3 DEF Pointers
<1> QED
  BY <1>2, <1>4, <1>5, <1>7, <1>9, <1>10 DEF m, t, first
-----------------------------------------------------------------------------
\* The queue holds the threads r in the nodes s.
Holds(q, s, r) ==
  /\ q.link \in Linking /\ q.content \in [NODES -> THREADS \cup {NULL}]
  /\ s \in Seq(NODES) /\ r \in Seq(THREADS) /\ Len(s) = Len(r) /\ q.length = Len(r)
  /\ Ring(q.link, QueueHead, s) /\ Apart(QueueHead, s)
  /\ \A i \in 1 .. Len(s) : q.content[s[i]] = r[i]
  /\ \A node \in NODES : q.content[node] # NULL => \E i \in 1 .. Len(s) : s[i] = node

\* The pointers outside the queue are the same.
SameElsewhere(l, m) == \A c \in ListCells \ ({QueueHead} \cup NODES) : m[c] = l[c]

LEMMA QueueCells ==
  /\ QueueHead \in ListCells /\ NODES \subseteq ListCells
  /\ QueueHead \notin NODES /\ NULL \notin ListCells
  /\ \A s \in Seq(NODES) : s \in Seq(ListCells)
<1>1. QueueHead \in ListCells /\ NODES \subseteq ListCells
  BY DEF ListCells
<1>2. QueueHead \notin NODES /\ NULL \notin ListCells
  BY CellsAssumption
<1>3. PICK C : C = ListCells
  OBVIOUS
<1>4. NODES \subseteq C
  BY <1>1, <1>3
<1>5. \A s \in Seq(NODES) : s \in Seq(C)
  BY ONLY <1>4
<1> QED
  BY <1>1, <1>2, <1>3, <1>5

\* queue_dequeue takes out the first thread and frees its node.
LEMMA DequeueHolds ==
  ASSUME NEW q, NEW s, NEW r, Holds(q, s, r), Len(s) # 0
  PROVE  LET d == Freed(q, FirstNode(q, QueueHead), NULL)
         IN /\ FirstNode(q, QueueHead) = s[1] /\ q.content[s[1]] = r[1]
            /\ Holds(d, Tail(s), Tail(r))
            /\ SameElsewhere(q.link, d.link)
<1> DEFINE d == Freed(q, FirstNode(q, QueueHead), NULL)
<1>1. /\ q.link \in Linking /\ q.content \in [NODES -> THREADS \cup {NULL}]
      /\ s \in Seq(NODES) /\ r \in Seq(THREADS) /\ Len(s) = Len(r) /\ q.length = Len(r)
      /\ Ring(q.link, QueueHead, s) /\ Apart(QueueHead, s)
      /\ \A i \in 1 .. Len(s) : q.content[s[i]] = r[i]
      /\ \A node \in NODES : q.content[node] # NULL => \E i \in 1 .. Len(s) : s[i] = node
  BY DEF Holds
<1>2. s \in Seq(ListCells) /\ QueueHead \in ListCells /\ s # <<>>
  BY <1>1, QueueCells
<1>3. PICK m : m = list_del(q.link, s[1])
  OBVIOUS
<1>4. /\ m \in Linking /\ q.link[QueueHead].next = s[1]
      /\ Tail(s) \in Seq(ListCells)
      /\ Ring(m, QueueHead, Tail(s)) /\ Apart(QueueHead, Tail(s))
      /\ \A c \in ListCells :
           c # QueueHead /\ (\A i \in 1 .. Len(s) : s[i] # c) => m[c] = q.link[c]
  <2>1. PICK l : l = q.link
    OBVIOUS
  <2>2. l \in Linking /\ Ring(l, QueueHead, s) /\ m = list_del(l, s[1])
    BY <1>1, <1>3, <2>1
  <2>3. /\ m \in Linking /\ l[QueueHead].next = s[1]
        /\ Tail(s) \in Seq(ListCells)
        /\ Ring(m, QueueHead, Tail(s)) /\ Apart(QueueHead, Tail(s))
        /\ \A c \in ListCells :
             c # QueueHead /\ (\A i \in 1 .. Len(s) : s[i] # c) => m[c] = l[c]
    BY ONLY <1>1, <1>2, <2>2, RingShrinks
  <2> QED
    BY <2>1, <2>3
<1>5. PICK N : N \in Nat \ {0} /\ N = Len(s)
  BY <1>1
<1>6. /\ s[1] \in NODES /\ Len(Tail(s)) = N - 1 /\ Len(Tail(r)) = N - 1
      /\ Tail(s) \in Seq(NODES) /\ Tail(r) \in Seq(THREADS)
      /\ \A i \in 1 .. N - 1 : /\ Tail(s)[i] = s[i + 1] /\ Tail(r)[i] = r[i + 1]
                               /\ i + 1 \in 1 .. N
  BY <1>1, <1>5
<1>7. PICK l : l = [m EXCEPT ![s[1]] = [next |-> NULL, prev |-> NULL]]
  OBVIOUS
<1>8. l \in Linking /\ \A c \in ListCells : c # s[1] => l[c] = m[c]
  BY <1>4, <1>7 DEF Linking, Pointers
<1>9. PICK content1 : content1 = [q.content EXCEPT ![s[1]] = NULL]
  OBVIOUS
<1>10. d = [link |-> l, content |-> content1, length |-> q.length - 1]
  BY <1>3, <1>4, <1>7, <1>9 DEF Freed, FirstNode
<1>11. d.link = l /\ d.content = content1 /\ d.length = N - 1
  BY <1>1, <1>5, <1>10
<1>12. \A i \in 1 .. N - 1 : s[i + 1] # s[1]
  <2>1. SUFFICES ASSUME NEW i \in 1 .. N - 1 PROVE s[i + 1] # s[1]
    OBVIOUS
  <2>2. i + 1 \in 1 .. N /\ i + 1 \in 0 .. N /\ 1 \in 1 .. N /\ 1 \in 0 .. N /\ i + 1 # 1
    BY <1>5
  <2>3. At(QueueHead, s, i + 1) = s[i + 1] /\ At(QueueHead, s, 1) = s[1]
    BY <1>5, <2>2 DEF At
  <2> QED
    BY <1>1, <1>5, <2>2, <2>3 DEF Apart
<1>13. s[1] # QueueHead
  BY <1>6, QueueCells
<1>14. Ring(l, QueueHead, Tail(s))
  <2>1. l[QueueHead] = m[QueueHead] /\ \A i \in 1 .. Len(Tail(s)) : l[Tail(s)[i]] = m[Tail(s)[i]]
    <3>1. \A i \in 1 .. N - 1 : Tail(s)[i] \in ListCells /\ Tail(s)[i] # s[1]
      BY <1>4, <1>6, <1>12
    <3> QED
      BY <1>2, <1>6, <1>8, <1>13, <3>1
  <2> QED
    BY <1>2, <1>4, <2>1, RingSame
<1>15. /\ content1 \in [NODES -> THREADS \cup {NULL}] /\ content1[s[1]] = NULL
       /\ \A node \in NODES : node # s[1] => content1[node] = q.content[node]
  BY <1>1, <1>6, <1>9
<1>16. \A i \in 1 .. N - 1 : content1[Tail(s)[i]] = Tail(r)[i]
  <2>1. SUFFICES ASSUME NEW i \in 1 .. N - 1 PROVE content1[Tail(s)[i]] = Tail(r)[i]
    OBVIOUS
  <2>2. Tail(s)[i] = s[i + 1] /\ Tail(r)[i] = r[i + 1] /\ i + 1 \in 1 .. N
    BY <1>6
  <2>3. s[i + 1] \in NODES
    BY <1>1, <1>5, <2>2
  <2> QED
    BY <1>1, <1>5, <1>12, <1>15, <2>2, <2>3
<1>17. \A node \in NODES : content1[node] # NULL => \E i \in 1 .. N - 1 : Tail(s)[i] = node
  <2>1. SUFFICES ASSUME NEW node \in NODES, content1[node] # NULL
                 PROVE  \E i \in 1 .. N - 1 : Tail(s)[i] = node
    OBVIOUS
  <2>2. node # s[1] /\ q.content[node] # NULL
    BY <1>15, <2>1
  <2>3. PICK j \in 1 .. N : s[j] = node
    BY <1>1, <1>5, <2>2
  <2>4. j # 1
    BY <2>2, <2>3
  <2>5. j - 1 \in 1 .. N - 1 /\ (j - 1) + 1 = j
    BY <1>5, <2>4
  <2>6. Tail(s)[j - 1] = s[(j - 1) + 1]
    BY ONLY <1>6, <2>5
  <2> QED
    BY ONLY <2>3, <2>5, <2>6
<1>18. SameElsewhere(q.link, l)
  <2>1. \A c \in ListCells \ ({QueueHead} \cup NODES) : \A i \in 1 .. Len(s) : s[i] # c
    BY <1>1
  <2> QED
    BY <1>4, <1>6, <1>8, <2>1 DEF SameElsewhere
<1>19. Holds(d, Tail(s), Tail(r))
  BY <1>4, <1>6, <1>8, <1>11, <1>14, <1>15, <1>16, <1>17 DEF Holds
<1>20. q.content[s[1]] = r[1]
  BY <1>1, <1>5
<1> QED
  BY <1>4, <1>11, <1>18, <1>19, <1>20 DEF FirstNode

\* queue_enqueue adds a thread in a node that was free.
LEMMA EnqueueHolds ==
  ASSUME NEW q, NEW s, NEW r, Holds(q, s, r),
         NEW node \in NODES, q.content[node] = NULL, NEW t \in THREADS
  PROVE  LET e == queue_enqueue(q, QueueHead, node, t)
         IN /\ Holds(e, Append(s, node), Append(r, t))
            /\ SameElsewhere(q.link, e.link)
<1> DEFINE e == queue_enqueue(q, QueueHead, node, t)
           a == Append(s, node)
           b == Append(r, t)
<1>1. /\ q.link \in Linking /\ q.content \in [NODES -> THREADS \cup {NULL}]
      /\ s \in Seq(NODES) /\ r \in Seq(THREADS) /\ Len(s) = Len(r) /\ q.length = Len(r)
      /\ Ring(q.link, QueueHead, s) /\ Apart(QueueHead, s)
      /\ \A i \in 1 .. Len(s) : q.content[s[i]] = r[i]
      /\ \A n \in NODES : q.content[n] # NULL => \E i \in 1 .. Len(s) : s[i] = n
  BY DEF Holds
<1>2. s \in Seq(ListCells) /\ QueueHead \in ListCells /\ node \in ListCells /\ node # QueueHead
  BY <1>1, QueueCells
<1>3. \A i \in 1 .. Len(s) : s[i] # node
  <2>1. \A i \in 1 .. Len(s) : r[i] \in THREADS /\ r[i] # NULL
    BY <1>1, SchedAssumption
  <2> QED
    BY <1>1, <2>1
<1>4. PICK m : m = list_init(q.link, node)
  OBVIOUS
<1>5. m \in Linking /\ \A c \in ListCells : c # node => m[c] = q.link[c]
  <2>1. PICK l : l = q.link
    OBVIOUS
  <2>2. l \in Linking /\ node \in ListCells /\ m = list_init(l, node)
    BY <1>1, <1>2, <1>4, <2>1
  <2>3. m \in Linking /\ \A c \in ListCells : c # node => m[c] = l[c]
    BY ONLY <2>2, ListInit
  <2> QED
    BY ONLY <2>1, <2>3
<1>6. Ring(m, QueueHead, s)
  <2>1. \A i \in 1 .. Len(s) : s[i] \in ListCells
    BY <1>2
  <2>2. m[QueueHead] = q.link[QueueHead] /\ \A i \in 1 .. Len(s) : m[s[i]] = q.link[s[i]]
    BY <1>2, <1>3, <1>5, <2>1
  <2> QED
    BY <1>1, <1>2, <2>2, RingSame
<1>7. PICK l : l = list_add_before(m, QueueHead, node)
  OBVIOUS
<1>8. /\ l \in Linking /\ Ring(l, QueueHead, a) /\ Apart(QueueHead, a)
      /\ \A c \in ListCells :
           c # node /\ c # QueueHead /\ (\A i \in 1 .. Len(s) : s[i] # c) => l[c] = m[c]
  BY <1>1, <1>2, <1>3, <1>5, <1>6, <1>7, RingGrows
<1>9. PICK content1 : content1 = [q.content EXCEPT ![node] = t]
  OBVIOUS
<1>10. /\ content1 \in [NODES -> THREADS \cup {NULL}] /\ content1[node] = t
       /\ \A n \in NODES : n # node => content1[n] = q.content[n]
  BY <1>1, <1>9
<1>11. e = [link |-> l, content |-> content1, length |-> q.length + 1]
  BY <1>4, <1>7, <1>9 DEF queue_enqueue
<1>12. PICK N : N \in Nat /\ N = Len(s)
  BY <1>1
<1>13. e.link = l /\ e.content = content1 /\ e.length = N + 1
  BY <1>1, <1>11, <1>12
<1>14. /\ a \in Seq(NODES) /\ b \in Seq(THREADS) /\ Len(a) = N + 1 /\ Len(b) = N + 1
       /\ a[N + 1] = node /\ b[N + 1] = t
       /\ \A i \in 1 .. N : a[i] = s[i] /\ b[i] = r[i]
  BY <1>1, <1>12
<1> HIDE DEF a, b, e
<1>15. \A i \in 1 .. N + 1 : i = N + 1 \/ i \in 1 .. N
  BY <1>12
<1>16. \A i \in 1 .. N : s[i] \in NODES /\ s[i] # node /\ q.content[s[i]] = r[i]
  BY <1>1, <1>3, <1>12
<1>17. \A i \in 1 .. N + 1 : content1[a[i]] = b[i]
  BY ONLY <1>10, <1>14, <1>15, <1>16
<1>18. \A n \in NODES : content1[n] # NULL => \E i \in 1 .. N + 1 : a[i] = n
  <2>1. SUFFICES ASSUME NEW n \in NODES, content1[n] # NULL, n # node
                 PROVE  \E i \in 1 .. N + 1 : a[i] = n
    <3>1. N + 1 \in 1 .. N + 1
      BY <1>12
    <3> QED
      BY <1>14, <3>1
  <2>2. PICK i \in 1 .. N : s[i] = n
    BY <1>1, <1>10, <1>12, <2>1
  <2>3. i \in 1 .. N + 1
    BY <1>12
  <2> QED
    BY <1>14, <2>2, <2>3
<1>19. Holds(e, a, b)
  BY ONLY <1>8, <1>10, <1>13, <1>14, <1>17, <1>18 DEF Holds
<1>20. SameElsewhere(q.link, l)
  <2>1. \A c \in ListCells \ ({QueueHead} \cup NODES) : \A i \in 1 .. Len(s) : s[i] # c
    BY <1>1
  <2> QED
    BY <1>5, <1>8, <2>1 DEF SameElsewhere
<1> QED
  BY <1>13, <1>19, <1>20 DEF e, a, b
-----------------------------------------------------------------------------
\* A set of numbers has a least one.
LEMMA LeastNatural ==
  ASSUME NEW T, T \subseteq Nat, T # {}
  PROVE  \E n \in T : \A m \in T : n <= m
<1> DEFINE R == OpToRel(<, Nat)
<1>1. PICK n \in T : \A m \in T : ~ (<<m, n>> \in R)
  <2>1. IsWellFoundedOn(R, Nat)
    BY NatLessThanWellFounded
  <2> HIDE DEF R
  <2> QED
    BY <2>1, WFMin
<1>2. \A m \in T : ~ (m < n)
  BY <1>1 DEF OpToRel
<1> QED
  BY <1>2

\* A statement, given as the set of the numbers for which it holds, holds for
\* 0 .. N when it holds for 0 and never stops holding.
LEMMA Stepwise ==
  ASSUME NEW N \in Nat, NEW H,
         0 \in H,
         \A n \in 1 .. N : n - 1 \in H => n \in H
  PROVE  \A n \in 0 .. N : n \in H
<1> DEFINE T == {n \in 0 .. N : n \notin H}
<1> SUFFICES ASSUME T # {} PROVE FALSE
  OBVIOUS
<1>1. T \subseteq Nat
  OBVIOUS
<1>2. PICK n \in T : \A m \in T : n <= m
  BY <1>1, LeastNatural
<1>3. n \in 1 .. N
  BY <1>2
<1>4. n - 1 \notin T
  BY <1>2, <1>3
<1> QED
  BY <1>2, <1>3, <1>4

\* What sched's loop makes of a queue, dequeue by dequeue.
Next1(q) == Freed(q, FirstNode(q, QueueHead), NULL)
Dequeues(q, n, F) == F[0] = q /\ \A k \in 1 .. n : F[k] = Next1(F[k - 1])

\* There is such a function, which CHOOSE in TakenOut then finds.
LEMMA DequeuesExist == ASSUME NEW q, NEW N \in Nat PROVE \E F : Dequeues(q, N, F)
<1> DEFINE H == {n \in 0 .. N : \E F : Dequeues(q, n, F)}
<1>1. 0 \in H
  <2>1. PICK F : F = [m \in 0 .. 0 |-> q]
    OBVIOUS
  <2>2. Dequeues(q, 0, F)
    BY ONLY <2>1 DEF Dequeues
  <2> QED
    BY <2>2
<1>2. ASSUME NEW n \in 1 .. N, n - 1 \in H PROVE n \in H
  <2>1. PICK F : Dequeues(q, n - 1, F)
    BY <1>2
  <2>2. PICK y : y = Next1(F[n - 1])
    OBVIOUS
  <2>3. PICK G : G = [m \in 0 .. n |-> IF m = n THEN y ELSE F[m]]
    OBVIOUS
  <2>4. n \in Nat /\ n # 0
    BY <1>2
  <2>5. G[n] = y /\ \A m \in 0 .. n - 1 : G[m] = F[m]
    BY ONLY <2>3, <2>4
  <2>6. G[0] = q
    BY ONLY <2>1, <2>4, <2>5 DEF Dequeues
  <2>7. ASSUME NEW m \in 1 .. n PROVE G[m] = Next1(G[m - 1])
    <3>1. CASE m = n
      <4>1. n - 1 \in 0 .. n - 1
        BY ONLY <2>4
      <4>2. G[n - 1] = F[n - 1]
        BY ONLY <2>5, <4>1
      <4> QED
        BY ONLY <2>2, <2>5, <3>1, <4>2
    <3>2. CASE m # n
      <4>1. m \in 1 .. n - 1 /\ m \in 0 .. n - 1 /\ m - 1 \in 0 .. n - 1
        BY ONLY <2>4, <2>7, <3>2
      <4>2. G[m] = F[m] /\ G[m - 1] = F[m - 1]
        BY ONLY <2>5, <4>1
      <4>3. F[m] = Next1(F[m - 1])
        BY ONLY <2>1, <4>1 DEF Dequeues
      <4> QED
        BY ONLY <4>2, <4>3
    <3> QED
      BY ONLY <3>1, <3>2
  <2>8. Dequeues(q, n, G)
    BY ONLY <2>6, <2>7 DEF Dequeues
  <2> QED
    BY <2>8
<1>3. \A n \in 0 .. N : n \in H
  <2> HIDE DEF H
  <2> QED
    BY <1>1, <1>2, Stepwise
<1> QED
  BY <1>3

LEMMA TakenOutIs ==
  ASSUME NEW n \in Nat
  PROVE  Dequeues(Queue(link), n, TakenOut(n))
<1>1. PICK q : q = Queue(link)
  OBVIOUS
<1>2. PICK F : Dequeues(q, n, F)
  BY DequeuesExist
<1> DEFINE Step(f) == [k \in 0 .. n |-> IF k = 0 THEN q
                         ELSE Freed(f[k - 1], FirstNode(f[k - 1], QueueHead), NULL)]
           after == CHOOSE f : f = Step(f)
<1>3. PICK E : E = [k \in 0 .. n |-> F[k]]
  OBVIOUS
<1>4. \A k \in 0 .. n : k # 0 => k \in 1 .. n /\ k - 1 \in 0 .. n
  OBVIOUS
<1>5. \A k \in 0 .. n : E[k] = IF k = 0 THEN q ELSE Next1(E[k - 1])
  <2>1. SUFFICES ASSUME NEW k \in 0 .. n
                 PROVE  E[k] = IF k = 0 THEN q ELSE Next1(E[k - 1])
    OBVIOUS
  <2>2. CASE k = 0
    BY ONLY <1>2, <1>3, <2>1, <2>2 DEF Dequeues
  <2>3. CASE k # 0
    <3>1. E[k] = F[k] /\ E[k - 1] = F[k - 1] /\ k \in 1 .. n
      BY ONLY <1>3, <1>4, <2>1, <2>3
    <3>2. F[k] = Next1(F[k - 1])
      BY ONLY <1>2, <3>1 DEF Dequeues
    <3> QED
      BY ONLY <2>3, <3>1, <3>2
  <2> QED
    BY ONLY <2>2, <2>3
<1>6. E = Step(E)
  <2>1. PICK G : G = Step(E)
    OBVIOUS
  <2>2. G = [k \in 0 .. n |-> IF k = 0 THEN q ELSE Next1(E[k - 1])]
    BY ONLY <2>1, Zenon DEF Next1
  <2>3. \A k \in 0 .. n : E[k] = G[k]
    BY ONLY <1>5, <2>2
  <2>4. E = [k \in 0 .. n |-> E[k]] /\ G = [k \in 0 .. n |-> G[k]]
    BY ONLY <1>3, <2>2
  <2>5. E = G
    BY ONLY <2>3, <2>4
  <2> QED
    BY ONLY <2>1, <2>5, Zenon
<1>7. after = Step(after)
  BY ONLY <1>6
<1>8. TakenOut(n) = after
  BY ONLY <1>1 DEF TakenOut
<1> HIDE DEF after
<1>9. \A k \in 0 .. n : after[k] = IF k = 0 THEN q ELSE Next1(after[k - 1])
  BY ONLY <1>7, Zenon DEF Next1
<1>10. 0 \in 0 .. n /\ \A k \in 1 .. n : k \in 0 .. n /\ k # 0
  OBVIOUS
<1>11. Dequeues(q, n, after)
  BY ONLY <1>9, <1>10, Zenon DEF Dequeues
<1> QED
  BY <1>1, <1>8, <1>11

\* After k dequeues the queue holds the rest, and its first node has come out
\* with the first of it.
Drained(q, r, n, F) ==
  \A k \in 0 .. n : \E z, w :
    /\ Holds(F[k], z, w) /\ Len(w) = Len(r) - k
    /\ \A i \in 1 .. Len(r) - k : w[i] = r[k + i]
    /\ SameElsewhere(q.link, F[k].link)
    /\ k < Len(r) => F[k].content[FirstNode(F[k], QueueHead)] = r[k + 1]

LEMMA DequeuesDrain ==
  ASSUME NEW q, NEW s, NEW r, Holds(q, s, r), NEW n \in 0 .. Len(r), NEW F, Dequeues(q, n, F)
  PROVE  Drained(q, r, n, F)
<1> DEFINE Left(k, z, w) == /\ Holds(F[k], z, w) /\ Len(w) = Len(r) - k
                            /\ \A i \in 1 .. Len(r) - k : w[i] = r[k + i]
                            /\ SameElsewhere(q.link, F[k].link)
           H == {k \in 0 .. n : \E z, w : Left(k, z, w)}
<1>1. r \in Seq(THREADS) /\ Len(r) \in Nat /\ n \in Nat /\ F[0] = q
  BY DEF Holds, Dequeues
<1>2. 0 \in H
  <2>1. Left(0, s, r)
    BY <1>1 DEF SameElsewhere
  <2> QED
    BY <1>1, <2>1
<1>3. ASSUME NEW k \in 1 .. n, k - 1 \in H PROVE k \in H
  <2>1. PICK z, w : Left(k - 1, z, w)
    BY <1>3
  <2>2. PICK N : N \in Nat /\ N = Len(r) - k
    <3>1. Len(r) - k \in Nat
      BY <1>1
    <3> QED
      BY <3>1
  <2>3. Len(w) = N + 1 /\ Len(z) = Len(w) /\ w \in Seq(THREADS)
    BY <1>1, <2>1, <2>2 DEF Holds
  <2>4. F[k] = Next1(F[k - 1])
    BY DEF Dequeues
  <2>5. Holds(F[k], Tail(z), Tail(w)) /\ SameElsewhere(F[k - 1].link, F[k].link)
    BY ONLY <2>1, <2>2, <2>3, <2>4, DequeueHolds DEF Next1
  <2>6. Len(Tail(w)) = N /\ \A i \in 1 .. N : Tail(w)[i] = w[i + 1] /\ i + 1 \in 1 .. N + 1
    BY ONLY <2>2, <2>3
  <2>7. \A i \in 1 .. N : w[i + 1] = r[k + i]
    <3>1. \A i \in 1 .. N : i + 1 \in 1 .. Len(r) - (k - 1) /\ (k - 1) + (i + 1) = k + i
      BY ONLY <1>1, <2>2, k \in 1 .. n
    <3> QED
      BY <2>1, <3>1
  <2>8. SameElsewhere(q.link, F[k].link)
    BY <2>1, <2>5 DEF SameElsewhere
  <2>9. Left(k, Tail(z), Tail(w))
    BY ONLY <2>2, <2>5, <2>6, <2>7, <2>8
  <2>10. k \in 0 .. n
    BY <1>1
  <2> HIDE DEF Left
  <2> QED
    BY <2>9, <2>10
<1>4. \A k \in 0 .. n : k \in H
  <2> HIDE DEF H
  <2> QED
    BY <1>1, <1>2, <1>3, Stepwise
<1>5. SUFFICES ASSUME NEW k \in 0 .. n
               PROVE  \E z, w :
                        /\ Left(k, z, w)
                        /\ k < Len(r) => F[k].content[FirstNode(F[k], QueueHead)] = r[k + 1]
  BY DEF Drained
<1>6. PICK z, w : Left(k, z, w)
  BY <1>4
<1>7. CASE k < Len(r)
  <2>1. Len(w) # 0 /\ Len(z) # 0 /\ 1 \in 1 .. Len(r) - k
    BY <1>1, <1>6, <1>7 DEF Holds
  <2>2. w[1] = r[k + 1]
    BY <1>6, <2>1
  <2>3. F[k].content[FirstNode(F[k], QueueHead)] = w[1]
    <3>1. PICK y : y = F[k]
      OBVIOUS
    <3>2. Holds(y, z, w) /\ Len(z) # 0
      BY <1>6, <2>1, <3>1
    <3>3. FirstNode(y, QueueHead) = z[1] /\ y.content[z[1]] = w[1]
      BY ONLY <3>2, DequeueHolds
    <3> QED
      BY ONLY <3>1, <3>3
  <2> QED
    BY <1>6, <2>2, <2>3
<1> QED
  BY <1>6, <1>7
-----------------------------------------------------------------------------
\* The pointers hold the ready queue.
QueueHeld == \E s : Holds(Queue(link), s, ready_queue)

LEMMA EnqueuedHolds ==
  ASSUME NEW q, NEW s, NEW r, Holds(q, s, r), NEW t \in THREADS, Enqueued(q, t)
  PROVE  /\ \E z : Holds(Queue(link)', z, Append(r, t))
         /\ SameElsewhere(q.link, link')
<1>1. PICK node \in NODES :
        /\ q.content[node] = NULL
        /\ LET e == queue_enqueue(q, QueueHead, node, t)
           IN link' = e.link /\ content' = e.content /\ length' = e.length
  BY DEF Enqueued
<1>2. PICK e : e = queue_enqueue(q, QueueHead, node, t)
  OBVIOUS
<1>3. Holds(e, Append(s, node), Append(r, t)) /\ SameElsewhere(q.link, e.link)
  BY <1>1, <1>2, EnqueueHolds
<1>4. Queue(link)' = [link |-> e.link, content |-> e.content, length |-> e.length]
  BY <1>1, <1>2 DEF Queue
<1>5. Queue(link)' = e
  BY <1>2, <1>4 DEF queue_enqueue
<1> QED
  BY <1>1, <1>2, <1>3, <1>5

\* sched's loop and the dispatch of Sched take out the same threads.
LEMMA RotateHolds ==
  ASSUME QueueHeld, NEW th, NEW pr, Dispatch(th, pr), Rotate(th)
  PROVE  QueueHeld' /\ SameElsewhere(link, link')
<1>1. PICK s : Holds(Queue(link), s, ready_queue)
  BY DEF QueueHeld
<1>2. PICK q : q = Queue(link)
  OBVIOUS
<1>3. /\ ready_queue \in Seq(THREADS) /\ length = Len(ready_queue) /\ q.link = link
  BY <1>1, <1>2 DEF Holds, Queue
<1>4. PICK m \in 1 .. Len(ready_queue) :
        NextIs(th, m) /\ ready_queue' = Rotated(ready_queue, m)
  BY DEF Dispatch
<1>5. PICK n \in 1 .. length :
        LET after == TakenOut(n)
            out(k) == after[k].content[FirstNode(after[k], QueueHead)]
        IN /\ th[out(n - 1)].status # Stopped
           /\ \A k \in 0 .. n - 2 : th[out(k)].status = Stopped
           /\ Enqueued(after[n], out(n - 1))
  BY DEF Rotate
<1>6. PICK F : F = TakenOut(n)
  OBVIOUS
<1>7. Dequeues(q, n, F)
  BY <1>2, <1>3, <1>6, TakenOutIs
<1>8. PICK L : L \in Nat /\ L = Len(ready_queue)
  BY <1>3
<1>9. n \in 1 .. L /\ m \in 1 .. L /\ n \in 0 .. L
  BY <1>3, <1>4, <1>8
<1>10. \A k \in 0 .. n : \E z, w :
           /\ Holds(F[k], z, w) /\ Len(w) = L - k
           /\ \A i \in 1 .. L - k : w[i] = ready_queue[k + i]
           /\ SameElsewhere(link, F[k].link)
           /\ k < L => F[k].content[FirstNode(F[k], QueueHead)] = ready_queue[k + 1]
  <2>1. PICK r : r = ready_queue
    OBVIOUS
  <2>2. Holds(q, s, r) /\ n \in 0 .. Len(r) /\ L = Len(r) /\ q.link = link
    BY <1>1, <1>2, <1>3, <1>8, <1>9, <2>1
  <2>3. Drained(q, r, n, F)
    BY <1>7, <2>2, DequeuesDrain
  <2> QED
    BY ONLY <2>1, <2>2, <2>3 DEF Drained
<1>11. \A k \in 0 .. n - 1 :
         F[k].content[FirstNode(F[k], QueueHead)] = ready_queue[k + 1]
  <2>1. \A k \in 0 .. n - 1 : k \in 0 .. n /\ k < L
    BY ONLY <1>8, <1>9
  <2> QED
    BY <1>10, <2>1
<1>12. /\ th[ready_queue[n]].status # Stopped
       /\ \A k \in 1 .. n - 1 : th[ready_queue[k]].status = Stopped
       /\ Enqueued(F[n], ready_queue[n])
  <2>1. n - 1 \in 0 .. n - 1 /\ (n - 1) + 1 = n
    BY ONLY <1>8, <1>9
  <2>2. th[ready_queue[n]].status # Stopped /\ Enqueued(F[n], ready_queue[n])
    BY <1>5, <1>6, <1>11, <2>1
  <2>3. ASSUME NEW k \in 1 .. n - 1 PROVE th[ready_queue[k]].status = Stopped
    <3>1. k - 1 \in 0 .. n - 2 /\ k - 1 \in 0 .. n - 1 /\ (k - 1) + 1 = k
      BY ONLY <1>8, <1>9, k \in 1 .. n - 1
    <3> QED
      BY <1>5, <1>6, <1>11, <3>1
  <2> QED
    BY <2>2, <2>3
<1>13. m = n
  <2>1. ~ (m < n)
    <3>1. m < n => m \in 1 .. n - 1
      BY ONLY <1>8, <1>9
    <3> QED
      BY <1>4, <1>12, <3>1 DEF NextIs
  <2>2. ~ (n < m)
    <3>1. n < m => n \in 1 .. m - 1
      BY ONLY <1>8, <1>9
    <3> QED
      BY <1>4, <1>12, <3>1 DEF NextIs
  <2> QED
    BY ONLY <1>8, <1>9, <2>1, <2>2
<1>14. PICK z, w : /\ Holds(F[n], z, w) /\ Len(w) = L - n
                   /\ \A i \in 1 .. L - n : w[i] = ready_queue[n + i]
                   /\ SameElsewhere(link, F[n].link)
  <2>1. n \in 0 .. n
    BY ONLY <1>8, <1>9
  <2> QED
    BY <1>10, <2>1
<1>15. w = SubSeq(ready_queue, n + 1, L)
  <2>1. PICK v : v = SubSeq(ready_queue, n + 1, L)
    OBVIOUS
  <2>2. v \in Seq(THREADS) /\ Len(v) = L - n /\ \A i \in 1 .. L - n : v[i] = ready_queue[n + i]
    BY ONLY <1>3, <1>8, <1>9, <2>1
  <2>3. w \in Seq(THREADS)
    BY <1>14 DEF Holds
  <2>4. w = v
    BY ONLY <1>14, <2>2, <2>3
  <2> QED
    BY ONLY <2>1, <2>4
<1>16. ready_queue[n] \in THREADS
  BY <1>3, <1>8, <1>9
<1>17. /\ \E y : Holds(Queue(link)', y, Append(w, ready_queue[n]))
       /\ SameElsewhere(F[n].link, link')
  BY <1>12, <1>14, <1>16, EnqueuedHolds
<1>18. ready_queue' = Append(w, ready_queue[n])
  BY <1>4, <1>8, <1>13, <1>15 DEF Rotated, Enqueue
<1> QED
  BY <1>14, <1>17, <1>18 DEF QueueHeld, SameElsewhere
-----------------------------------------------------------------------------
\* The list heads of a process are no other cell.
LEMMA CellKinds ==
  /\ \A p, q \in PROCS : /\ Threads(p) # Child(q)
                          /\ (Threads(p) = Threads(q) => p = q)
                          /\ (Child(p) = Child(q) => p = q)
  /\ \A p \in PROCS : /\ Threads(p) \in ListCells /\ Child(p) \in ListCells
                       /\ Threads(p) # QueueHead /\ Child(p) # QueueHead
                       /\ Threads(p) # ThreadList /\ Child(p) # ThreadList
                       /\ p # QueueHead /\ p # ThreadList
  /\ \A p, q \in PROCS : Threads(p) # q /\ Child(p) # q
  /\ \A p \in PROCS, t \in THREADS : Threads(p) # t /\ Child(p) # t /\ p # t
  /\ \A p \in PROCS : Threads(p) \notin NODES /\ Child(p) \notin NODES
  /\ \A t \in THREADS : t # QueueHead /\ t # ThreadList /\ t \notin NODES \cup PROCS
  /\ \A p \in PROCS : p \notin NODES
  /\ THREADS \subseteq ListCells /\ PROCS \subseteq ListCells
  /\ ThreadList \in ListCells /\ ThreadList # QueueHead
<1>1. \A p, q \in PROCS : /\ Threads(p) # Child(q)
                          /\ (Threads(p) = Threads(q) => p = q)
                          /\ (Child(p) = Child(q) => p = q)
  BY DEF Threads, Child
<1>2. \A p \in PROCS : /\ Threads(p) # QueueHead /\ Child(p) # QueueHead
                       /\ Threads(p) # ThreadList /\ Child(p) # ThreadList
  BY DEF Threads, Child, QueueHead, ThreadList
<1>3. ThreadList # QueueHead
  BY DEF QueueHead, ThreadList
<1>4. /\ THREADS \subseteq ListCells /\ PROCS \subseteq ListCells /\ ThreadList \in ListCells
      /\ \A p \in PROCS : Threads(p) \in ListCells /\ Child(p) \in ListCells
  BY DEF ListCells
<1> QED
  BY <1>1, <1>2, <1>3, <1>4, CellsAssumption

\* The thread list of process p, read forwards, is t; its head points back to t.
ThreadRing(l, p, t) ==
  l[Threads(p)].next = t /\ l[Threads(p)].prev = t /\ l[t].next = Threads(p)

ThreadRings(l, ps, pr) == \A p \in ps : ThreadRing(l, p, pr[p].threads[1])

ChildRings(l, ps, pr) ==
  \A p \in ps : Ring(l, Child(p), pr[p].child) /\ Apart(Child(p), pr[p].child)

RingsHeld ==
  QueueHeld /\ ThreadRings(link, procs, proc) /\ ChildRings(link, procs, proc)

\* thread_init links a thread to the head of its process's list when that list
\* is empty, and again when the thread is the only one on it.
LEMMA RelinkedIs ==
  ASSUME NEW l \in Linking, NEW t \in THREADS, NEW p \in PROCS,
         l[Threads(p)] = [next |-> Threads(p), prev |-> Threads(p)]
           \/ ThreadRing(l, p, t)
  PROVE  LET m == list_add_before(list_init(l, t), Threads(p), t)
         IN /\ m \in Linking
            /\ ThreadRing(m, p, t)
            /\ \A c \in ListCells : c # t /\ c # Threads(p) => m[c] = l[c]
<1>1. PICK head : head = Threads(p)
  OBVIOUS
<1>2. head \in ListCells /\ t \in ListCells /\ head # t
  BY <1>1, CellKinds
<1>3. PICK k : k = list_init(l, t)
  OBVIOUS
<1>4. /\ k \in Linking /\ k[t] = [next |-> t, prev |-> t]
      /\ \A c \in ListCells : c # t => k[c] = l[c]
  BY <1>2, <1>3, ListInit
<1>5. PICK m : m = list_add_before(k, head, t)
  OBVIOUS
<1>6. CASE l[head] = [next |-> head, prev |-> head]
  <2>1. k[head].prev = head
    BY <1>2, <1>4, <1>6
  <2>2. /\ m \in Linking /\ m[t] = [next |-> head, prev |-> head]
        /\ m[head].prev = t /\ m[head].next = t
        /\ \A c \in ListCells \ {t, head} : m[c] = k[c]
    BY <1>2, <1>4, <1>5, <2>1, ListAdd
  <2>3. ThreadRing(m, p, t)
    BY <1>1, <2>2 DEF ThreadRing
  <2> QED
    BY <1>1, <1>3, <1>4, <1>5, <2>2, <2>3
<1>7. CASE ThreadRing(l, p, t)
  <2>1. k[head].prev = t /\ k[head].next = t
    BY <1>1, <1>2, <1>4, <1>7 DEF ThreadRing
  <2>2. PICK k1 : k1 = [k EXCEPT ![t].prev = t]
    OBVIOUS
  <2>3. PICK k2 : k2 = [k1 EXCEPT ![t].next = t]
    OBVIOUS
  <2>4. PICK k3 : k3 = [k2 EXCEPT ![t].next = head]
    OBVIOUS
  <2>5. PICK k4 : k4 = [k3 EXCEPT ![head].prev = t]
    OBVIOUS
  <2>6. m = k4
    BY <1>5, <2>1, <2>2, <2>3, <2>4, <2>5 DEF list_add_before, list_add
  <2>7. k1 \in Linking /\ \A c \in ListCells \ {t} : k1[c] = k[c]
    BY <1>2, <1>4, <2>2 DEF Linking, Pointers
  <2>8. k2 \in Linking /\ \A c \in ListCells \ {t} : k2[c] = k[c]
    BY <1>2, <2>3, <2>7 DEF Linking, Pointers
  <2>9. k3 \in Linking /\ k3[t].next = head /\ \A c \in ListCells \ {t} : k3[c] = k[c]
    BY <1>2, <2>4, <2>8 DEF Linking, Pointers
  <2>10. /\ k4 \in Linking /\ k4[head].prev = t /\ k4[head].next = k3[head].next
         /\ \A c \in ListCells \ {head} : k4[c] = k3[c]
    BY <1>2, <2>5, <2>9 DEF Linking, Pointers
  <2>11. ThreadRing(m, p, t)
    BY <1>1, <1>2, <2>1, <2>6, <2>9, <2>10 DEF ThreadRing
  <2> QED
    BY <1>1, <1>3, <1>4, <1>5, <2>6, <2>9, <2>10, <2>11
<1> QED
  BY <1>1, <1>6, <1>7

\* What proc_init and thread_init store for a new process p with thread t.
LEMMA NewLinksAre ==
  ASSUME link \in Linking, NEW t \in THREADS, NEW p \in PROCS,
         NEW par \in PROCS \cup {NULL}, NEW s \in Seq(PROCS),
         par # NULL =>
           /\ par # p /\ \A i \in 1 .. Len(s) : s[i] # p
           /\ Ring(link, Child(par), s) /\ Apart(Child(par), s)
  PROVE  LET m == NewLinks(t, p, par)
         IN /\ m \in Linking
            /\ ThreadRing(m, p, t)
            /\ m[Child(p)] = [next |-> Child(p), prev |-> Child(p)]
            /\ par # NULL => /\ Ring(m, Child(par), Append(s, p))
                             /\ Apart(Child(par), Append(s, p))
            /\ \A c \in ListCells :
                 (/\ c # p /\ c # t /\ c # Threads(p) /\ c # Child(p)
                  /\ par # NULL => c # Child(par) /\ \A i \in 1 .. Len(s) : s[i] # c)
                  => m[c] = link[c]
<1>1. /\ p \in ListCells /\ t \in ListCells /\ Threads(p) \in ListCells /\ Child(p) \in ListCells
      /\ p # t /\ Threads(p) # p /\ Threads(p) # t /\ Child(p) # p /\ Child(p) # t
      /\ Threads(p) # Child(p)
  BY CellKinds
<1>2. PICK a : a = list_init(link, p)
  OBVIOUS
<1>3. a \in Linking /\ \A c \in ListCells : c # p => a[c] = link[c]
  <2>1. link \in Linking /\ p \in ListCells
    BY <1>1
  <2> QED
    BY ONLY <1>2, <2>1, ListInit
<1>4. PICK b : b = list_init(a, Threads(p))
  OBVIOUS
<1>5. /\ b \in Linking /\ b[Threads(p)] = [next |-> Threads(p), prev |-> Threads(p)]
      /\ \A c \in ListCells : c # Threads(p) => b[c] = a[c]
  BY <1>1, <1>3, <1>4, ListInit
<1>6. PICK own : own = list_init(b, Child(p))
  OBVIOUS
<1>7. /\ own \in Linking /\ own[Child(p)] = [next |-> Child(p), prev |-> Child(p)]
      /\ own[Threads(p)] = [next |-> Threads(p), prev |-> Threads(p)]
      /\ \A c \in ListCells : c # p /\ c # Threads(p) /\ c # Child(p) => own[c] = link[c]
  BY <1>1, <1>3, <1>5, <1>6, ListInit
<1>8. PICK known : known = IF par = NULL THEN own ELSE list_add_before(own, Child(par), p)
  OBVIOUS
<1>9. NewLinks(t, p, par) = list_add_before(list_init(known, t), Threads(p), t)
  BY <1>2, <1>4, <1>6, <1>8 DEF NewLinks
<1>10. /\ known \in Linking
       /\ known[Child(p)] = own[Child(p)] /\ known[Threads(p)] = own[Threads(p)]
       /\ par # NULL => /\ Ring(known, Child(par), Append(s, p))
                        /\ Apart(Child(par), Append(s, p))
       /\ \A c \in ListCells :
             (c # p /\ (par # NULL => c # Child(par) /\ \A i \in 1 .. Len(s) : s[i] # c))
               => known[c] = own[c]
  <2>1. CASE par = NULL
    BY <1>7, <1>8, <2>1
  <2>2. CASE par # NULL
    <3>1. par \in PROCS /\ par # p /\ Child(par) \in ListCells /\ known = list_add_before(own, Child(par), p)
      BY <1>8, <2>2, CellKinds
    <3>2. s \in Seq(ListCells) /\ \A i \in 1 .. Len(s) : s[i] \in PROCS /\ s[i] \in ListCells
      <4>1. PICK C : C = ListCells
        OBVIOUS
      <4>2. PROCS \subseteq C
        BY <4>1, CellKinds
      <4>3. s \in Seq(C) /\ \A i \in 1 .. Len(s) : s[i] \in PROCS /\ s[i] \in C
        BY ONLY <4>2, s \in Seq(PROCS)
      <4> QED
        BY <4>1, <4>3
    <3>3. \A i \in 1 .. Len(s) : /\ s[i] # p /\ s[i] # Threads(p) /\ s[i] # Child(p)
      BY <2>2, <3>2, CellKinds
    <3>4. Child(par) # p /\ Child(par) # Threads(p) /\ Child(par) # Child(p)
      BY <3>1, CellKinds
    <3>5. own[Child(par)] = link[Child(par)] /\ \A i \in 1 .. Len(s) : own[s[i]] = link[s[i]]
      BY <1>7, <3>1, <3>2, <3>3, <3>4
    <3>6. Ring(own, Child(par), s)
      BY <2>2, <3>1, <3>2, <3>5, RingSame
    <3>7. /\ known \in Linking
          /\ Ring(known, Child(par), Append(s, p)) /\ Apart(Child(par), Append(s, p))
          /\ \A c \in ListCells :
               c # p /\ c # Child(par) /\ (\A i \in 1 .. Len(s) : s[i] # c) => known[c] = own[c]
      <4>1. Child(par) # p /\ \A i \in 1 .. Len(s) : s[i] # p
        BY <3>3, <3>4
      <4>2. PICK head : head = Child(par)
        OBVIOUS
      <4>3. /\ own \in Linking /\ head \in ListCells /\ s \in Seq(ListCells) /\ p \in ListCells
            /\ Ring(own, head, s) /\ Apart(head, s) /\ p # head
            /\ \A i \in 1 .. Len(s) : s[i] # p
            /\ known = list_add_before(own, head, p)
        BY <1>1, <1>7, <2>2, <3>1, <3>2, <3>6, <4>1, <4>2
      <4>4. /\ known \in Linking
            /\ Ring(known, head, Append(s, p)) /\ Apart(head, Append(s, p))
            /\ \A c \in ListCells :
                 c # p /\ c # head /\ (\A i \in 1 .. Len(s) : s[i] # c) => known[c] = own[c]
        BY ONLY <4>3, RingGrows
      <4> QED
        BY <4>2, <4>4
    <3>8. \A i \in 1 .. Len(s) : s[i] # Threads(p) /\ s[i] # Child(p)
      BY <3>3
    <3>9. known[Child(p)] = own[Child(p)] /\ known[Threads(p)] = own[Threads(p)]
      BY <1>1, <3>4, <3>7, <3>8
    <3>10. par # NULL => Ring(known, Child(par), Append(s, p)) /\ Apart(Child(par), Append(s, p))
      BY <3>7
    <3>11. ASSUME NEW c \in ListCells, c # p,
                  par # NULL => c # Child(par) /\ \A i \in 1 .. Len(s) : s[i] # c
           PROVE  known[c] = own[c]
      BY <2>2, <3>7, <3>11
    <3> QED
      BY <3>7, <3>9, <3>10, <3>11
  <2> QED
    BY <2>1, <2>2
<1>11. PICK m : m = NewLinks(t, p, par)
  OBVIOUS
<1>12. /\ m \in Linking /\ ThreadRing(m, p, t)
       /\ \A c \in ListCells : c # t /\ c # Threads(p) => m[c] = known[c]
  BY <1>7, <1>9, <1>10, <1>11, RelinkedIs
<1>13. m[Child(p)] = [next |-> Child(p), prev |-> Child(p)]
  BY <1>1, <1>7, <1>10, <1>12
<1>14. par # NULL => Ring(m, Child(par), Append(s, p))
  <2> SUFFICES ASSUME par # NULL PROVE Ring(m, Child(par), Append(s, p))
    OBVIOUS
  <2>1. PICK z : z = Append(s, p)
    OBVIOUS
  <2>2. z \in Seq(PROCS)
    BY <2>1
  <2>3. z \in Seq(ListCells) /\ \A i \in 1 .. Len(z) : z[i] \in PROCS /\ z[i] \in ListCells
    <3>1. PICK C : C = ListCells
      OBVIOUS
    <3>2. PROCS \subseteq C
      BY <3>1, CellKinds
    <3>3. z \in Seq(C) /\ \A i \in 1 .. Len(z) : z[i] \in PROCS /\ z[i] \in C
      BY ONLY <3>2, <2>2
    <3> QED
      BY <3>1, <3>3
  <2>4. \A i \in 1 .. Len(z) : z[i] # t /\ z[i] # Threads(p)
    BY <2>3, CellKinds
  <2>5. Child(par) \in ListCells /\ Child(par) # t /\ Child(par) # Threads(p)
    BY CellKinds
  <2>6. m[Child(par)] = known[Child(par)] /\ \A i \in 1 .. Len(z) : m[z[i]] = known[z[i]]
    BY <1>12, <2>3, <2>4, <2>5
  <2>7. Ring(known, Child(par), z)
    BY <1>10, <2>1
  <2>8. Ring(m, Child(par), z)
    BY ONLY <2>3, <2>5, <2>6, <2>7, RingSame
  <2> QED
    BY <2>1, <2>8
<1>15. ASSUME NEW c \in ListCells, c # p, c # t, c # Threads(p), c # Child(p),
              par # NULL => c # Child(par) /\ \A i \in 1 .. Len(s) : s[i] # c
       PROVE  m[c] = link[c]
  <2>1. m[c] = known[c]
    BY <1>12, <1>15
  <2>2. known[c] = own[c]
    BY <1>10, <1>15
  <2> QED
    BY <1>7, <1>15, <2>1, <2>2
<1>16. par # NULL => Apart(Child(par), Append(s, p))
  BY <1>10
<1> QED
  BY <1>11, <1>12, <1>13, <1>14, <1>15, <1>16

\* A process's lists, by the invariants of Sched.
LEMMA ListsOfProcesses ==
  ASSUME IInv
  PROVE  /\ procs \subseteq PROCS /\ threads \subseteq THREADS
         /\ \A p \in procs :
              /\ proc[p].child \in Seq(PROCS)
              /\ \A i \in 1 .. Len(proc[p].child) : proc[p].child[i] \in procs
              /\ proc[p].threads[1] \in threads /\ proc[p].threads[1] \in THREADS
              /\ proc[p].threads = <<proc[p].threads[1]>>
         /\ \A p, q \in procs : proc[p].threads[1] = proc[q].threads[1] => p = q
<1>1. /\ procs \subseteq PROCS /\ threads \subseteq THREADS
      /\ \A p \in procs : proc[p] \in Process
      /\ OneThread /\ ChildrenTaken
  BY DEF IInv, TypeOK
<1>2. ASSUME NEW p \in procs
      PROVE  /\ proc[p].child \in Seq(PROCS)
             /\ \A i \in 1 .. Len(proc[p].child) : proc[p].child[i] \in procs
  <2>1. PICK s : s = proc[p].child
    OBVIOUS
  <2>2. s \in Seq(PROCS)
    BY <1>1, <2>1 DEF Process
  <2>3. DOMAIN s = 1 .. Len(s)
    BY <2>2
  <2>4. \A i \in 1 .. Len(s) : s[i] \in procs
    BY <1>1, <2>1, <2>3 DEF ChildrenTaken, SetOf
  <2> QED
    BY <2>1, <2>2, <2>4
<1>3. ASSUME NEW p \in procs
      PROVE  /\ proc[p].threads[1] \in threads
             /\ proc[p].threads = <<proc[p].threads[1]>>
             /\ thread[proc[p].threads[1]].proc = p
  <2>1. PICK t \in threads : proc[p].threads = <<t>> /\ thread[t].proc = p
    BY <1>1 DEF OneThread
  <2>2. proc[p].threads[1] = t
    BY <2>1
  <2> QED
    BY <2>1, <2>2
<1> QED
  BY <1>1, <1>2, <1>3

\* The rings of the processes are as safe as their cells.
LEMMA RingsElsewhere ==
  ASSUME NEW l, NEW m, SameElsewhere(l, m), NEW ps, NEW pr, ps \subseteq PROCS,
         \A p \in ps : pr[p].child \in Seq(PROCS) /\ pr[p].threads[1] \in THREADS,
         ThreadRings(l, ps, pr), ChildRings(l, ps, pr)
  PROVE  ThreadRings(m, ps, pr) /\ ChildRings(m, ps, pr)
<1>1. /\ \A p \in PROCS : m[Threads(p)] = l[Threads(p)] /\ m[Child(p)] = l[Child(p)]
      /\ \A p \in PROCS : m[p] = l[p]
      /\ \A t \in THREADS : m[t] = l[t]
  BY CellKinds DEF SameElsewhere
<1>2. ThreadRings(m, ps, pr)
  BY <1>1 DEF ThreadRings, ThreadRing
<1>3. ASSUME NEW p \in ps PROVE Ring(m, Child(p), pr[p].child) /\ Apart(Child(p), pr[p].child)
  <2>1. PICK s : s = pr[p].child
    OBVIOUS
  <2>2. s \in Seq(PROCS) /\ Ring(l, Child(p), s) /\ Apart(Child(p), s) /\ Child(p) \in ListCells
    BY <2>1, CellKinds DEF ChildRings
  <2>3. PICK C : C = ListCells
    OBVIOUS
  <2>4. PROCS \subseteq C
    BY <2>3, CellKinds
  <2>5. s \in Seq(C) /\ \A i \in 1 .. Len(s) : s[i] \in PROCS
    BY ONLY <2>2, <2>4
  <2>6. m[Child(p)] = l[Child(p)] /\ \A i \in 1 .. Len(s) : m[s[i]] = l[s[i]]
    BY <1>1, <2>5
  <2>7. s \in Seq(ListCells)
    BY <2>3, <2>5
  <2>8. Ring(m, Child(p), s)
    BY ONLY <2>2, <2>6, <2>7, RingSame
  <2> QED
    BY <2>1, <2>2, <2>8
<1> QED
  BY <1>2, <1>3 DEF ChildRings

\* A new process gets rings of its own, and its parent's grows.
LEMMA NewProcessRings ==
  ASSUME IInv, FamilyInv, RingsHeld,
         NEW t \in THREADS, NEW p \in PROCS, NEW m \in MAPS, NEW par \in procs \cup {NULL},
         NewProcess(t, p, m, par), Enqueued(Queue(NewLinks(t, p, par)), t)
  PROVE  RingsHeld'
<1>1. PICK newpid \in Ids \cup {NoId} :
        /\ p \notin procs /\ t \notin threads
        /\ procs' = procs \cup {p}
        /\ proc' = ProcessesWith(p, newpid, par, t, m)
        /\ ready_queue' = Enqueue(ready_queue, t)
  BY DEF NewProcess
<1>2. /\ procs \subseteq PROCS /\ threads \subseteq THREADS
      /\ \A q \in procs :
           /\ proc[q].child \in Seq(PROCS)
           /\ \A i \in 1 .. Len(proc[q].child) : proc[q].child[i] \in procs
           /\ proc[q].threads[1] \in threads /\ proc[q].threads[1] \in THREADS
      /\ \A q, r \in procs : proc[q].threads[1] = proc[r].threads[1] => q = r
  BY ListsOfProcesses
<1>3. PICK s \in Seq(PROCS) : par # NULL => s = proc[par].child
  <2>1. CASE par = NULL
    <3>1. <<>> \in Seq(PROCS)
      OBVIOUS
    <3> QED
      BY <2>1, <3>1
  <2>2. CASE par # NULL
    BY <1>2, <2>2
  <2> QED
    BY <2>1, <2>2
<1>4. PICK z : Holds(Queue(link), z, ready_queue)
  BY DEF RingsHeld, QueueHeld
<1>5. link \in Linking
  BY <1>4 DEF Holds, Queue
<1>6. PICK n : n = NewLinks(t, p, par)
  OBVIOUS
<1>7. \A i \in 1 .. Len(s) : par # NULL => s[i] \in procs
  BY <1>2, <1>3
<1>8. /\ n \in Linking
      /\ ThreadRing(n, p, t)
      /\ n[Child(p)] = [next |-> Child(p), prev |-> Child(p)]
      /\ par # NULL => /\ Ring(n, Child(par), Append(s, p))
                       /\ Apart(Child(par), Append(s, p))
      /\ \A c \in ListCells :
           (/\ c # p /\ c # t /\ c # Threads(p) /\ c # Child(p)
            /\ par # NULL => c # Child(par) /\ \A i \in 1 .. Len(s) : s[i] # c)
            => n[c] = link[c]
  <2>1. par \in PROCS \cup {NULL}
    BY <1>2
  <2>2. par # NULL =>
          /\ par # p /\ \A i \in 1 .. Len(s) : s[i] # p
          /\ Ring(link, Child(par), s) /\ Apart(Child(par), s)
    BY <1>1, <1>3, <1>7 DEF RingsHeld, ChildRings
  <2> QED
    BY <1>5, <1>6, <2>1, <2>2, NewLinksAre
\* The queue, in which only the new thread is enqueued.
<1>9. \A c \in {QueueHead} \cup NODES : n[c] = link[c]
  <2>1. SUFFICES ASSUME NEW c \in {QueueHead} \cup NODES PROVE n[c] = link[c]
    OBVIOUS
  <2>2. c \in ListCells /\ c # p /\ c # t /\ c # Threads(p) /\ c # Child(p)
    BY <2>1, CellKinds, QueueCells
  <2>3. par # NULL => c # Child(par) /\ \A i \in 1 .. Len(s) : s[i] # c
    BY <1>2, <1>7, <2>1, CellKinds, QueueCells
  <2> QED
    BY <1>8, <2>2, <2>3
<1>10. Holds(Queue(n), z, ready_queue)
  <2>1. Queue(link).link = link /\ Queue(n).link = n
        /\ Queue(n).content = Queue(link).content /\ Queue(n).length = Queue(link).length
    BY DEF Queue
  <2>2. z \in Seq(NODES) /\ Ring(link, QueueHead, z)
    BY <1>4, <2>1 DEF Holds
  <2>3. z \in Seq(ListCells) /\ QueueHead \in ListCells
    BY <2>2, QueueCells
  <2>4. n[QueueHead] = link[QueueHead] /\ \A i \in 1 .. Len(z) : n[z[i]] = link[z[i]]
    BY <1>9, <2>2
  <2>5. Ring(n, QueueHead, z)
    BY ONLY <2>2, <2>3, <2>4, RingSame
  <2> QED
    BY <1>4, <1>8, <2>1, <2>5 DEF Holds
<1>11. /\ \E y : Holds(Queue(link)', y, Append(ready_queue, t))
       /\ SameElsewhere(n, link')
  <2>1. PICK q : q = Queue(n)
    OBVIOUS
  <2>2. Holds(q, z, ready_queue) /\ Enqueued(q, t) /\ q.link = n
    BY <1>6, <1>10, <2>1 DEF Queue
  <2> QED
    BY <2>2, EnqueuedHolds
<1>12. QueueHeld'
  BY <1>1, <1>11 DEF QueueHeld, Enqueue
\* The rings of the processes.
<1>13. /\ proc'[p].threads[1] = t /\ proc'[p].child = <<>>
       /\ \A q \in procs : /\ proc'[q].threads = proc[q].threads
                            /\ proc'[q].child = IF q = par THEN Append(s, p) ELSE proc[q].child
  <2>1. proc'[p].threads[1] = t /\ proc'[p].child = <<>>
    BY <1>1 DEF ProcessesWith
  <2>2. ASSUME NEW q \in procs
        PROVE  /\ proc'[q].threads = proc[q].threads
               /\ proc'[q].child = IF q = par THEN Append(s, p) ELSE proc[q].child
    <3>1. q # p /\ q \in PROCS /\ proc[q] \in Process /\ q # NULL
      BY <1>1, <1>2, SchedAssumption DEF IInv, TypeOK
    <3>2. CASE q = par
      <4>1. proc'[q] = [proc[q] EXCEPT !.child = Append(@, p)]
        BY <1>1, <3>1, <3>2 DEF ProcessesWith
      <4>2. s = proc[q].child
        BY <1>3, <3>1, <3>2
      <4>3. PICK r \in Process : r = proc[q]
        BY <3>1
      <4>4. proc'[q].threads = r.threads /\ proc'[q].child = Append(r.child, p)
        BY <4>1, <4>3 DEF Process
      <4> QED
        BY <3>2, <4>2, <4>3, <4>4
    <3>3. CASE q # par
      BY <1>1, <3>1, <3>3 DEF ProcessesWith
    <3> QED
      BY <3>2, <3>3
  <2> QED
    BY <2>1, <2>2
<1>14. ThreadRings(n, procs', proc')
  <2>1. SUFFICES ASSUME NEW q \in procs' PROVE ThreadRing(n, q, proc'[q].threads[1])
    BY DEF ThreadRings
  <2>2. CASE q = p
    BY <1>8, <1>13, <2>2
  <2>3. CASE q \in procs
    <3>1. PICK u : u = proc[q].threads[1]
      OBVIOUS
    <3>2. u \in THREADS /\ u # t /\ q \in PROCS /\ q # p /\ proc'[q].threads[1] = u
      BY <1>1, <1>2, <1>13, <2>3, <3>1
    <3>3. ThreadRing(link, q, u)
      BY <2>3, <3>1 DEF RingsHeld, ThreadRings
    <3>4. n[u] = link[u]
      <4>1. u \in ListCells /\ u # p /\ u # Threads(p) /\ u # Child(p)
        BY <3>2, CellKinds
      <4>2. par # NULL => u # Child(par) /\ \A i \in 1 .. Len(s) : s[i] # u
        BY <1>2, <1>7, <3>2, CellKinds
      <4> QED
        BY <1>8, <3>2, <4>1, <4>2
    <3>5. n[Threads(q)] = link[Threads(q)]
      <4>1. /\ Threads(q) \in ListCells /\ Threads(q) # p /\ Threads(q) # t
            /\ Threads(q) # Threads(p) /\ Threads(q) # Child(p)
        BY <3>2, CellKinds
      <4>2. par # NULL => Threads(q) # Child(par) /\ \A i \in 1 .. Len(s) : s[i] # Threads(q)
        BY <1>2, <1>7, <3>2, CellKinds
      <4> QED
        BY <1>8, <4>1, <4>2
    <3> QED
      BY <3>2, <3>3, <3>4, <3>5 DEF ThreadRing
  <2> QED
    BY <1>1, <2>2, <2>3
<1>15. ChildRings(n, procs', proc')
  <2>1. SUFFICES ASSUME NEW q \in procs'
                 PROVE  Ring(n, Child(q), proc'[q].child) /\ Apart(Child(q), proc'[q].child)
    BY DEF ChildRings
  <2>2. CASE q = p
    <3>1. Len(<<>>) = 0 /\ \A i \in 0 .. 0 : i = 0 /\ i + 1 = 1
      OBVIOUS
    <3>2. \A i \in 0 .. 1 : At(Child(p), <<>>, i) = Child(p)
      BY DEF At
    <3>3. Ring(n, Child(p), <<>>) /\ Apart(Child(p), <<>>)
      BY <1>8, <3>1, <3>2 DEF Ring, Apart
    <3> QED
      BY <1>13, <2>2, <3>3
  <2>3. CASE q = par /\ q \in procs
    <3>1. par # NULL
      BY <1>2, <2>3, SchedAssumption
    <3> QED
      BY <1>8, <1>13, <2>3, <3>1
  <2>4. CASE q # par /\ q \in procs
    <3>1. PICK c : c = proc[q].child
      OBVIOUS
    <3>2. /\ c \in Seq(PROCS) /\ \A i \in 1 .. Len(c) : c[i] \in procs
          /\ Ring(link, Child(q), c) /\ Apart(Child(q), c) /\ proc'[q].child = c
          /\ q \in PROCS /\ q # p
      BY <1>1, <1>2, <1>13, <2>4, <3>1 DEF RingsHeld, ChildRings
    <3>3. \A i \in 1 .. Len(c), j \in 1 .. Len(s) : par # NULL => s[j] # c[i]
      <4>1. SUFFICES ASSUME par # NULL, NEW i \in 1 .. Len(c), NEW j \in 1 .. Len(s), s[j] = c[i]
                     PROVE  FALSE
        OBVIOUS
      <4>2. par \in procs /\ q \in procs /\ s = proc[par].child
        BY <1>3, <2>4, <4>1
      <4>3. DOMAIN c = 1 .. Len(c) /\ DOMAIN s = 1 .. Len(s)
        BY <3>2
      <4>4. c[i] \in Children(q) /\ c[i] \in Children(par)
        BY <3>1, <4>1, <4>2, <4>3 DEF Children, SetOf
      <4> QED
        BY <2>4, <4>2, <4>4 DEF FamilyInv, OneList
    <3>4. \A i \in 1 .. Len(c) : n[c[i]] = link[c[i]]
      <4>1. SUFFICES ASSUME NEW i \in 1 .. Len(c) PROVE n[c[i]] = link[c[i]]
        OBVIOUS
      <4>2. c[i] \in PROCS /\ c[i] # p
        BY <1>1, <1>2, <3>2
      <4>3. /\ c[i] \in ListCells /\ c[i] # t /\ c[i] # Threads(p) /\ c[i] # Child(p)
            /\ par # NULL => c[i] # Child(par)
        BY <1>2, <4>2, CellKinds
      <4> QED
        BY <1>8, <3>3, <4>2, <4>3
    <3>5. n[Child(q)] = link[Child(q)]
      <4>1. /\ Child(q) \in ListCells /\ Child(q) # p /\ Child(q) # t
            /\ Child(q) # Threads(p) /\ Child(q) # Child(p)
        BY <3>2, CellKinds
      <4>2. par # NULL => Child(q) # Child(par) /\ \A i \in 1 .. Len(s) : s[i] # Child(q)
        BY <1>2, <1>7, <2>4, <3>2, CellKinds
      <4> QED
        BY <1>8, <4>1, <4>2
    <3>6. c \in Seq(ListCells)
      <4>1. PICK C : C = ListCells
        OBVIOUS
      <4>2. PROCS \subseteq C
        BY <4>1, CellKinds
      <4>3. c \in Seq(C)
        BY ONLY <3>2, <4>2
      <4> QED
        BY <4>1, <4>3
    <3>7. Child(q) \in ListCells
      BY <3>2, CellKinds
    <3>8. Ring(n, Child(q), c)
      BY ONLY <3>2, <3>4, <3>5, <3>6, <3>7, RingSame
    <3> QED
      BY <3>2, <3>8
  <2> QED
    BY <1>1, <2>2, <2>3, <2>4
<1>16. ThreadRings(link', procs', proc') /\ ChildRings(link', procs', proc')
  <2>1. /\ procs' \subseteq PROCS
        /\ \A q \in procs' : proc'[q].child \in Seq(PROCS) /\ proc'[q].threads[1] \in THREADS
    <3>1. procs' \subseteq PROCS
      BY <1>1, <1>2
    <3>2. ASSUME NEW q \in procs'
          PROVE  proc'[q].child \in Seq(PROCS) /\ proc'[q].threads[1] \in THREADS
      <4>1. CASE q = p
        <5>1. <<>> \in Seq(PROCS)
          OBVIOUS
        <5> QED
          BY <1>13, <4>1, <5>1
      <4>2. CASE q \in procs
        <5>1. Append(s, p) \in Seq(PROCS)
          OBVIOUS
        <5> QED
          BY <1>2, <1>13, <4>2, <5>1
      <4> QED
        BY <1>1, <4>1, <4>2
    <3> QED
      BY <3>1, <3>2
  <2> QED
    BY <1>11, <1>14, <1>15, <2>1, RingsElsewhere
<1> QED
  BY <1>12, <1>16 DEF RingsHeld

\* sched_init leaves one node in the queue and no process.
LEMMA LinkedInitRings == LinkedInit => RingsHeld
<1> SUFFICES ASSUME LinkedInit PROVE RingsHeld
  OBVIOUS
<1>1. PICK k : k = KernelThread
  OBVIOUS
<1>2. /\ k \in THREADS /\ k \in ListCells /\ k # QueueHead /\ k # ThreadList
      /\ QueueHead \in ListCells /\ ThreadList \in ListCells /\ ThreadList # QueueHead
  BY <1>1, SchedAssumption, CellKinds, QueueCells
<1>3. Unset \in Linking
  BY DEF Unset, Linking, Pointers
<1>4. PICK a : a = list_init(Unset, ThreadList)
  OBVIOUS
<1>5. a \in Linking /\ a[ThreadList] = [next |-> ThreadList, prev |-> ThreadList]
  BY <1>2, <1>3, <1>4, ListInit
<1>6. PICK b : b = list_init(a, QueueHead)
  OBVIOUS
<1>7. /\ b \in Linking /\ b[QueueHead] = [next |-> QueueHead, prev |-> QueueHead]
      /\ b[ThreadList].prev = ThreadList
  BY <1>2, <1>5, <1>6, ListInit
<1>8. PICK c : c = list_add_before(b, ThreadList, k)
  OBVIOUS
<1>9. c \in Linking /\ c[QueueHead] = [next |-> QueueHead, prev |-> QueueHead]
  <2>1. PICK head : head = ThreadList
    OBVIOUS
  <2>2. /\ head \in ListCells /\ k \in ListCells /\ head # k /\ b \in Linking
        /\ b[head].prev = head /\ c = list_add_before(b, head, k)
    BY <1>2, <1>7, <1>8, <2>1
  <2>3. /\ c \in Linking /\ c[k] = [next |-> head, prev |-> head]
        /\ c[head].prev = k /\ c[head].next = k
        /\ \A d \in ListCells \ {k, head} : c[d] = b[d]
    BY <2>2, ListAdd
  <2> QED
    BY <1>2, <1>7, <2>1, <2>3
<1>10. PICK none : none = [n \in NODES |-> NULL]
  OBVIOUS
<1>11. PICK q : q = [link |-> c, content |-> none, length |-> 0]
  OBVIOUS
<1>12. Holds(q, <<>>, <<>>)
  <2>1. q.link = c /\ q.content = none /\ q.length = 0
    BY <1>11
  <2>2. /\ <<>> \in Seq(NODES) /\ <<>> \in Seq(THREADS) /\ Len(<<>>) = 0
        /\ none \in [NODES -> THREADS \cup {NULL}] /\ \A n \in NODES : none[n] = NULL
    BY <1>10
  <2>3. \A i \in 0 .. 0 : i = 0 /\ i + 1 = 1
    OBVIOUS
  <2>4. \A i \in 0 .. 1 : At(QueueHead, <<>>, i) = QueueHead
    BY DEF At
  <2>5. Ring(c, QueueHead, <<>>) /\ Apart(QueueHead, <<>>)
    BY <1>9, <2>2, <2>3, <2>4 DEF Ring, Apart
  <2> QED
    BY <1>9, <2>1, <2>2, <2>5 DEF Holds
<1>13. PICK node \in NODES :
         LET e == queue_enqueue(q, QueueHead, node, k)
         IN link = e.link /\ content = e.content /\ length = e.length
  BY <1>1, <1>4, <1>6, <1>8, <1>10, <1>11 DEF LinkedInit
<1>14. PICK e : e = queue_enqueue(q, QueueHead, node, k)
  OBVIOUS
<1>15. Holds(e, Append(<<>>, node), Append(<<>>, k))
  <2>1. q.content[node] = NULL
    BY <1>10, <1>11
  <2> QED
    BY <1>2, <1>12, <1>14, <2>1, EnqueueHolds
<1>16. Queue(link) = e
  BY <1>13, <1>14 DEF Queue, queue_enqueue
<1>17. ready_queue = Append(<<>>, k)
  BY <1>1 DEF LinkedInit, Init
<1>18. procs = {}
  BY DEF LinkedInit, Init
<1> QED
  BY <1>15, <1>16, <1>17, <1>18 DEF RingsHeld, QueueHeld, ThreadRings, ChildRings

\* A handler that dispatches moves nodes only; fork and the first exec add
\* rings; exec stores to the ring of its own thread.
LEMMA LinkedStep == ASSUME IInv, FamilyInv, RingsHeld, [LinkedNext]_linkedVars PROVE RingsHeld'
<1>1. /\ procs \subseteq PROCS /\ threads \subseteq THREADS
      /\ \A p \in procs :
           /\ proc[p].child \in Seq(PROCS)
           /\ \A i \in 1 .. Len(proc[p].child) : proc[p].child[i] \in procs
           /\ proc[p].threads[1] \in threads /\ proc[p].threads[1] \in THREADS
           /\ proc[p].threads = <<proc[p].threads[1]>>
      /\ \A p, q \in procs : proc[p].threads[1] = proc[q].threads[1] => p = q
  BY ListsOfProcesses
<1>2. QueueHeld /\ ThreadRings(link, procs, proc) /\ ChildRings(link, procs, proc)
  BY DEF RingsHeld
\* No list changes.
<1>3. ASSUME UNCHANGED lists, UNCHANGED <<ready_queue, procs, proc>> PROVE RingsHeld'
  BY <1>2, <1>3 DEF RingsHeld, QueueHeld, Queue, lists
\* The queue may change, and processes change in other fields than their lists.
<1>4. ASSUME QueueHeld', SameElsewhere(link, link'), procs' = procs,
             \A p \in procs : proc'[p].threads = proc[p].threads /\ proc'[p].child = proc[p].child
      PROVE  RingsHeld'
  <2>1. ThreadRings(link', procs, proc) /\ ChildRings(link', procs, proc)
    BY <1>1, <1>2, <1>4, RingsElsewhere
  <2> QED
    BY <1>4, <2>1 DEF RingsHeld, ThreadRings, ChildRings
<1>5. CASE LinkedTick
  <2>1. Dispatch(ContextSaved, proc) /\ Rotate(ContextSaved) /\ procs' = procs /\ proc' = proc
    BY <1>5 DEF LinkedTick, TimerTick
  <2>2. QueueHeld' /\ SameElsewhere(link, link')
    BY <1>2, <2>1, RotateHolds
  <2> QED
    BY <1>4, <2>1, <2>2
<1>6. CASE LinkedExit
  <2>1. PICK x : x = current_proc
    OBVIOUS
  <2>2. /\ Dispatch(ThreadsAfterExit(x), ProcessesAfterExit(x)) /\ Rotate(ThreadsAfterExit(x))
        /\ procs' = procs /\ proc' = ProcessesAfterExit(x)
    BY <1>6, <2>1 DEF LinkedExit, Exit
  <2>3. QueueHeld' /\ SameElsewhere(link, link')
    BY <1>2, <2>2, RotateHolds
  <2>4. ASSUME NEW p \in procs
        PROVE  proc'[p].threads = proc[p].threads /\ proc'[p].child = proc[p].child
    <3>1. p \in PROCS /\ proc[p] \in Process
      BY DEF IInv, TypeOK
    <3>2. PICK r \in Process : r = proc[p]
      BY <3>1
    <3>3. \/ proc'[p] = [r EXCEPT !.status = Stopped]
          \/ proc'[p] = [r EXCEPT !.parent = proc[x].parent]
          \/ proc'[p] = r
      BY <2>2, <3>1, <3>2 DEF ProcessesAfterExit
    <3> QED
      BY <3>2, <3>3 DEF Process
  <2> QED
    BY <1>4, <2>2, <2>3, <2>4
<1>7. ASSUME NEW m \in MAPS, LinkedExec(m) PROVE RingsHeld'
  <2>1. PICK x : x = current_proc
    OBVIOUS
  <2>2. PICK t : t = current_thread
    OBVIOUS
  <2>3. /\ x \in procs /\ x \in PROCS /\ t \in THREADS /\ proc[x].threads[1] = t
    <3>1. x # NULL /\ thread[t].proc = x /\ t \in threads
      BY <1>7, <2>1, <2>2 DEF LinkedExec, Exec, IInv, RunsInOwnMemory, LiveThread
    <3>2. x \in procs /\ proc[x].threads = <<t>>
      BY <3>1 DEF IInv, OneThread
    <3> QED
      BY <1>1, <3>1, <3>2
  <2>4. /\ link' = Relinked(t, x) /\ content' = content /\ length' = length
        /\ procs' = procs /\ ready_queue' = ready_queue
        /\ proc' = [proc EXCEPT ![x].vm_map = m]
    BY <1>7, <2>1, <2>2 DEF LinkedExec, Exec
  <2>5. PICK z : Holds(Queue(link), z, ready_queue)
    BY <1>2 DEF QueueHeld
  <2>6. link \in Linking
    BY <2>5 DEF Holds, Queue
  <2>7. PICK n : n = Relinked(t, x)
    OBVIOUS
  <2>8. /\ n \in Linking /\ ThreadRing(n, x, t)
        /\ \A c \in ListCells : c # t /\ c # Threads(x) => n[c] = link[c]
    <3>1. ThreadRing(link, x, t)
      BY <1>2, <2>3 DEF ThreadRings
    <3> QED
      BY <2>3, <2>6, <2>7, <3>1, RelinkedIs DEF Relinked
  <2>9. QueueHeld'
    <3>1. Queue(link).link = link /\ Queue(link)'.link = n
          /\ Queue(link)'.content = Queue(link).content /\ Queue(link)'.length = Queue(link).length
      BY <2>4, <2>7 DEF Queue
    <3>2. z \in Seq(NODES) /\ Ring(link, QueueHead, z)
      BY <2>5, <3>1 DEF Holds
    <3>3. z \in Seq(ListCells) /\ QueueHead \in ListCells /\ NODES \subseteq ListCells
      BY <3>2, QueueCells
    <3>4. n[QueueHead] = link[QueueHead] /\ \A i \in 1 .. Len(z) : n[z[i]] = link[z[i]]
      <4>1. QueueHead # t /\ QueueHead # Threads(x)
        BY <2>3, CellKinds
      <4>2. \A i \in 1 .. Len(z) : z[i] \in NODES
        BY <3>2
      <4>3. \A c \in NODES : c # t /\ c # Threads(x)
        BY <2>3, CellKinds
      <4> QED
        BY <2>8, <3>3, <4>1, <4>2, <4>3
    <3>5. Ring(n, QueueHead, z)
      BY ONLY <3>2, <3>3, <3>4, RingSame
    <3>6. Holds(Queue(link)', z, ready_queue')
      BY <2>4, <2>5, <2>8, <3>1, <3>5 DEF Holds
    <3> QED
      BY <3>6 DEF QueueHeld
  <2>10. \A p \in procs : proc'[p].threads = proc[p].threads /\ proc'[p].child = proc[p].child
    <3>1. SUFFICES ASSUME NEW p \in procs
                   PROVE  proc'[p].threads = proc[p].threads /\ proc'[p].child = proc[p].child
      OBVIOUS
    <3>2. p \in PROCS /\ proc[p] \in Process /\ proc \in [PROCS -> Process \cup {NULL}]
      BY DEF IInv, TypeOK
    <3>3. PICK r \in Process : r = proc[p]
      BY <3>2
    <3>4. proc'[p] = r \/ proc'[p] = [r EXCEPT !.vm_map = m]
      BY <2>4, <3>2, <3>3
    <3> QED
      BY <3>3, <3>4 DEF Process
  <2>11. ThreadRings(n, procs, proc)
    <3>1. SUFFICES ASSUME NEW p \in procs PROVE ThreadRing(n, p, proc[p].threads[1])
      BY DEF ThreadRings
    <3>2. CASE p = x
      BY <2>3, <2>8, <3>2
    <3>3. CASE p # x
      <4>1. PICK u : u = proc[p].threads[1]
        OBVIOUS
      <4>2. u \in THREADS /\ u # t /\ p \in PROCS
        BY <1>1, <2>3, <3>3, <4>1
      <4>3. /\ u \in ListCells /\ u # Threads(x) /\ Threads(p) \in ListCells
            /\ Threads(p) # t /\ Threads(p) # Threads(x)
        BY <2>3, <3>3, <4>2, CellKinds
      <4>4. ThreadRing(link, p, u)
        BY <1>2, <4>1 DEF ThreadRings
      <4> QED
        BY <2>8, <4>1, <4>2, <4>3, <4>4 DEF ThreadRing
    <3> QED
      BY <3>2, <3>3
  <2>12. ChildRings(n, procs, proc)
    <3>1. SUFFICES ASSUME NEW p \in procs
                   PROVE  Ring(n, Child(p), proc[p].child) /\ Apart(Child(p), proc[p].child)
      BY DEF ChildRings
    <3>2. PICK s : s = proc[p].child
      OBVIOUS
    <3>3. s \in Seq(PROCS) /\ Ring(link, Child(p), s) /\ Apart(Child(p), s) /\ p \in PROCS
      BY <1>1, <1>2, <3>2 DEF ChildRings
    <3>4. PICK C : C = ListCells
      OBVIOUS
    <3>5. PROCS \subseteq C
      BY <3>4, CellKinds
    <3>6. s \in Seq(C) /\ \A i \in 1 .. Len(s) : s[i] \in PROCS /\ s[i] \in C
      BY ONLY <3>3, <3>5
    <3>7. \A q \in PROCS : q # t /\ q # Threads(x)
      BY <2>3, CellKinds
    <3>8. Child(p) \in ListCells /\ Child(p) # t /\ Child(p) # Threads(x)
      BY <2>3, <3>3, CellKinds
    <3>9. n[Child(p)] = link[Child(p)] /\ \A i \in 1 .. Len(s) : n[s[i]] = link[s[i]]
      BY <2>8, <3>4, <3>6, <3>7, <3>8
    <3>10. s \in Seq(ListCells)
      BY <3>4, <3>6
    <3>11. Ring(n, Child(p), s)
      BY ONLY <3>3, <3>8, <3>9, <3>10, RingSame
    <3> QED
      BY <3>2, <3>3, <3>11
  <2> QED
    BY <2>4, <2>7, <2>9, <2>10, <2>11, <2>12 DEF RingsHeld, ThreadRings, ChildRings
<1>8. ASSUME NEW t \in THREADS, NEW p \in PROCS, NEW m \in MAPS, LinkedExecFirst(t, p, m)
      PROVE  RingsHeld'
  BY <1>8, NewProcessRings DEF LinkedExecFirst, ExecFirst
<1>9. ASSUME NEW t \in THREADS, NEW p \in PROCS, NEW m \in MAPS, LinkedFork(t, p, m)
      PROVE  RingsHeld'
  <2>1. current_proc \in procs
    BY <1>9 DEF LinkedFork, Fork, IInv, RunsInOwnMemory, LiveProc
  <2> QED
    BY <1>9, <2>1, NewProcessRings DEF LinkedFork, Fork
<1>10. CASE LinkedForkNoMemory \/ LinkedUnmask
  BY <1>3, <1>10 DEF LinkedForkNoMemory, LinkedUnmask, ForkNoMemory, UnmaskTimer
<1>11. CASE UNCHANGED linkedVars
  BY <1>3, <1>11 DEF linkedVars, vars
<1> QED
  BY <1>5, <1>6, <1>7, <1>8, <1>9, <1>10, <1>11 DEF LinkedNext

\* The pointers beside, a step of the linked scheduler is a step of Sched.
LEMMA LinkedImplements == LinkedSpec => Spec
<1>1. LinkedInit => Init
  BY DEF LinkedInit
<1>2. [LinkedNext]_linkedVars => [Next]_vars
  BY DEF LinkedNext, Next, LinkedUnmask, LinkedTick, LinkedForkNoMemory, LinkedExit, LinkedExec,
         LinkedExecFirst, LinkedFork, linkedVars
<1> QED
  BY <1>1, <1>2, PTL DEF LinkedSpec, Spec

LEMMA RingsInvariance == LinkedSpec => [](IInv /\ RingsHeld)
<1>1. IInv /\ FamilyInv /\ RingsHeld /\ [LinkedNext]_linkedVars => RingsHeld'
  BY LinkedStep
<1> QED
  BY <1>1, LinkedInitRings, LinkedImplements, Invariance, FamilyInvariance, PTL DEF LinkedSpec

\* A ring of cells is walked both ways.
LEMMA RingWalks ==
  ASSUME NEW head \in ListCells, NEW s \in Seq(ListCells), Ring(link, head, s)
  PROVE  Walks(head, s) /\ WalksBack(head, s)
<1>1. PICK ring : ring = <<head>> \o s \o <<head>>
  OBVIOUS
<1>2. PICK N \in Nat : N = Len(s)
  OBVIOUS
<1>3. \A i \in 1 .. N + 2 : ring[i] = At(head, s, i - 1)
  <2>1. PICK C : C = ListCells
    OBVIOUS
  <2>2. /\ ring[1] = head /\ ring[N + 2] = head
        /\ \A i \in 1 .. N : ring[i + 1] = s[i]
    <3>1. PICK a : a = <<head>> \o s
      OBVIOUS
    <3>2. /\ a \in Seq(C) /\ Len(a) = N + 1 /\ a[1] = head
          /\ \A i \in 1 .. N : a[i + 1] = s[i]
      BY ONLY <1>2, <2>1, <3>1, head \in ListCells, s \in Seq(ListCells)
    <3>3. ring = Append(a, head)
      BY ONLY <1>1, <2>1, <3>1, <3>2, head \in ListCells
    <3>4. Len(Append(a, head)) = N + 2 /\ Append(a, head)[N + 2] = head
          /\ \A i \in 1 .. N + 1 : Append(a, head)[i] = a[i]
      BY ONLY <1>2, <3>2
    <3>5. 1 \in 1 .. N + 1 /\ \A i \in 1 .. N : i + 1 \in 1 .. N + 1
      BY ONLY <1>2
    <3> QED
      BY ONLY <3>2, <3>3, <3>4, <3>5
  <2>3. SUFFICES ASSUME NEW i \in 1 .. N + 2 PROVE ring[i] = At(head, s, i - 1)
    OBVIOUS
  <2>4. CASE i = 1 \/ i = N + 2
    BY <1>2, <2>2, <2>4 DEF At
  <2>5. CASE i \in 2 .. N + 1
    <3>1. i - 1 \in 1 .. N /\ (i - 1) + 1 = i
      BY ONLY <1>2, <2>5
    <3>2. ring[i] = s[i - 1]
      BY ONLY <2>2, <3>1
    <3> QED
      BY <1>2, <3>1, <3>2 DEF At
  <2> QED
    BY <2>4, <2>5
<1>4. ASSUME NEW i \in 1 .. N + 1
      PROVE  link[ring[i]].next = ring[i + 1] /\ link[ring[i + 1]].prev = ring[i]
  <2>1. PICK j : j \in 0 .. N /\ i = j + 1
    <3>1. i - 1 \in 0 .. N /\ i = (i - 1) + 1
      BY ONLY <1>2, <1>4
    <3> QED
      BY <3>1
  <2>2. ring[i] = At(head, s, j) /\ ring[i + 1] = At(head, s, j + 1)
    <3>1. i \in 1 .. N + 2 /\ i + 1 \in 1 .. N + 2 /\ i - 1 = j /\ (i + 1) - 1 = j + 1
      BY ONLY <1>2, <2>1
    <3> QED
      BY <1>3, <3>1
  <2>3. link[At(head, s, j)].next = At(head, s, j + 1) /\ link[At(head, s, j + 1)].prev = At(head, s, j)
    BY <1>2, <2>1 DEF Ring
  <2> QED
    BY <2>2, <2>3
<1>5. \A i \in 1 .. Len(s) + 1 :
        link[ring[i]].next = ring[i + 1] /\ link[ring[i + 1]].prev = ring[i]
  BY <1>2, <1>4
<1> QED
  BY <1>1, <1>5 DEF Walks, WalksBack

\* The pointers hold the sequences of Sched, for any number of threads,
\* processes and queue nodes: no dispatch, fork, exec or exit breaks a list,
\* though each frees or links cells that stand between others.
THEOREM ListsCorrect == LinkedSpec => []ListsHold
<1>1. ASSUME IInv, RingsHeld PROVE ListsHold
  <2>1. PICK r : r = ready_queue
    OBVIOUS
  <2>2. PICK s : Holds(Queue(link), s, r)
    BY <1>1, <2>1 DEF RingsHeld, QueueHeld
  <2>3. /\ content \in [NODES -> THREADS \cup {NULL}]
        /\ s \in Seq(NODES) /\ r \in Seq(THREADS) /\ Len(s) = Len(r) /\ length = Len(r)
        /\ Ring(link, QueueHead, s)
        /\ \A i \in 1 .. Len(s) : content[s[i]] = r[i]
        /\ \A node \in NODES : content[node] # NULL => \E i \in 1 .. Len(s) : s[i] = node
    BY <2>2 DEF Holds, Queue
  <2>4. DOMAIN r = 1 .. Len(s) /\ \A i \in 1 .. Len(s) : s[i] \in NODES /\ r[i] \in THREADS
    BY <2>3
  <2>5. \A i, j \in 1 .. Len(s) : r[i] = r[j] => i = j
    BY <1>1, <2>1, <2>4 DEF IInv, QueueHoldsLive
  <2>6. \A i \in 1 .. Len(s) : NodeOf(r[i]) = {s[i]}
    <3>1. SUFFICES ASSUME NEW i \in 1 .. Len(s) PROVE NodeOf(r[i]) = {s[i]}
      OBVIOUS
    <3>2. s[i] \in NodeOf(r[i])
      BY <2>3, <2>4 DEF NodeOf
    <3>3. ASSUME NEW node \in NodeOf(r[i]) PROVE node = s[i]
      <4>1. node \in NODES /\ content[node] = r[i] /\ r[i] # NULL
        BY <2>4, <3>3, SchedAssumption DEF NodeOf
      <4>2. PICK j \in 1 .. Len(s) : s[j] = node
        BY <2>3, <4>1
      <4>3. r[j] = r[i]
        BY <2>3, <4>1, <4>2
      <4> QED
        BY <2>5, <4>2, <4>3
    <3> QED
      BY <3>2, <3>3
  <2>7. ASSUME NEW t \in THREADS
        PROVE  /\ NodeOf(t) # {} <=> t \in SetOf(r)
               /\ \A a, b \in NodeOf(t) : a = b
    <3>1. ASSUME NEW node \in NodeOf(t) PROVE \E i \in 1 .. Len(s) : r[i] = t
      <4>1. node \in NODES /\ content[node] = t /\ t # NULL
        BY <3>1, SchedAssumption DEF NodeOf
      <4>2. PICK i \in 1 .. Len(s) : s[i] = node
        BY <2>3, <4>1
      <4> QED
        BY <2>3, <4>1, <4>2
    <3>2. t \in SetOf(r) <=> \E i \in 1 .. Len(s) : r[i] = t
      BY <2>4 DEF SetOf
    <3>3. ASSUME NEW a \in NodeOf(t), NEW b \in NodeOf(t) PROVE a = b
      BY <2>6, <3>1, <3>3
    <3> QED
      BY <2>6, <3>1, <3>2, <3>3
  <2>8. QueueNodes = s
    <3>1. \A i \in 1 .. Len(s) : (CHOOSE node \in NodeOf(r[i]) : TRUE) = s[i]
      BY <2>6
    <3>2. s = [i \in 1 .. Len(s) |-> s[i]]
      BY <2>3
    <3>3. QueueNodes = [i \in 1 .. Len(s) |-> CHOOSE node \in NodeOf(r[i]) : TRUE]
      BY <2>1, <2>4 DEF QueueNodes
    <3> QED
      BY ONLY <3>1, <3>2, <3>3
  <2>9. Walks(QueueHead, s) /\ WalksBack(QueueHead, s)
    <3>1. s \in Seq(ListCells) /\ QueueHead \in ListCells
      BY <2>3, QueueCells
    <3> QED
      BY <2>3, <3>1, RingWalks
  <2>10. ASSUME NEW p \in procs
         PROVE  /\ Walks(Threads(p), proc[p].threads)
                /\ link[Threads(p)].prev = proc[p].threads[1]
                /\ Walks(Child(p), proc[p].child) /\ WalksBack(Child(p), proc[p].child)
    <3>1. PICK t : t = proc[p].threads[1]
      OBVIOUS
    <3>2. /\ p \in PROCS /\ proc[p].child \in Seq(PROCS) /\ proc[p].threads = <<t>>
      BY <1>1, <3>1, ListsOfProcesses
    <3>3. PICK h : h = Threads(p)
      OBVIOUS
    <3>4. link[h].next = t /\ link[h].prev = t /\ link[t].next = h
      BY <1>1, <3>1, <3>3 DEF RingsHeld, ThreadRings, ThreadRing
    <3>5. Walks(h, <<t>>)
      <4>1. PICK ring : ring = <<h>> \o <<t>> \o <<h>>
        OBVIOUS
      <4>2. ring[1] = h /\ ring[2] = t /\ ring[3] = h /\ Len(<<t>>) = 1
        BY ONLY <4>1
      <4>3. \A i \in 1 .. 2 : (i = 1 \/ i = 2) /\ 1 + 1 = 2 /\ 2 + 1 = 3
        OBVIOUS
      <4>4. \A i \in 1 .. Len(<<t>>) + 1 : link[ring[i]].next = ring[i + 1]
        BY ONLY <3>4, <4>2, <4>3
      <4> QED
        BY ONLY <4>1, <4>4 DEF Walks
    <3>6. Walks(Child(p), proc[p].child) /\ WalksBack(Child(p), proc[p].child)
      <4>1. PICK c : c = proc[p].child
        OBVIOUS
      <4>2. Ring(link, Child(p), c) /\ c \in Seq(PROCS)
        BY <1>1, <3>2, <4>1 DEF RingsHeld, ChildRings
      <4>3. PICK C : C = ListCells
        OBVIOUS
      <4>4. PROCS \subseteq C
        BY <4>3, CellKinds
      <4>5. c \in Seq(C)
        BY ONLY <4>2, <4>4
      <4>6. c \in Seq(ListCells) /\ Child(p) \in ListCells
        BY <3>2, <4>3, <4>5, CellKinds
      <4> QED
        BY <4>1, <4>2, <4>6, RingWalks
    <3> QED
      BY <3>1, <3>2, <3>3, <3>4, <3>5, <3>6
  <2> QED
    BY <2>1, <2>3, <2>7, <2>8, <2>9, <2>10 DEF ListsHold
<1> QED
  BY <1>1, RingsInvariance, PTL
=============================================================================
