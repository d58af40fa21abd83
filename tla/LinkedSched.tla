---------------------------- MODULE LinkedSched ----------------------------
(***************************************************************************)
(* Module Sched with the lists that hold its sequences: the ready queue,   *)
(* whose nodes are allocated and freed with every dispatch, the thread     *)
(* list and the child list of every process, and sched_init's thread_list. *)
(*                                                                         *)
(* Every action is the action of Sched and, beside it, the stores that the *)
(* same handler makes to the pointers.  What the scheduler takes from the  *)
(* queue is read from the pointers here and from the sequence in Sched:    *)
(* ListsHold says that the two never differ.                               *)
(***************************************************************************)
EXTENDS Sched, Lists

CONSTANT NODES     \* the queue_node_t structures that malloc can return

VARIABLES
  link,            \* the pointers of every list_head_t
  content,         \* of a node of the ready queue; NULL when it is free
  length           \* of the ready queue

lists == <<link, content, length>>
linkedVars == <<vars, lists>>
-----------------------------------------------------------------------------
QueueHead  == <<"ready_queue", NULL>>
ThreadList == <<"thread_list", NULL>>
Threads(p) == <<"threads", p>>   \* the list heads in a proc_t; its own cell,
Child(p)   == <<"child", p>>     \* on its parent's child list, is p itself

ListCells ==
  {QueueHead, ThreadList} \cup NODES \cup THREADS \cup PROCS
    \cup {Threads(p) : p \in PROCS} \cup {Child(p) : p \in PROCS}

\* Structures and list heads are apart in memory.
ASSUME CellsAssumption ==
  /\ NULL \notin ListCells
  /\ NODES \cap THREADS = {} /\ NODES \cap PROCS = {} /\ THREADS \cap PROCS = {}
  /\ \A c \in NODES \cup THREADS \cup PROCS :
       /\ c # QueueHead /\ c # ThreadList
       /\ \A p \in PROCS : c # Threads(p) /\ c # Child(p)

Unset == [c \in ListCells |-> [next |-> NULL, prev |-> NULL]]

Queue(l) == [link |-> l, content |-> content, length |-> length]

\* enqueue a thread in a node that malloc returns, with queue the outcome.
Enqueued(queue, t) ==
  \E node \in NODES :
    /\ queue.content[node] = NULL
    /\ LET q == queue_enqueue(queue, QueueHead, node, t)
       IN link' = q.link /\ content' = q.content /\ length' = q.length

LinkedInit ==
  /\ Init
  /\ \E node \in NODES :
       LET empty == list_init(list_init(Unset, ThreadList), QueueHead)
           q == queue_enqueue([link |-> list_add_before(empty, ThreadList,
                                                        KernelThread),
                               content |-> [n \in NODES |-> NULL],
                               length |-> 0],
                              QueueHead, node, KernelThread)
       IN link = q.link /\ content = q.content /\ length = q.length

\* proc_init for process p, then thread_init or thread_attach for its thread.
NewLinks(t, p, par) ==
  LET own   == list_init(list_init(list_init(link, p), Threads(p)), Child(p))
      known == IF par = NULL THEN own ELSE list_add_before(own, Child(par), p)
  IN list_add_before(list_init(known, t), Threads(p), t)

\* sched: nodes are taken out and freed until one holds a thread that is not
\* stopped; that thread goes into a new node at the tail.
TakenOut(n) ==
  LET after[k \in 0 .. n] ==
        IF k = 0 THEN Queue(link)
        ELSE Freed(after[k - 1], FirstNode(after[k - 1], QueueHead), NULL)
  IN after

Rotate(th) ==
  \E n \in 1 .. length :
    LET after == TakenOut(n)
        out(k) == after[k].content[FirstNode(after[k], QueueHead)]
    IN /\ th[out(n - 1)].status # Stopped
       /\ \A k \in 0 .. n - 2 : th[out(k)].status = Stopped
       /\ Enqueued(after[n], out(n - 1))

LinkedExecFirst(t, p, m) ==
  ExecFirst(t, p, m) /\ Enqueued(Queue(NewLinks(t, p, NULL)), t)

LinkedFork(t, p, m) ==
  Fork(t, p, m) /\ Enqueued(Queue(NewLinks(t, p, current_proc)), t)

\* thread_init adds the thread, which it does not take off its list first.
RelinkedM(t, p) == list_init(link, t)
Relinked(t, p) == list_add_before(list_init(link, t), Threads(p), t)

LinkedExec(m) ==
  /\ Exec(m)
  /\ link' = Relinked(current_thread, current_proc)
  /\ UNCHANGED <<content, length>>

LinkedTick == TimerTick /\ Rotate(ContextSaved)

LinkedExit == Exit /\ Rotate(ThreadsAfterExit(current_proc))

LinkedForkNoMemory == ForkNoMemory /\ UNCHANGED lists

LinkedUnmask == UnmaskTimer /\ UNCHANGED lists

LinkedNext ==
  \/ LinkedUnmask
  \/ LinkedTick
  \/ LinkedForkNoMemory
  \/ LinkedExit
  \/ \E m \in MAPS : LinkedExec(m)
  \/ \E t \in THREADS, p \in PROCS, m \in MAPS :
       LinkedExecFirst(t, p, m) \/ LinkedFork(t, p, m)

LinkedSpec == LinkedInit /\ [][LinkedNext]_linkedVars
-----------------------------------------------------------------------------
(***************************************************************************)
(* The property.  RelinkedM is a mistaken form of Relinked.                *)
(***************************************************************************)
\* list_for_each from this head meets these cells in this order, and ends.
Walks(head, s) ==
  LET ring == <<head>> \o s \o <<head>>
  IN \A i \in 1 .. Len(s) + 1 : link[ring[i]].next = ring[i + 1]

\* The same backwards, which list_add_before and list_del rely on.
WalksBack(head, s) ==
  LET ring == <<head>> \o s \o <<head>>
  IN \A i \in 1 .. Len(s) + 1 : link[ring[i + 1]].prev = ring[i]

\* The nodes in use, in the order of the threads that they hold.
NodeOf(t) == {node \in NODES : content[node] = t}
QueueNodes ==
  [i \in DOMAIN ready_queue |-> CHOOSE node \in NodeOf(ready_queue[i]) : TRUE]

\* The pointers hold the sequences: whatever exits, execs and forks come
\* between, the ready queue has one node for each of its threads, in order, and
\* as many as its length says; every walk of a process's threads and children
\* meets those and ends.  (Backwards a thread list may be wrong: exec relinks
\* the thread that is on it.)
ListsHold ==
  /\ length = Len(ready_queue)
  /\ \A t \in THREADS : NodeOf(t) # {} <=> t \in SetOf(ready_queue)
  /\ \A t \in THREADS : \A a, b \in NodeOf(t) : a = b
  /\ Walks(QueueHead, QueueNodes) /\ WalksBack(QueueHead, QueueNodes)
  /\ \A p \in procs :
       /\ Walks(Threads(p), proc[p].threads)
       /\ link[Threads(p)].prev = proc[p].threads[1]
       /\ Walks(Child(p), proc[p].child) /\ WalksBack(Child(p), proc[p].child)
=============================================================================
