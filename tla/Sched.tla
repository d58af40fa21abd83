------------------------------- MODULE Sched -------------------------------
(***************************************************************************)
(* Processes, threads and the round-robin scheduler of the kernel          *)
(* (src/proc/, src/lib/queue.c), as driven by the timer interrupt and the  *)
(* process system calls (src/arch/x86/asm/interrupt_handler.S).            *)
(*                                                                         *)
(* There is one processor and a handler runs with interrupts off until its *)
(* iretq, so a handler is one action.  (The instruction before the cli of  *)
(* syscall_handler, which may be interrupted, belongs to module TrapGate.) *)
(* A structure that the code mallocs is an element of THREADS, PROCS or    *)
(* MAPS.  It is never freed: thread_destroy, proc_destroy and vm_map_clear *)
(* have no caller.  So the sizes of these sets bound the number of forks   *)
(* and execs of a behaviour.                                               *)
(***************************************************************************)
EXTENDS Integers, Sequences

CONSTANTS
  THREADS,       \* the thread_t structures that malloc can return
  PROCS,         \* the proc_t structures
  MAPS,          \* the vm_map_t structures, each with its physical pages
  KernelThread,  \* the thread_t that sched_init creates
  NULL,
  MaxPid         \* MAX_PID of id.h, which also bounds tid_alloc

ASSUME SchedAssumption ==
  /\ KernelThread \in THREADS
  /\ NULL \notin THREADS \cup PROCS \cup MAPS
  /\ MaxPid \in Nat \ {0}

VARIABLES
  ready_queue,     \* threads, the next one to dispatch first
  current_thread,  \* save_context and load_context always point into it
  current_proc,
  threads,         \* the thread_t structures in use
  thread,          \* their contents
  procs,           \* the proc_t structures in use
  proc,            \* their contents
  maps,            \* the vm_map_t structures in use
  mapped,          \* the vm_map_t whose entries are in the page tables
  tid_table,       \* the identifiers whose byte in the table is 1
  pid_table,
  irq0             \* the timer line of the interrupt controller

vars == <<ready_queue, current_thread, current_proc, threads, thread, procs,
          proc, maps, mapped, tid_table, pid_table, irq0>>
-----------------------------------------------------------------------------
Stopped == -1   \* the two values of a status field that the code assigns
Pending == 0

Ids   == 0 .. MaxPid - 1
NoId  == -1     \* what pid_alloc and tid_alloc return when the table is full

\* Whether RAX in a saved context is a value of that thread: its register at
\* the interrupt, or the result of its own call, or that of another thread.
RaxOf == {"own", "foreign"}

Thread == [tid : Ids \cup {NoId}, status : {Stopped, Pending},
           proc : PROCS \cup {NULL}, rax : RaxOf]

Process == [pid : Ids \cup {NoId}, status : {Stopped, Pending},
            parent : PROCS \cup {NULL}, child : Seq(PROCS),
            threads : Seq(THREADS), vm_map : MAPS]

\* pid_alloc, tid_alloc: the least identifier that is not taken.
IdAlloc(table, id) ==
  \/ /\ id \in Ids \ table
     /\ \A other \in Ids \ table : id <= other
  \/ Ids \subseteq table /\ id = NoId

\* The byte of an identifier that was found is set to 1.
UnmarkedM(table, id) == table
UncheckedM(table, id) == table \cup {id}
Marked(table, id) == table \cup ({id} \cap Ids)

SetOf(s) == {s[i] : i \in DOMAIN s}

\* queue_enqueue: list_add_before the head is the tail of the queue.
EnqueueFirstM(q, t) == <<t>> \o q
Enqueue(q, t) == Append(q, t)

\* The n-th thread of the queue is dequeued, after those before it, and
\* enqueued again.
DroppedM(q, n) == SubSeq(q, n + 1, Len(q))
PushedBackM(q, n) == <<q[n]>> \o SubSeq(q, n + 1, Len(q))
Rotated(q, n) == Enqueue(SubSeq(q, n + 1, Len(q)), q[n])

(***************************************************************************)
(* The loop of sched: n is the place of the first thread in the queue that *)
(* is not stopped, th being the threads as the caller leaves them.         *)
(***************************************************************************)
NextIsFirstM(th, n) == n = 1
NextIs(th, n) ==
  /\ th[ready_queue[n]].status # Stopped
  /\ \A m \in 1 .. n - 1 : th[ready_queue[m]].status = Stopped

\* vm_map_do_mapping for the process just scheduled, if there is one.
MappedAlwaysM(p, pr) == mapped
MappedFor(p, pr) == IF p = NULL THEN mapped ELSE pr[p].vm_map

(***************************************************************************)
(* sched(): dequeue until a thread that is not stopped comes out, enqueue  *)
(* it again and switch to it, to its process and to the process's memory.  *)
(* A stopped thread on the way is dropped.  When every thread in the queue *)
(* is stopped, assert(load_thread != NULL) halts the machine: no step.     *)
(***************************************************************************)
Dispatch(th, pr) ==
  \E n \in 1 .. Len(ready_queue) :
    /\ NextIs(th, n)
    /\ ready_queue' = Rotated(ready_queue, n)
    /\ current_thread' = ready_queue[n]
    /\ current_proc' = th[ready_queue[n]].proc
    /\ mapped' = MappedFor(th[ready_queue[n]].proc, pr)
-----------------------------------------------------------------------------
\* The state that sched_init leaves: one kernel thread, running and queued.
Init ==
  /\ ready_queue = <<KernelThread>>
  /\ current_thread = KernelThread
  /\ current_proc = NULL
  /\ threads = {KernelThread}
  /\ thread = [t \in THREADS |->
                 [tid |-> 0, status |-> Pending, proc |-> NULL, rax |-> "own"]]
  /\ procs = {}
  /\ proc = [p \in PROCS |-> NULL]
  /\ maps = {}
  /\ mapped = NULL
  /\ tid_table = {0}
  /\ pid_table = {}
  /\ irq0 = "masked"

\* proc_init: the fields of a new process, and its place in its parent's list.
ProcessesWith(p, pid, par, t, m) ==
  [q \in PROCS |->
    IF q = p THEN [pid |-> pid, status |-> Pending, parent |-> par,
                   child |-> <<>>, threads |-> <<t>>, vm_map |-> m]
    ELSE IF q = par THEN [proc[q] EXCEPT !.child = Append(@, p)]
    ELSE proc[q]]

\* context_save: RAX is saved into the context of the current thread.
ContextSaved == [thread EXCEPT ![current_thread].rax = "own"]

\* A map of its own for a process, with pages of its own: vm_map_dup in a fork,
\* what exec builds from the program's segments.
NewMap(m) ==
  /\ m \in MAPS \ maps
  /\ maps' = maps \cup {m}

(***************************************************************************)
(* A new process p with one thread t and memory map m, child of par.  The  *)
(* thread joins the ready queue; the parent's child list gains p.          *)
(***************************************************************************)
NewProcess(t, p, m, par) ==
  \E newtid, newpid \in Ids \cup {NoId} :
    /\ t \in THREADS \ threads
    /\ p \in PROCS \ procs
    /\ NewMap(m)
    /\ IdAlloc(tid_table, newtid)
    /\ IdAlloc(pid_table, newpid)
    /\ tid_table' = Marked(tid_table, newtid)
    /\ pid_table' = Marked(pid_table, newpid)
    /\ threads' = threads \cup {t}
    /\ procs' = procs \cup {p}
    /\ thread' = [ContextSaved EXCEPT ![t] =
                    [tid |-> newtid, status |-> Pending, proc |-> p,
                     rax |-> "own"]]
    /\ proc' = ProcessesWith(p, newpid, par, t, m)
    /\ ready_queue' = Enqueue(ready_queue, t)
    /\ UNCHANGED <<current_thread, current_proc, irq0>>

\* exec("/test") from main, the branch of exec without a current process: the
\* memory of the new process is mapped at once, its thread only queued.
ExecFirst(t, p, m) ==
  /\ current_proc = NULL
  /\ irq0 = "masked"
  /\ procs = {}
  /\ NewProcess(t, p, m, NULL)
  /\ mapped' = m

\* main, after exec has returned, lets the timer interrupt through.
UnmaskTimer ==
  /\ irq0 = "masked"
  /\ procs # {}
  /\ irq0' = "unmasked"
  /\ UNCHANGED <<ready_queue, current_thread, current_proc, threads, thread,
                 procs, proc, maps, mapped, tid_table, pid_table>>

\* systick_handler: save the context, schedule, load the next context.
TimerTick ==
  /\ irq0 = "unmasked"
  /\ Dispatch(ContextSaved, proc)
  /\ thread' = ContextSaved
  /\ UNCHANGED <<threads, procs, proc, maps, tid_table, pid_table, irq0>>

\* sys_fork: the caller's thread and process are duplicated.
Fork(t, p, m) ==
  /\ current_proc # NULL
  /\ NewProcess(t, p, m, current_proc)
  /\ UNCHANGED mapped

(***************************************************************************)
(* sys_fork when malloc fails: for the thread nothing has happened yet;    *)
(* for the process the identifier of the new thread is already taken, and  *)
(* stays taken.  (A failing malloc inside proc_dup is not modelled.)       *)
(***************************************************************************)
ForkNoMemory ==
  /\ current_proc # NULL
  /\ thread' = ContextSaved
  /\ \/ UNCHANGED tid_table
     \/ \E newtid \in Ids \cup {NoId} :
          /\ IdAlloc(tid_table, newtid)
          /\ tid_table' = Marked(tid_table, newtid)
  /\ UNCHANGED <<ready_queue, current_thread, current_proc, threads, procs,
                 proc, maps, mapped, pid_table, irq0>>

(***************************************************************************)
(* sys_exec from a process: a new map replaces the process's map, which is *)
(* not released, and thread_init starts the calling thread over with a new *)
(* identifier.  thread_init puts the thread, the only one of its process   *)
(* and still linked, on proc->threads again: a walk of the list from its   *)
(* head still meets it once.                                               *)
(***************************************************************************)
Exec(m) ==
  /\ current_proc # NULL
  /\ NewMap(m)
  /\ \E newtid \in Ids \cup {NoId} :
       /\ IdAlloc(tid_table, newtid)
       /\ tid_table' = Marked(tid_table, newtid)
       /\ thread' = [thread EXCEPT ![current_thread] =
                       [tid |-> newtid, status |-> Pending,
                        proc |-> current_proc, rax |-> "own"]]
  /\ mapped' = m
  /\ proc' = [proc EXCEPT ![current_proc].vm_map = m]
  /\ UNCHANGED <<ready_queue, current_thread, current_proc, threads, procs,
                 pid_table, irq0>>

\* exit: the threads of the exiting process are marked stopped,
ThreadsLeftM(p) == thread
ThreadsAfterExit(p) ==
  [t \in THREADS |-> IF t \in SetOf(proc[p].threads)
                       THEN [thread[t] EXCEPT !.status = Stopped]
                       ELSE thread[t]]

\* and so is the process, while the processes on its child list get its parent.
OrphansLeftM(p) == [proc EXCEPT ![p].status = Stopped]
ProcessesAfterExit(p) ==
  [q \in PROCS |->
    IF q = p THEN [proc[q] EXCEPT !.status = Stopped]
    ELSE IF q \in SetOf(proc[p].child)
      THEN [proc[q] EXCEPT !.parent = proc[p].parent]
    ELSE proc[q]]

(***************************************************************************)
(* sys_exit: stop the process and schedule another thread.  The return     *)
(* path of the system call then stores RAX through load_context, which by  *)
(* now points into the thread that was just scheduled.                     *)
(***************************************************************************)
Exit ==
  /\ current_proc # NULL
  /\ Dispatch(ThreadsAfterExit(current_proc), ProcessesAfterExit(current_proc))
  /\ proc' = ProcessesAfterExit(current_proc)
  /\ thread' = [ThreadsAfterExit(current_proc)
                  EXCEPT ![current_thread'].rax = "foreign"]
  /\ UNCHANGED <<threads, procs, maps, tid_table, pid_table, irq0>>

Next ==
  \/ UnmaskTimer
  \/ TimerTick
  \/ ForkNoMemory
  \/ Exit
  \/ \E m \in MAPS : Exec(m)
  \/ \E t \in THREADS, p \in PROCS, m \in MAPS :
       ExecFirst(t, p, m) \/ Fork(t, p, m)

Spec == Init /\ [][Next]_vars

\* The interval timer keeps firing once unmasked, and main unmasks it.
Fairness == WF_vars(TimerTick) /\ WF_vars(UnmaskTimer)
              /\ WF_vars(\E t \in THREADS, p \in PROCS, m \in MAPS :
                           ExecFirst(t, p, m))

FairSpec == Spec /\ Fairness
-----------------------------------------------------------------------------
(***************************************************************************)
(* Properties.  An operator above whose name ends in M is a mistaken form  *)
(* of the one after it, which the properties below must tell from it.      *)
(***************************************************************************)

\* Every variable has its type (proc.h; the identifier tables are arrays of
\* MAX_PID bytes, and an identifier that was not found must not reach them).
TypeOK ==
  /\ ready_queue \in Seq(THREADS)
  /\ current_thread \in THREADS
  /\ current_proc \in PROCS \cup {NULL}
  /\ threads \subseteq THREADS
  /\ thread \in [THREADS -> Thread]
  /\ procs \subseteq PROCS
  /\ proc \in [PROCS -> Process \cup {NULL}]
  /\ \A p \in procs : proc[p] \in Process
  /\ maps \subseteq MAPS
  /\ mapped \in MAPS \cup {NULL}
  /\ tid_table \subseteq Ids
  /\ pid_table \subseteq Ids
  /\ irq0 \in {"masked", "unmasked"}

LiveThread(t) == t \in threads /\ thread[t].status # Stopped
LiveProc(p)   == p \in procs /\ proc[p].status # Stopped

\* Every thread that is not stopped, the running one included, is in the ready
\* queue, and no thread is in it twice: no thread is lost by sched's dequeue
\* and enqueue, and none gets two turns in a round.
QueueHoldsLive ==
  /\ \A i \in DOMAIN ready_queue : ready_queue[i] \in threads
  /\ \A i, j \in DOMAIN ready_queue :
       ready_queue[i] = ready_queue[j] => i = j
  /\ \A t \in THREADS :
       LiveThread(t) => \E i \in DOMAIN ready_queue : ready_queue[i] = t

\* assert(load_thread != NULL) of sched cannot fail, whatever handler calls it:
\* the queue always holds a live thread that no exit() of the current process
\* stops.
AssertHolds ==
  \E i \in DOMAIN ready_queue :
    /\ LiveThread(ready_queue[i])
    /\ current_proc # NULL => thread[ready_queue[i]].proc # current_proc

\* What runs is a live thread, in its own process, with the memory of that
\* process in the page tables, whatever sequence of fork, exec, exit and timer
\* interrupt came before.
RunsInOwnMemory ==
  /\ LiveThread(current_thread)
  /\ current_proc = thread[current_thread].proc
  /\ current_proc # NULL => /\ LiveProc(current_proc)
                             /\ mapped = proc[current_proc].vm_map

\* No two processes have the same memory map: neither fork nor exec lets a
\* process write another one's pages.
PrivateMemory ==
  \A p, q \in procs : proc[p].vm_map = proc[q].vm_map => p = q

\* A process has one thread, which points back to it, and the two are stopped
\* together: exit never leaves a thread of a stopped process to be scheduled.
OneThread ==
  /\ \A p \in procs :
       \E t \in threads : /\ proc[p].threads = <<t>>
                          /\ thread[t].proc = p
                          /\ thread[t].status = proc[p].status
  /\ \A t \in threads :
       thread[t].proc # NULL =>
         thread[t].proc \in procs /\ proc[thread[t].proc].threads = <<t>>

\* A child of a live process has that process as its parent.  A child of a
\* stopped one has been handed on, with the children of any that stop after:
\* its parent is not the stopped process, and for as long as the new parent
\* lives, or when there is none, it is the one that the stopped process has
\* itself.  So whatever order a family stops in, no process is handed past an
\* ancestor that lives.  (exit does not put what it hands on onto the list of
\* the new parent, whose own exit therefore leaves it behind: a live process
\* may have a parent that has stopped, but then one that adopted it.)
Family ==
  \A p \in procs : \A q \in SetOf(proc[p].child) :
    LET parent == proc[q].parent
    IN IF LiveProc(p) THEN parent = p
       ELSE /\ parent # p
            /\ parent = NULL \/ LiveProc(parent) => parent = proc[p].parent

\* Two threads, or two processes, have the same identifier only if it is the
\* -1 of a full table.
IdsDistinct ==
  /\ \A t, u \in threads :
       thread[t].tid = thread[u].tid => t = u \/ thread[t].tid = NoId
  /\ \A p, q \in procs :
       proc[p].pid = proc[q].pid => p = q \/ proc[p].pid = NoId

Ahead(q, u, t) == \E i, j \in DOMAIN q : i < j /\ q[i] = u /\ q[j] = t

\* No step puts a thread ahead of one that was in the queue before it, except
\* ahead of the thread that the step dispatches: the queue is first in, first
\* out, over enqueues by fork, exec and sched itself.
NobodyJumpsAhead ==
  [][\A t, u \in THREADS :
       (/\ Ahead(ready_queue', u, t)
        /\ t \in SetOf(ready_queue)
        /\ ~ Ahead(ready_queue, u, t)) => current_thread' = t]_vars

\* A thread that exit has stopped stays stopped and never runs again, though
\* it is still in the ready queue when the next thread is looked for.
StoppedForGood ==
  [][\A t \in threads :
       thread[t].status = Stopped =>
         thread'[t].status = Stopped /\ current_thread' # t]_vars

\* Every thread runs again and again until it is stopped, however the others
\* fork, exec and exit.
EveryThreadRuns ==
  \A t \in THREADS :
    t \in threads ~> (current_thread = t \/ thread[t].status = Stopped)

\* "This is what is put to sleep and reactivated" (the comment on thread_t):
\* a thread is resumed with the RAX it was interrupted with, or with the
\* result of its own system call.
ResumesWithOwnRAX == thread[current_thread].rax = "own"
=============================================================================
