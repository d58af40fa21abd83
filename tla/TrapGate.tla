------------------------------ MODULE TrapGate ------------------------------
(***************************************************************************)
(* How a thread's context gets to memory and back (src/arch/x86/asm/,      *)
(* src/arch/x86/context.c), one instruction window finer than Sched.       *)
(*                                                                         *)
(* int_init registers int 0x80 as a TRAP gate, so interrupts stay on until *)
(* syscall_handler's first instruction, cli, has run: a timer interrupt    *)
(* can come in between.  Every entry from user mode pushes its frame at    *)
(* the same place, the top of the one stack that RSP0 of the task state    *)
(* segment names.  The kernel thread, and a handler that is interrupted,   *)
(* are interrupted on the stack they are on.                               *)
(*                                                                         *)
(* A context stands for the registers, which say whose code goes on, and   *)
(* where in it: of the places in a thread's code two are told apart, which *)
(* shows whether a context is the latest one.  The timer line is unmasked, *)
(* as main leaves it.                                                      *)
(***************************************************************************)
EXTENDS Integers, Sequences

CONSTANTS
  THREADS,       \* the thread_t structures that malloc can return
  KernelThread,  \* the thread that runs main, which makes no system call
  FirstThread    \* the thread of /test

ASSUME TrapGateAssumption ==
  /\ {KernelThread, FirstThread} \subseteq THREADS
  /\ KernelThread # FirstThread

VARIABLES
  ready_queue,     \* threads, the next one to dispatch first
  current_thread,  \* save_context and load_context point to its context
  threads,         \* the thread_t structures in use
  context,         \* their tcb.context
  frame,           \* the frame at the top of the stack of RSP0
  cpu,             \* where the processor is
  place,           \* how far each thread has come in its code
  caught           \* whether an interrupt ever came before a handler's cli

vars == <<ready_queue, current_thread, threads, context, frame, cpu, place,
          caught>>
-----------------------------------------------------------------------------
\* Somewhere in a thread's own code, or at the cli on the stack of RSP0.
Places  == {0, 1}
Context == [of : THREADS, at : {"code", "cli"}, place : Places]

Start(t) == [of |-> t, at |-> "code", place |-> 0]
Code(t)  == [of |-> t, at |-> "code", place |-> place[t]]

Init ==
  /\ ready_queue = <<FirstThread, KernelThread>>
  /\ current_thread = KernelThread
  /\ threads = {KernelThread, FirstThread}
  /\ place = [t \in THREADS |-> 0]
  /\ context = [t \in THREADS |-> Start(t)]
  /\ frame \in Context                       \* whatever is in that memory
  /\ cpu = Start(KernelThread)
  /\ caught = FALSE

\* A thread's own code, or main's loop, goes on.
Run ==
  /\ cpu.at = "code"
  /\ cpu' = [cpu EXCEPT !.place = 1 - @]
  /\ place' = [place EXCEPT ![current_thread] = 1 - cpu.place]
  /\ UNCHANGED <<ready_queue, current_thread, threads, context, frame, caught>>

\* context_save, through save_context, which sched points into the thread that
\* it dispatches.
NotSavedM(c) == context
SavedInFirstM(c) == [context EXCEPT ![KernelThread] = c]
Saved(c) == [context EXCEPT ![current_thread] = c]

(***************************************************************************)
(* sched with queue q and contexts ctx, then context_load and iretq: the   *)
(* context of the thread at the head of q goes to the processor, through   *)
(* the frame that the handler runs on.                                     *)
(***************************************************************************)
Switch(q, ctx, onTop) ==
  /\ ready_queue' = Append(Tail(q), Head(q))
  /\ current_thread' = Head(q)
  /\ context' = ctx
  /\ cpu' = ctx[Head(q)]
  /\ frame' = IF onTop THEN ctx[Head(q)] ELSE frame

\* systick_handler.
TimerTick ==
  /\ Switch(ready_queue, Saved(cpu), cpu.at = "code" /\ cpu.of # KernelThread)
  /\ caught' = (caught \/ cpu.at = "cli")
  /\ UNCHANGED <<threads, place>>

\* int 0x80: the processor pushes the frame.
Trap ==
  /\ cpu.at = "code"
  /\ cpu.of # KernelThread
  /\ frame' = cpu
  /\ cpu' = [cpu EXCEPT !.at = "cli"]
  /\ UNCHANGED <<ready_queue, current_thread, threads, context, place, caught>>

\* syscall_handler from its cli to its iretq, for a call that does not touch
\* contexts: what is in the frame is saved, loaded and returned to.
Call ==
  /\ cpu.at = "cli"
  /\ context' = Saved(frame)
  /\ cpu' = frame
  /\ UNCHANGED <<ready_queue, current_thread, threads, frame, place, caught>>

\* The same for exec: thread_init starts the context over, at the entry point.
Restarted(t) == Saved(Start(t))

Exec ==
  /\ cpu.at = "cli"
  /\ context' = Restarted(current_thread)
  /\ cpu' = Start(current_thread)
  /\ frame' = Start(current_thread)
  /\ place' = [place EXCEPT ![current_thread] = 0]
  /\ UNCHANGED <<ready_queue, current_thread, threads, caught>>

\* The same for fork: thread_dup copies the context, which in the new process
\* is the new thread's own.
Duplicate(c, t) == IF c.of = current_thread THEN [c EXCEPT !.of = t] ELSE c

Taken(t) == threads \cup {t}

Fork(t) ==
  /\ cpu.at = "cli"
  /\ t \in THREADS \ threads
  /\ threads' = Taken(t)
  /\ context' = [Saved(frame) EXCEPT ![t] = Duplicate(frame, t)]
  /\ ready_queue' = Append(ready_queue, t)
  /\ cpu' = frame
  /\ place' = [place EXCEPT ![t] = place[current_thread]]
  /\ UNCHANGED <<current_thread, frame, caught>>

\* The same for exit.  sched drops a stopped thread when it comes out of the
\* queue (StoppedForGood of Sched); here it leaves the queue at once.
Without(n) ==
  SubSeq(ready_queue, 1, n - 1) \o SubSeq(ready_queue, n + 1, Len(ready_queue))

Exit ==
  /\ cpu.at = "cli"
  /\ \E n \in 1 .. Len(ready_queue) :
       /\ ready_queue[n] = current_thread
       /\ Switch(Without(n), Saved(frame), TRUE)
  /\ UNCHANGED <<threads, place, caught>>

Next ==
  \/ Run
  \/ TimerTick
  \/ Trap
  \/ Call
  \/ Exec
  \/ \E t \in THREADS : Fork(t)
  \/ Exit

Spec == Init /\ [][Next]_vars
-----------------------------------------------------------------------------
(***************************************************************************)
(* Properties.  An operator above whose name ends in M is a mistaken form  *)
(* of the one after it, which the properties must tell from it.            *)
(***************************************************************************)

\* Every variable has its type; what is queued is a thread_t in use.
TypeOK ==
  /\ ready_queue \in Seq(threads)
  /\ current_thread \in threads
  /\ threads \subseteq THREADS
  /\ context \in [THREADS -> Context]
  /\ frame \in Context
  /\ cpu \in Context
  /\ place \in [THREADS -> Places]
  /\ caught \in BOOLEAN

\* As long as no interrupt has come before a handler's cli, the processor runs
\* the current thread or is to return to it, and every other thread of the
\* queue will go on where it was: saving, scheduling and loading through one
\* stack mixes up no contexts, whichever calls switch threads.
IntactUnlessCaught ==
  ~ caught =>
    /\ cpu.of = current_thread
    /\ IF cpu.at = "cli" THEN frame = Code(current_thread)
                          ELSE cpu = Code(current_thread)
    /\ \A i \in 1 .. Len(ready_queue) :
         ready_queue[i] # current_thread =>
           context[ready_queue[i]] = Code(ready_queue[i])

\* The kernel thread is never mixed up, even after an interrupt in the window:
\* when it is current the processor is in its code, when it is not its context
\* is.  So main's loop always goes on, and goes on as the kernel thread.
KernelThreadIntact ==
  IF current_thread = KernelThread
    THEN cpu = Code(KernelThread)
    ELSE context[KernelThread] = Code(KernelThread)

\* "This is what is put to sleep and reactivated" (the comment on thread_t):
\* the processor runs the thread that the scheduler has made current.
RunsCurrentThread == cpu.of = current_thread
=============================================================================
