-------------------------- MODULE PrivateMemories --------------------------
(***************************************************************************)
(* What fork, exec and the scheduler promise about memory: each process    *)
(* has a memory of its own.  One process runs at a time, and it alone      *)
(* changes, and only its own memory; a child starts with a copy of its     *)
(* parent's; a program starts with what its file holds, or with NoFile if  *)
(* there is none.  A call that runs short of kernel memory may clear the   *)
(* start of its caller's memory.                                           *)
(***************************************************************************)
CONSTANTS
  PROCS, NULL,
  Words, Start, Values, Zero,
  Programs, NoFile

VARIABLES
  running,  \* the process that runs; NULL for the kernel
  memory    \* of each process; NULL of one that does not exist

Exists(p) == memory[p] # NULL

\* A page with the file in it, and anything where the file does not reach.
StartOf(file, page) == \A w \in DOMAIN file : page[w] = file[w]

Init ==
  /\ running = NULL
  /\ memory = [p \in PROCS |-> NULL]

\* The memory of one process, and of no other, becomes this page.
Becomes(p, page) == memory' = [memory EXCEPT ![p] = page]

Boot(p, file) ==
  /\ ~ Exists(p)
  /\ \E page \in [Words -> Values] : StartOf(file, page) /\ Becomes(p, page)
  /\ UNCHANGED running

Exec(file) ==
  /\ running # NULL
  /\ \E page \in [Words -> Values] :
       StartOf(file, page) /\ Becomes(running, page)
  /\ UNCHANGED running

Fork(child) ==
  /\ running # NULL
  /\ ~ Exists(child)
  /\ Becomes(child, memory[running])
  /\ UNCHANGED running

Store(w, value) ==
  /\ running # NULL
  /\ Becomes(running, [memory[running] EXCEPT ![w] = value])
  /\ UNCHANGED running

RunShort ==
  /\ running # NULL
  /\ Becomes(running, [w \in Words |-> IF w \in Start THEN Zero
                                       ELSE memory[running][w]])
  /\ UNCHANGED running

Switch ==
  /\ running' \in {p \in PROCS : Exists(p)} \cup {NULL}
  /\ UNCHANGED memory

Next ==
  \/ Switch
  \/ RunShort
  \/ \E file \in Programs \cup {NoFile} : Exec(file)
  \/ \E p \in PROCS : Fork(p) \/ \E file \in Programs \cup {NoFile} : Boot(p, file)
  \/ \E w \in Words, value \in Values : Store(w, value)

Spec == Init /\ [][Next]_<<running, memory>>
=============================================================================
