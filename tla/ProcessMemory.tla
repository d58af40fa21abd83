--------------------------- MODULE ProcessMemory ---------------------------
(***************************************************************************)
(* Module Sched with the memory of the processes: the physical page behind *)
(* the one entry that exec gives a vm_map, and what the pages hold.  A     *)
(* handler's step is the step of Sched with, beside it, the pages that the *)
(* same handler takes, copies, loads or clears; between handlers the       *)
(* program that runs stores into the page that the tables map at 0.        *)
(*                                                                         *)
(* Translations are those of the page tables (module Tlb is about the      *)
(* processor's memory of old ones), and pages do not run out.              *)
(*                                                                         *)
(* exec of a path without a file goes on: it loads what stands at cluster  *)
(* 0 of the volume, from a FATFile that malloc has cleared.  (Where that   *)
(* chain leaves the volume, and when a directory of the path is missing,   *)
(* see module Fat, exec does not come back.)                               *)
(***************************************************************************)
EXTENDS Sched

CONSTANTS
  FRAMES,   \* the physical pages that page_alloc can return
  Words,    \* the places of a page that are told apart
  Start,    \* those at its start, which a kernel structure would cover
  Values,   \* what a place can hold
  Zero,     \* what memset clears it to
  Programs, \* files, as what they put where: functions on parts of Words
  NoFile    \* what is put where for a file that is missing; nothing, if a
            \* cluster is larger than a page

ASSUME MemoryAssumption ==
  /\ NULL \notin FRAMES \cup [Words -> Values]
  /\ Start \subseteq Words
  /\ Zero \in Values
  /\ \A file \in Programs \cup {NoFile} :
       /\ DOMAIN file \subseteq Words
       /\ \A w \in DOMAIN file : file[w] \in Values

VARIABLES
  phy_addr,  \* the page of a vm_map's entry
  ram        \* the contents of the physical pages

memoryVars == <<vars, phy_addr, ram>>

Page == [Words -> Values]
-----------------------------------------------------------------------------
\* page_alloc(1), for the entry of a new map.
Unused(page) == page \in FRAMES /\ \A m \in maps : phy_addr[m] # page

\* read_cluster_chain into the page: what the file does not reach is left.
Loaded(page, file) ==
  [w \in Words |-> IF w \in DOMAIN file THEN file[w] ELSE ram[page][w]]

\* memset(NULL, 0, size), of a malloc that has found nothing, clears the start
\* of the page that the tables map at address 0.
Spoiled(page) == [w \in Words |-> IF w \in Start THEN Zero ELSE ram[page][w]]

\* exec gives a new map its entry, and loads the program, or prints that it is
\* missing and goes on.
LoadInto(m) ==
  \E page \in FRAMES, file \in Programs \cup {NoFile} :
    /\ Unused(page)
    /\ phy_addr' = [phy_addr EXCEPT ![m] = page]
    /\ ram' = [ram EXCEPT ![page] = Loaded(page, file)]

SharedM(m) ==
  /\ phy_addr' = [phy_addr EXCEPT ![m] = phy_addr[proc[current_proc].vm_map]]
  /\ UNCHANGED ram
\* vm_map_entry_dup: the page of the process is copied to one of the child's.
CopyInto(m) ==
  \E page \in FRAMES :
    /\ Unused(page)
    /\ phy_addr' = [phy_addr EXCEPT ![m] = page]
    /\ ram' = [ram EXCEPT ![page] = ram[phy_addr[proc[current_proc].vm_map]]]

MemoryInit ==
  /\ Init
  /\ phy_addr = [m \in MAPS |-> NULL]
  /\ ram \in [FRAMES -> Page]

LoadFirst(t, p, m) == ExecFirst(t, p, m) /\ LoadInto(m)

Load(m) == Exec(m) /\ LoadInto(m)

Duplicate(t, p, m) == Fork(t, p, m) /\ CopyInto(m)

DuplicateFails ==
  /\ ForkNoMemory
  /\ ram' = [ram EXCEPT ![phy_addr[mapped]] = Spoiled(phy_addr[mapped])]
  /\ UNCHANGED phy_addr

\* The running program stores into its memory, or has a call like read do so.
Store(w, value) ==
  /\ current_proc # NULL
  /\ ram' = [ram EXCEPT ![phy_addr[mapped]][w] = value]
  /\ UNCHANGED <<vars, phy_addr>>

Switch == (TimerTick \/ Exit \/ UnmaskTimer) /\ UNCHANGED <<phy_addr, ram>>

MemoryNext ==
  \/ Switch
  \/ DuplicateFails
  \/ \E m \in MAPS : Load(m)
  \/ \E t \in THREADS, p \in PROCS, m \in MAPS :
       LoadFirst(t, p, m) \/ Duplicate(t, p, m)
  \/ \E w \in Words, value \in Values : Store(w, value)

MemorySpec == MemoryInit /\ [][MemoryNext]_memoryVars
-----------------------------------------------------------------------------
(***************************************************************************)
(* The property.  SharedM is a mistaken form of the operator after it.     *)
(***************************************************************************)

\* What each process has in its memory, found through its own map.
MemoryOf ==
  [p \in PROCS |-> IF p \in procs THEN ram[phy_addr[proc[p].vm_map]] ELSE NULL]

Private == INSTANCE PrivateMemories WITH
  running <- current_proc, memory <- MemoryOf

\* However processes fork, exec, exit, run short of memory and take turns, what
\* a process finds in its memory is what it stored there itself, or had from
\* its parent at the fork, or from a program file; or, after an exec of a file
\* that is missing, what such an exec loads, and never what another has stored.
ImplementsPrivateMemories == Private!Spec
=============================================================================
