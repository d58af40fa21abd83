--------------------------- MODULE TrapGateProofs ---------------------------
(***************************************************************************)
(* Proofs about TrapGate, for any number of threads: while no interrupt    *)
(* has come before the cli of a system call no context is mixed up, and    *)
(* the context of the kernel thread never is.                              *)
(*                                                                         *)
(* KernelThreadIntact is inductive with the types.  IntactUnlessCaught     *)
(* also needs the queue never to run empty when a thread leaves it: the    *)
(* kernel thread, which is not the one that exits, is always in it.        *)
(***************************************************************************)
EXTENDS TrapGate, TLAPS

KernelQueued ==
  /\ KernelThread \in threads
  /\ \E i \in 1 .. Len(ready_queue) : ready_queue[i] = KernelThread

IInv == TypeOK /\ KernelQueued /\ KernelThreadIntact /\ IntactUnlessCaught

\* A queue whose head goes to the tail holds the same threads.
LEMMA Rotation ==
  ASSUME NEW T, NEW q \in Seq(T), Len(q) > 0
  PROVE  /\ Head(q) = q[1] /\ Head(q) \in T
         /\ Append(Tail(q), Head(q)) \in Seq(T)
         /\ Len(Append(Tail(q), Head(q))) = Len(q)
         /\ \A i \in 1 .. Len(q) :
              Append(Tail(q), Head(q))[i] = IF i = Len(q) THEN q[1] ELSE q[i + 1]
OBVIOUS

LEMMA RotationMembers ==
  ASSUME NEW T, NEW q \in Seq(T), Len(q) > 0
  PROVE  /\ \A i \in 1 .. Len(q) : \E j \in 1 .. Len(q) :
              Append(Tail(q), Head(q))[i] = q[j]
         /\ \A j \in 1 .. Len(q) : \E i \in 1 .. Len(q) :
              Append(Tail(q), Head(q))[i] = q[j]
<1> PICK r : r = Append(Tail(q), Head(q))
  OBVIOUS
<1> PICK n \in Nat \ {0} : n = Len(q)
  OBVIOUS
<1>0. \A i \in 1 .. n : r[i] = IF i = n THEN q[1] ELSE q[i + 1]
  BY Rotation
<1>1. ASSUME NEW i \in 1 .. n PROVE \E j \in 1 .. n : r[i] = q[j]
  <2>1. CASE i = n
    BY <1>0, <2>1, 1 \in 1 .. n
  <2>2. CASE i # n
    BY <1>0, <2>2, i + 1 \in 1 .. n
  <2> QED
    BY <2>1, <2>2
<1>2. ASSUME NEW j \in 1 .. n PROVE \E i \in 1 .. n : r[i] = q[j]
  <2>1. CASE j = 1
    BY <1>0, <2>1, n \in 1 .. n
  <2>2. CASE j # 1
    <3>1. j - 1 \in 1 .. n /\ j - 1 # n /\ (j - 1) + 1 = j
      BY <2>2
    <3> QED
      BY <1>0, <3>1
  <2> QED
    BY <2>1, <2>2
<1> QED
  BY <1>1, <1>2

LEMMA InitInv == Init => IInv
<1> SUFFICES ASSUME Init PROVE IInv
  OBVIOUS
<1>1. TypeOK
  <2>1. \A t \in THREADS : Start(t) \in Context
    BY DEF Context, Start, Places
  <2>2. ready_queue \in Seq(threads)
    BY DEF Init
  <2> QED
    BY <2>1, <2>2, TrapGateAssumption DEF Init, TypeOK, Places
<1>2. KernelQueued
  BY TrapGateAssumption, ready_queue[2] = KernelThread, 2 \in 1 .. Len(ready_queue)
     DEF Init, KernelQueued
<1>3. KernelThreadIntact
  BY TrapGateAssumption DEF Init, KernelThreadIntact, Start, Code
<1>4. IntactUnlessCaught
  <2>1. \A i \in 1 .. Len(ready_queue) : ready_queue[i] \in THREADS
    BY <1>1 DEF TypeOK
  <2> QED
    BY <2>1, TrapGateAssumption DEF Init, IntactUnlessCaught, Start, Code
<1> QED
  BY <1>1, <1>2, <1>3, <1>4 DEF IInv

(***************************************************************************)
(* Switch keeps the invariant when the queue that it rotates holds threads *)
(* of the ready queue, the kernel thread among them, and the contexts of   *)
(* all these threads are right.                                            *)
(***************************************************************************)
LEMMA SwitchInv ==
  ASSUME IInv, UNCHANGED <<threads, place>>,
         NEW q \in Seq(threads), NEW ctx \in [THREADS -> Context],
         NEW onTop \in BOOLEAN, Switch(q, ctx, onTop),
         \E i \in 1 .. Len(q) : q[i] = KernelThread,
         ctx[KernelThread] = Code(KernelThread),
         caught' \in BOOLEAN,
         ~ caught' => \A i \in 1 .. Len(q) : ctx[q[i]] = Code(q[i])
  PROVE  IInv'
<1>1. /\ q \in Seq(threads) /\ Len(q) > 0
      /\ Len(q) \in Nat \ {0} /\ 1 \in 1 .. Len(q)
  OBVIOUS
<1>2. /\ Head(q) = q[1] /\ Head(q) \in threads
      /\ ready_queue' \in Seq(threads)
      /\ \A i \in 1 .. Len(ready_queue') : \E j \in 1 .. Len(q) : ready_queue'[i] = q[j]
      /\ \A j \in 1 .. Len(q) : \E i \in 1 .. Len(ready_queue') : ready_queue'[i] = q[j]
  <2>1. /\ Head(q) = q[1] /\ Head(q) \in threads
        /\ Append(Tail(q), Head(q)) \in Seq(threads)
        /\ Len(Append(Tail(q), Head(q))) = Len(q)
    BY <1>1, Rotation
  <2>2. /\ \A i \in 1 .. Len(q) : \E j \in 1 .. Len(q) :
             Append(Tail(q), Head(q))[i] = q[j]
        /\ \A j \in 1 .. Len(q) : \E i \in 1 .. Len(q) :
             Append(Tail(q), Head(q))[i] = q[j]
    BY <1>1, RotationMembers, Zenon
  <2> QED
    BY <2>1, <2>2 DEF Switch
<1>3. TypeOK'
  <2>1. /\ threads \subseteq THREADS /\ frame \in Context
        /\ place \in [THREADS -> Places]
    BY DEF IInv, TypeOK
  <2>2. ctx[Head(q)] \in Context
    BY <1>2, <2>1
  <2> QED
    BY <1>2, <2>1, <2>2 DEF Switch, TypeOK
<1>4. KernelQueued'
  BY <1>2 DEF IInv, KernelQueued
<1>5. KernelThreadIntact'
  BY DEF Switch, KernelThreadIntact, Code
<1>6. IntactUnlessCaught'
  <2> SUFFICES ASSUME ~ caught' PROVE
        /\ cpu' = Code(current_thread')
        /\ \A i \in 1 .. Len(ready_queue') :
             context'[ready_queue'[i]] = Code(ready_queue'[i])
    BY DEF IntactUnlessCaught, Code
  <2>1. \A i \in 1 .. Len(q) : ctx[q[i]] = Code(q[i])
    OBVIOUS
  <2>2. cpu' = Code(current_thread')
    <3>2. ctx[Head(q)] = Code(Head(q))
      BY <1>1, <1>2, <2>1
    <3> QED
      BY <3>2 DEF Switch
  <2>3. ASSUME NEW i \in 1 .. Len(ready_queue')
        PROVE  ctx[ready_queue'[i]] = Code(ready_queue'[i])
    <3>1. PICK j \in 1 .. Len(q) : ready_queue'[i] = q[j]
      BY <1>2
    <3> QED
      BY <2>1, <3>1
  <2> QED
    BY <2>2, <2>3 DEF Switch
<1> QED
  BY <1>3, <1>4, <1>5, <1>6 DEF IInv

\* TimerTick saves where the processor is, which is what the current thread is
\* to go on with, and switches.
LEMMA TickInv == IInv /\ TimerTick => IInv'
<1> SUFFICES ASSUME IInv, TimerTick PROVE IInv'
  OBVIOUS
<1> USE DEF TypeOK, KernelThreadIntact
<1>1. ready_queue \in Seq(threads) /\ caught' \in BOOLEAN /\ UNCHANGED <<threads, place>>
  BY DEF IInv, TimerTick
<1>2. \E i \in 1 .. Len(ready_queue) : ready_queue[i] = KernelThread
  BY DEF IInv, KernelQueued
<1>3. Saved(cpu) \in [THREADS -> Context]
  BY DEF IInv, Saved
<1>4. Saved(cpu)[KernelThread] = Code(KernelThread)
  BY TrapGateAssumption DEF IInv, Saved
<1>5. ASSUME ~ caught', NEW i \in 1 .. Len(ready_queue)
      PROVE  Saved(cpu)[ready_queue[i]] = Code(ready_queue[i])
  <2>1. ~ caught /\ cpu.at # "cli"
    BY <1>5 DEF IInv, TimerTick
  <2>2. cpu = Code(current_thread)
    BY <2>1 DEF IInv, IntactUnlessCaught
  <2>3. ready_queue[i] \in THREADS
    BY DEF IInv
  <2> QED
    BY <1>5, <2>1, <2>2, <2>3 DEF IInv, Saved, IntactUnlessCaught
<1>6. PICK onTop \in BOOLEAN : Switch(ready_queue, Saved(cpu), onTop)
  BY DEF TimerTick
<1> QED
  BY <1>1, <1>2, <1>3, <1>4, <1>5, <1>6, SwitchInv

LEMMA Concatenation ==
  ASSUME NEW T, NEW a \in Seq(T), NEW b \in Seq(T)
  PROVE  /\ a \o b \in Seq(T) /\ Len(a \o b) = Len(a) + Len(b)
         /\ \A i \in 1 .. Len(a) + Len(b) :
              (a \o b)[i] = IF i <= Len(a) THEN a[i] ELSE b[i - Len(a)]
OBVIOUS

\* What is left of the queue when one thread goes, the kernel thread staying.
LEMMA WithoutOne ==
  ASSUME NEW T, ready_queue \in Seq(T), NEW n \in 1 .. Len(ready_queue),
         NEW t, ready_queue[n] # t,
         \E i \in 1 .. Len(ready_queue) : ready_queue[i] = t
  PROVE  /\ Without(n) \in Seq(T)
         /\ \E i \in 1 .. Len(Without(n)) : Without(n)[i] = t
         /\ \A i \in 1 .. Len(Without(n)) :
              \E j \in 1 .. Len(ready_queue) : Without(n)[i] = ready_queue[j]
<1> DEFINE q == ready_queue
<1>1. /\ Without(n) \in Seq(T) /\ Len(Without(n)) = Len(q) - 1
      /\ \A i \in 1 .. Len(q) - 1 :
           Without(n)[i] = IF i < n THEN q[i] ELSE q[i + 1]
  <2> DEFINE a == SubSeq(q, 1, n - 1)
             b == SubSeq(q, n + 1, Len(q))
  <2>1. a \in Seq(T) /\ Len(a) = n - 1 /\ \A i \in 1 .. n - 1 : a[i] = q[i]
    OBVIOUS
  <2>2. /\ b \in Seq(T) /\ Len(b) = Len(q) - n
        /\ \A i \in 1 .. Len(q) - n : b[i] = q[n + i]
    OBVIOUS
  <2>3. Without(n) = a \o b
    BY DEF Without
  <2>4. n \in Nat /\ Len(q) \in Nat /\ 1 <= n /\ n <= Len(q)
    OBVIOUS
  <2> HIDE DEF a, b, q
  <2>5. /\ a \o b \in Seq(T) /\ Len(a \o b) = Len(a) + Len(b)
        /\ \A i \in 1 .. Len(a) + Len(b) :
             (a \o b)[i] = IF i <= Len(a) THEN a[i] ELSE b[i - Len(a)]
    BY <2>1, <2>2, Concatenation
  <2>6. ASSUME NEW i \in 1 .. Len(q) - 1
        PROVE  (a \o b)[i] = IF i < n THEN q[i] ELSE q[i + 1]
    <3>1. CASE i < n
      BY <2>1, <2>2, <2>4, <2>5, <3>1
    <3>2. CASE ~ (i < n)
      <4>1. (a \o b)[i] = b[i - (n - 1)]
        BY <2>1, <2>2, <2>4, <2>5, <3>2
      <4>2. i - (n - 1) \in 1 .. Len(q) - n /\ n + (i - (n - 1)) = i + 1
        BY <2>4, <3>2
      <4> QED
        BY <2>2, <2>4, <3>2, <4>1, <4>2
    <3> QED
      BY <3>1, <3>2
  <2> QED
    BY <2>1, <2>2, <2>3, <2>4, <2>5, <2>6
<1>2. Len(q) \in Nat
  OBVIOUS
<1>3. PICK k \in 1 .. Len(q) : q[k] = t
  OBVIOUS
<1>4. \E i \in 1 .. Len(q) - 1 : Without(n)[i] = t
  <2>1. CASE k < n
    BY <1>1, <1>2, <1>3, <2>1, k \in 1 .. Len(q) - 1
  <2>2. CASE k > n
    <3>1. k - 1 \in 1 .. Len(q) - 1 /\ ~ (k - 1 < n) /\ (k - 1) + 1 = k
      BY <1>2, <2>2
    <3> QED
      BY <1>1, <1>3, <3>1
  <2> QED
    BY <1>2, <1>3, <2>1, <2>2
<1>5. ASSUME NEW i \in 1 .. Len(q) - 1
      PROVE  \E j \in 1 .. Len(q) : Without(n)[i] = q[j]
  BY <1>1, <1>2, i \in 1 .. Len(q), i + 1 \in 1 .. Len(q)
<1> QED
  BY <1>1, <1>4, <1>5

\* Exit is a call of a thread other than the kernel thread.
LEMMA ExitInv == IInv /\ Exit => IInv'
<1> SUFFICES ASSUME IInv, Exit PROVE IInv'
  OBVIOUS
<1> USE DEF TypeOK, KernelThreadIntact
<1>1. PICK n \in 1 .. Len(ready_queue) :
        /\ ready_queue[n] = current_thread
        /\ Switch(Without(n), Saved(frame), TRUE)
  BY DEF Exit
<1>2. current_thread # KernelThread
  BY DEF IInv, Exit, Code
<1>3. \E i \in 1 .. Len(ready_queue) : ready_queue[i] = KernelThread
  BY DEF IInv, KernelQueued
<1>4. /\ Without(n) \in Seq(threads)
      /\ \E i \in 1 .. Len(Without(n)) : Without(n)[i] = KernelThread
      /\ \A i \in 1 .. Len(Without(n)) :
           \E j \in 1 .. Len(ready_queue) : Without(n)[i] = ready_queue[j]
  BY <1>1, <1>2, <1>3, WithoutOne DEF IInv
<1>5. UNCHANGED <<threads, place, caught>> /\ caught' \in BOOLEAN
  BY DEF IInv, Exit
<1>6. Saved(frame) \in [THREADS -> Context]
  BY DEF IInv, Saved
<1>7. Saved(frame)[KernelThread] = Code(KernelThread)
  BY <1>2 DEF IInv, Saved
<1>8. ASSUME ~ caught', NEW i \in 1 .. Len(Without(n))
      PROVE  Saved(frame)[Without(n)[i]] = Code(Without(n)[i])
  <2>1. PICK j \in 1 .. Len(ready_queue) : Without(n)[i] = ready_queue[j]
    BY <1>4
  <2>2. frame = Code(current_thread)
    BY <1>5, <1>8 DEF IInv, Exit, IntactUnlessCaught
  <2>3. ready_queue[j] \in THREADS
    BY DEF IInv
  <2> QED
    BY <1>5, <1>8, <2>1, <2>2, <2>3 DEF IInv, Saved, IntactUnlessCaught
<1> QED
  BY <1>1, <1>4, <1>5, <1>6, <1>7, <1>8, SwitchInv

\* The current thread runs on: its place and the processor's stay the same.
LEMMA RunInv == IInv /\ Run => IInv'
<1> SUFFICES ASSUME IInv, Run PROVE IInv'
  OBVIOUS
<1> USE DEF Run
<1>0. /\ current_thread \in THREADS
      /\ place'[current_thread] = 1 - cpu.place
      /\ \A t \in THREADS : t # current_thread => place'[t] = place[t]
      /\ 1 - cpu.place \in Places
  BY DEF IInv, TypeOK, Context, Places
<1>1. cpu' = [of |-> cpu.of, at |-> "code", place |-> 1 - cpu.place]
  BY DEF IInv, TypeOK, Context
<1>2. TypeOK'
  BY <1>0, <1>1 DEF IInv, TypeOK, Context
<1>3. KernelQueued'
  BY DEF IInv, KernelQueued
<1>4. KernelThreadIntact'
  <2>1. CASE current_thread = KernelThread
    BY <1>0, <1>1, <2>1 DEF IInv, KernelThreadIntact, Code
  <2>2. CASE current_thread # KernelThread
    BY <1>0, <2>2, TrapGateAssumption DEF IInv, KernelThreadIntact, Code
  <2> QED
    BY <2>1, <2>2
<1>5. IntactUnlessCaught'
  <2> SUFFICES ASSUME ~ caught PROVE
        /\ cpu' = Code(current_thread)'
        /\ \A i \in 1 .. Len(ready_queue) : ready_queue[i] # current_thread =>
             context[ready_queue[i]] = Code(ready_queue[i])'
    BY <1>1 DEF IntactUnlessCaught, Code
  <2>1. cpu' = Code(current_thread)'
    BY <1>0, <1>1 DEF IInv, IntactUnlessCaught, Code
  <2>2. ASSUME NEW i \in 1 .. Len(ready_queue), ready_queue[i] # current_thread
        PROVE  context[ready_queue[i]] = Code(ready_queue[i])'
    <3>1. ready_queue[i] \in THREADS
      BY DEF IInv, TypeOK
    <3>2. context[ready_queue[i]] = Code(ready_queue[i])
      BY <2>2 DEF IInv, IntactUnlessCaught
    <3> QED
      BY <1>0, <2>2, <3>1, <3>2 DEF Code
  <2> QED
    BY <2>1, <2>2
<1> QED
  BY <1>2, <1>3, <1>4, <1>5 DEF IInv

\* A call that switches to no other thread, exec and fork included.
LEMMA TrapInv == IInv /\ Trap => IInv'
<1> SUFFICES ASSUME IInv, Trap PROVE IInv'
  OBVIOUS
<1> USE DEF Trap
<1>1. TypeOK'
  BY DEF IInv, TypeOK, Context
<1>2. KernelQueued'
  BY DEF IInv, KernelQueued
<1>3. KernelThreadIntact'
  BY DEF IInv, KernelThreadIntact, Code
<1>4. IntactUnlessCaught'
  BY DEF IInv, TypeOK, IntactUnlessCaught, Context, Code
<1> QED
  BY <1>1, <1>2, <1>3, <1>4 DEF IInv

LEMMA CallInv == IInv /\ Call => IInv'
<1> SUFFICES ASSUME IInv, Call PROVE IInv'
  OBVIOUS
<1> USE DEF Call, Saved
<1>1. TypeOK'
  BY DEF IInv, TypeOK
<1>2. KernelQueued'
  BY DEF IInv, KernelQueued
<1>3. KernelThreadIntact'
  BY DEF IInv, TypeOK, KernelThreadIntact, Code
<1>4. IntactUnlessCaught'
  BY DEF IInv, TypeOK, IntactUnlessCaught, Code
<1> QED
  BY <1>1, <1>2, <1>3, <1>4 DEF IInv

LEMMA ExecInv == IInv /\ Exec => IInv'
<1> SUFFICES ASSUME IInv, Exec PROVE IInv'
  OBVIOUS
<1> USE DEF Exec, Restarted, Saved, Start
<1>1. TypeOK'
  BY DEF IInv, TypeOK, Context, Places
<1>2. KernelQueued'
  BY DEF IInv, KernelQueued
<1>3. KernelThreadIntact'
  BY TrapGateAssumption DEF IInv, TypeOK, KernelThreadIntact, Code
<1>4. IntactUnlessCaught'
  BY DEF IInv, TypeOK, IntactUnlessCaught, Code
<1> QED
  BY <1>1, <1>2, <1>3, <1>4 DEF IInv

LEMMA Enqueued ==
  ASSUME NEW S, NEW T, S \subseteq T, NEW q \in Seq(S), NEW t \in T
  PROVE  /\ Append(q, t) \in Seq(T) /\ Len(Append(q, t)) = Len(q) + 1
         /\ \A i \in 1 .. Len(q) : Append(q, t)[i] = q[i]
         /\ Append(q, t)[Len(q) + 1] = t
OBVIOUS

LEMMA ForkInv == ASSUME IInv, NEW t \in THREADS, Fork(t) PROVE IInv'
<1> DEFINE CodeAfter(u) == [of |-> u, at |-> "code", place |-> place'[u]]
<1> USE DEF Fork, Taken, Saved, Duplicate
<1>0. /\ ready_queue' \in Seq(threads')
      /\ Len(ready_queue') = Len(ready_queue) + 1 /\ Len(ready_queue) \in Nat
      /\ \A i \in 1 .. Len(ready_queue) : ready_queue'[i] = ready_queue[i]
      /\ ready_queue'[Len(ready_queue) + 1] = t
  <2>1. ready_queue \in Seq(threads) /\ threads \subseteq threads' /\ t \in threads'
    BY DEF IInv, TypeOK
  <2> QED
    BY <2>1, Enqueued
<1>1. TypeOK'
  <2>1. Duplicate(frame, t) \in Context
    BY DEF IInv, TypeOK, Context, Code
  <2> QED
    BY <1>0, <2>1 DEF IInv, TypeOK
<1>2. KernelQueued'
  <2>1. PICK i \in 1 .. Len(ready_queue) : ready_queue[i] = KernelThread
    BY DEF IInv, KernelQueued
  <2>2. i \in 1 .. Len(ready_queue') /\ ready_queue'[i] = KernelThread
    BY <1>0, <2>1
  <2> QED
    BY <2>2 DEF IInv, KernelQueued
<1>3. KernelThreadIntact'
  <2>1. t # KernelThread /\ KernelThread \in THREADS
    BY TrapGateAssumption DEF IInv, KernelQueued
  <2> QED
    BY <2>1 DEF IInv, TypeOK, KernelThreadIntact, Code
<1>4. /\ place'[t] = place[current_thread]
      /\ \A u \in THREADS : u # t => place'[u] = place[u]
      /\ current_thread \in THREADS /\ current_thread # t
  BY DEF IInv, TypeOK
<1>5. IntactUnlessCaught'
  <2> SUFFICES ASSUME ~ caught PROVE
        /\ cpu' = CodeAfter(current_thread)
        /\ \A i \in 1 .. Len(ready_queue') : ready_queue'[i] # current_thread =>
             context'[ready_queue'[i]] = CodeAfter(ready_queue'[i])
    <3>1. UNCHANGED <<current_thread, caught>>
      OBVIOUS
    <3> HIDE DEF Fork
    <3>2. ~ caught' => cpu' = CodeAfter(current_thread')
      BY <3>1
    <3>3. ~ caught' => cpu'.of = current_thread' /\ cpu'.at = "code"
      BY <3>2
    <3> QED
      BY <3>1, <3>2, <3>3 DEF IntactUnlessCaught, Code
  <2>1. frame = Code(current_thread)
    BY DEF IInv, IntactUnlessCaught
  <2>2. cpu' = CodeAfter(current_thread)
    BY <1>4, <2>1 DEF Code
  <2>3. ASSUME NEW i \in 1 .. Len(ready_queue'), ready_queue'[i] # current_thread
        PROVE  context'[ready_queue'[i]] = CodeAfter(ready_queue'[i])
    <3>1. CASE i = Len(ready_queue) + 1
      <4>1. ready_queue'[i] = t /\ context'[t] = Duplicate(frame, t)
        BY <1>0, <3>1 DEF IInv, TypeOK
      <4>2. Duplicate(frame, t) = [of |-> t, at |-> "code", place |-> place[current_thread]]
        BY <2>1 DEF Code
      <4> QED
        BY <1>4, <4>1, <4>2 DEF Code
    <3>2. CASE i # Len(ready_queue) + 1
      <4>1. i \in 1 .. Len(ready_queue) /\ ready_queue'[i] = ready_queue[i]
        BY <1>0, <3>2
      <4>2. ready_queue[i] \in threads /\ ready_queue[i] # t /\ ready_queue[i] \in THREADS
        BY <4>1 DEF IInv, TypeOK
      <4>3. context[ready_queue[i]] = Code(ready_queue[i])
        BY <2>3, <4>1 DEF IInv, IntactUnlessCaught
      <4>4. context'[ready_queue[i]] = context[ready_queue[i]]
        BY <2>3, <4>1, <4>2 DEF IInv, TypeOK
      <4> QED
        BY <1>4, <4>1, <4>2, <4>3, <4>4 DEF Code
    <3> QED
      BY <3>1, <3>2
  <2> QED
    BY <2>2, <2>3
<1> QED
  BY <1>1, <1>2, <1>3, <1>5 DEF IInv

LEMMA NextInv == IInv /\ [Next]_vars => IInv'
<1> SUFFICES ASSUME IInv, [Next]_vars PROVE IInv'
  OBVIOUS
<1>1. CASE UNCHANGED vars
  BY <1>1 DEF vars, IInv, TypeOK, KernelQueued, KernelThreadIntact,
     IntactUnlessCaught, Code
<1> QED
  BY <1>1, TickInv, RunInv, TrapInv, CallInv, ExecInv, ForkInv, ExitInv DEF Next

LEMMA Invariance == Spec => []IInv
BY InitInv, NextInv, PTL DEF Spec

\* Without an interrupt before a handler's cli, every thread runs in, and goes
\* on from, its own context, for any number of threads.
THEOREM ContextsCorrect == Spec => []IntactUnlessCaught
<1>1. IInv => IntactUnlessCaught
  BY DEF IInv
<1> QED
  BY Invariance, <1>1, PTL

\* The kernel thread's context is never mixed up, interrupt or not.
THEOREM KernelThreadCorrect == Spec => []KernelThreadIntact
<1>1. IInv => KernelThreadIntact
  BY DEF IInv
<1> QED
  BY Invariance, <1>1, PTL
=============================================================================
