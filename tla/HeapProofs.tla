----------------------------- MODULE HeapProofs -----------------------------
(***************************************************************************)
(* The kernel heap, for every size of the heap, of the header and of the   *)
(* requests: the blocks tile the heap, buffers in use are left alone, and  *)
(* malloc fails only when no run of free blocks is long enough.            *)
(***************************************************************************)
EXTENDS Heap, FiniteSetTheorems, WellFoundedInduction, TLAPS

\* Behind the cursor of __merge_block, and everywhere once it is done, no two
\* neighbours are free.
Merged ==
  \A a \in blocks :
    (pc = "merge" /\ a < it) \/ pc = "retry" =>
      next[a] = Head \/ used[a] \/ used[next[a]]

IInv == TypeOK /\ Tiling /\ HeldIntact /\ Merged
-----------------------------------------------------------------------------
\* roundsize returns a size that is not smaller.
LEMMA RoundFacts ==
  ASSUME NEW size \in Sizes
  PROVE  RoundSize(size) \in Nat /\ RoundSize(size) >= size
<1>1. size \in Nat /\ Grain \in Nat /\ Grain > 0
  BY HeapAssumption
<1>2. size % Grain \in 0 .. Grain - 1
  BY <1>1
<1> QED
  BY <1>1, <1>2 DEF RoundSize

\* The facts about End that the steps below use.
LEMMA EndFacts ==
  ASSUME TypeOK, Tiling, NEW a \in blocks
  PROVE  /\ a \in Nat /\ length[a] \in Nat /\ length[a] > 0
         /\ Header \in Nat /\ Header > 0 /\ Grain \in Nat /\ Grain > 0
         /\ Total \in Nat
         /\ End(a) \in Nat /\ End(a) = a + Header + length[a] /\ End(a) <= Total
         /\ next[a] = End(a)
<1>1. /\ Header \in Nat /\ Header > 0 /\ Grain \in Nat /\ Grain > 0
      /\ Total \in Nat
  BY HeapAssumption
<1>2. /\ a \in 0 .. Total - 1
      /\ length[a] \in 0 .. Total /\ length[a] > 0
      /\ blocks \subseteq 0 .. Total - 1
      /\ next[a] = End(a)
      /\ next[a] \in blocks \cup {Total}
  BY DEF TypeOK, Tiling, Address, Head
<1>3. End(a) = a + Header + length[a]
  BY DEF End
<1>4. End(a) \in Nat
  BY <1>1, <1>2, <1>3
<1>5. End(a) <= Total
  BY <1>1, <1>2, <1>4
<1> QED
  BY <1>1, <1>2, <1>3, <1>4, <1>5

LEMMA InitInv == Init => IInv
<1> SUFFICES ASSUME Init PROVE IInv
  OBVIOUS
<1>1. /\ Total \in Nat /\ Header \in Nat /\ Grain \in Nat
      /\ Grain > 0 /\ Header > 0 /\ Total >= Header + Grain
  BY HeapAssumption
<1>2. TypeOK
  BY <1>1 DEF Init, TypeOK, Address, Head
<1>3. Tiling
  BY <1>1 DEF Init, Tiling, End, Address, Head
<1>4. HeldIntact
  BY <1>1 DEF Init, HeldIntact, Address
<1>5. Merged
  BY DEF Init, Merged
<1> QED
  BY <1>2, <1>3, <1>4, <1>5 DEF IInv

\* One more buffer is held, in a block that was not used.
LEMMA HeldPlus ==
  ASSUME HeldIntact, blocks \subseteq Address,
         used \in [Address -> BOOLEAN],
         NEW c \in Address, NEW n,
         c \in blocks',
         blocks \subseteq blocks' /\ blocks' \subseteq blocks \cup {c},
         used' = [used EXCEPT ![c] = TRUE],
         held' = held \cup {[at |-> c, size |-> n]},
         \A h \in held : h.at # c /\ length'[h.at] = length[h.at],
         length'[c] >= n
  PROVE  HeldIntact'
<1> DEFINE new == [at |-> c, size |-> n]
<1>1. new.at = c /\ new.size = n
  OBVIOUS
<1> HIDE DEF new
<1>2. held' = held \cup {new}
  BY DEF new
<1>3. used'[c] /\ \A x \in blocks : x # c => used'[x] = used[x]
  OBVIOUS
<1>4. ASSUME NEW h \in held'
      PROVE  h.at \in blocks' /\ used'[h.at] /\ length'[h.at] >= h.size
  <2>1. CASE h = new
    BY <1>1, <1>3, <2>1
  <2>2. CASE h \in held
    BY <1>3, <2>2 DEF HeldIntact
  <2> QED
    BY <1>2, <2>1, <2>2
<1>5. \A g, h \in held' : g.at = h.at => g = h
  BY <1>1, <1>2 DEF HeldIntact
<1>6. \A x \in blocks' : used'[x] => \E h \in held' : h.at = x
  BY <1>1, <1>2, <1>3 DEF HeldIntact
<1> QED
  BY <1>4, <1>5, <1>6 DEF HeldIntact

\* A block taken whole.
LEMMA TakeInv ==
  ASSUME TypeOK, Tiling, HeldIntact,
         NEW a \in blocks, NEW size \in Nat, size > 0,
         Fits(a, size), Take(a, size),
         pc' \in {"idle"}, it' \in blocks, want' \in Nat
  PROVE  TypeOK' /\ Tiling' /\ HeldIntact' /\ held' # held
<1>1. /\ ~ used[a] /\ length[a] >= size /\ size <= Total
      /\ used' = [used EXCEPT ![a] = TRUE]
      /\ available' = available - length[a]
      /\ held' = held \cup {[at |-> a, size |-> size]}
      /\ UNCHANGED <<blocks, next, length, block_count>>
  BY EndFacts DEF Fits, Take
<1>2. [at |-> a, size |-> size] \in Buffer
  BY <1>1 DEF Buffer, TypeOK
<1>3. \A h \in held : h.at # a
  BY <1>1 DEF HeldIntact
<1>4. TypeOK'
  BY <1>1, <1>2, EndFacts DEF TypeOK
<1>5. Tiling'
  BY <1>1 DEF Tiling, End
<1>6. HeldIntact'
  BY <1>1, <1>3, HeldPlus DEF TypeOK
<1>7. [at |-> a, size |-> size].at = a
  OBVIOUS
<1>8. held' # held
  BY <1>1, <1>3, <1>7
<1> QED
  BY <1>4, <1>5, <1>6, <1>8

\* What a split of block a does, b being the header of its last size bytes.
SplitOff(a, size, b) ==
  /\ ~ used[a]
  /\ b = a + length[a] - size
  /\ blocks' = blocks \cup {b}
  /\ next' = [next EXCEPT ![a] = b, ![b] = next[a]]
  /\ length' = [length EXCEPT ![a] = length[a] - (size + Header), ![b] = size]
  /\ used' = [used EXCEPT ![b] = TRUE]
  /\ held' = held \cup {[at |-> b, size |-> size]}
  /\ available' = available - (size + Header)
  /\ block_count' = block_count + 1
  /\ b \in Nat /\ a < b /\ b + Header + size = End(a)
  /\ a + Header + (length[a] - (size + Header)) = b
  /\ length[a] - (size + Header) \in Nat
  /\ length[a] - (size + Header) > 0
  /\ End(a) <= Total
  /\ b \in Address /\ a \in Address /\ size <= Total
  /\ b \notin blocks
  /\ length'[a] = length[a] - (size + Header) /\ length'[b] = size
  /\ next'[a] = b /\ next'[b] = next[a]
  /\ End(a)' = b /\ End(b)' = End(a)
  /\ \A x \in blocks : x # a =>
       length'[x] = length[x] /\ next'[x] = next[x] /\ End(x)' = End(x)

\* A block split at its end.
LEMMA SplitFacts ==
  ASSUME TypeOK, Tiling,
         NEW a \in blocks, NEW size \in Nat, size > 0,
         Fits(a, size), Split(a, size)
  PROVE  \E b \in Address : SplitOff(a, size, b)
<1>0. PICK b \in Int : b = a + length[a] - size
  BY EndFacts
<1>1. /\ ~ used[a]
      /\ length[a] >= size + Header + Grain
      /\ blocks' = blocks \cup {b}
      /\ next' = [next EXCEPT ![a] = b, ![b] = next[a]]
      /\ length' = [length EXCEPT ![a] = length[a] - (size + Header), ![b] = size]
      /\ used' = [used EXCEPT ![b] = TRUE]
      /\ held' = held \cup {[at |-> b, size |-> size]}
      /\ available' = available - (size + Header)
      /\ block_count' = block_count + 1
  BY <1>0, EndFacts DEF Fits, Split, WholeBlock, NewEntry
<1>2. /\ b \in Nat /\ a < b /\ b + Header + size = End(a)
      /\ a + Header + (length[a] - (size + Header)) = b
      /\ length[a] - (size + Header) \in Nat
      /\ length[a] - (size + Header) > 0
      /\ End(a) <= Total
  BY <1>0, <1>1, EndFacts
<1>3. b \in Address /\ a \in Address /\ size <= Total
  <2>1. b < Total /\ size <= Total
    BY <1>2, EndFacts
  <2> QED
    BY <1>2, <2>1, EndFacts DEF Address, TypeOK
<1>4. b \notin blocks
  BY <1>2, EndFacts DEF Tiling
<1>5. /\ length'[a] = length[a] - (size + Header) /\ length'[b] = size
      /\ next'[a] = b /\ next'[b] = next[a]
      /\ End(a)' = b /\ End(b)' = End(a)
      /\ \A x \in blocks : x # a =>
           length'[x] = length[x] /\ next'[x] = next[x] /\ End(x)' = End(x)
  <2>1. /\ length'[a] = length[a] - (size + Header) /\ length'[b] = size
        /\ next'[a] = b /\ next'[b] = next[a]
        /\ \A x \in blocks : x # a => length'[x] = length[x] /\ next'[x] = next[x]
    BY <1>1, <1>3, <1>4 DEF TypeOK
  <2>2. End(a)' = a + Header + length'[a] /\ End(b)' = b + Header + length'[b]
    BY DEF End
  <2>3. \A x \in blocks : x # a => End(x)' = End(x)
    BY <2>1 DEF End
  <2> QED
    BY <1>2, <2>1, <2>2, <2>3
<1> QED
  BY <1>0, <1>1, <1>2, <1>3, <1>4, <1>5 DEF SplitOff

LEMMA SplitInv ==
  ASSUME TypeOK, Tiling, HeldIntact,
         NEW a \in blocks, NEW size \in Nat, size > 0,
         Fits(a, size), Split(a, size),
         pc' \in {"idle"}, it' \in blocks, want' \in Nat
  PROVE  TypeOK' /\ Tiling' /\ HeldIntact' /\ held' # held
<1>0. PICK b \in Address : SplitOff(a, size, b)
  BY SplitFacts
<1>1. /\ ~ used[a]
      /\ blocks' = blocks \cup {b}
      /\ next' = [next EXCEPT ![a] = b, ![b] = next[a]]
      /\ length' = [length EXCEPT ![a] = length[a] - (size + Header), ![b] = size]
      /\ used' = [used EXCEPT ![b] = TRUE]
      /\ held' = held \cup {[at |-> b, size |-> size]}
      /\ available' = available - (size + Header)
      /\ block_count' = block_count + 1
  BY <1>0 DEF SplitOff
<1>2. /\ b \in Nat /\ a < b /\ b + Header + size = End(a)
      /\ a + Header + (length[a] - (size + Header)) = b
      /\ length[a] - (size + Header) \in Nat
      /\ length[a] - (size + Header) > 0
      /\ End(a) <= Total
  BY <1>0 DEF SplitOff
<1>3. b \in Address /\ a \in Address /\ size <= Total
  BY <1>0 DEF SplitOff
<1>4. b \notin blocks
  BY <1>0 DEF SplitOff
<1>5. /\ length'[a] = length[a] - (size + Header) /\ length'[b] = size
      /\ next'[a] = b /\ next'[b] = next[a]
      /\ End(a)' = b /\ End(b)' = End(a)
      /\ \A x \in blocks : x # a =>
           length'[x] = length[x] /\ next'[x] = next[x] /\ End(x)' = End(x)
  BY <1>0 DEF SplitOff
<1>6. TypeOK'
  <2>1. [at |-> b, size |-> size] \in Buffer
    BY <1>3, HeapAssumption DEF Buffer
  <2>2. /\ next[a] \in {NULL} \cup 0 .. Total /\ b \in 0 .. Total /\ size \in 0 .. Total
        /\ length[a] - (size + Header) \in 0 .. Total
    <3>1. next[a] \in {NULL} \cup 0 .. Total /\ b \in 0 .. Total /\ size \in 0 .. Total
      BY <1>3, HeapAssumption DEF TypeOK, Address
    <3>2. length[a] \in 0 .. Total
      BY <1>3 DEF TypeOK
    <3> QED
      BY <1>2, <3>1, <3>2, HeapAssumption
  <2>3. /\ next' \in [Address -> {NULL} \cup 0 .. Total]
        /\ length' \in [Address -> 0 .. Total]
        /\ used' \in [Address -> BOOLEAN]
    BY <1>1, <1>3, <2>2 DEF TypeOK
  <2>4. blocks' \subseteq Address /\ held' \subseteq Buffer
    BY <1>1, <1>3, <2>1 DEF TypeOK
  <2>5. available' \in Int /\ block_count' \in Int
    BY <1>1, HeapAssumption DEF TypeOK
  <2> QED
    BY <1>1, <2>3, <2>4, <2>5 DEF TypeOK
<1>7. Tiling'
  <2>1. \A x \in blocks' : /\ next'[x] = End(x)'
                           /\ next'[x] \in blocks' \cup {Head}
                           /\ length'[x] > 0
    <3>1. b \in blocks' /\ a \in blocks' /\ blocks \subseteq blocks'
      BY <1>1
    <3>2. next[a] = End(a) /\ next[a] \in blocks \cup {Head}
      BY DEF Tiling
    <3>3. \A x \in blocks : x # a => /\ next'[x] = End(x)'
                                      /\ next'[x] \in blocks \cup {Head}
                                      /\ length'[x] > 0
      BY <1>5 DEF Tiling
    <3> QED
      BY <1>1, <1>2, <1>5, <3>1, <3>2, <3>3
  <2>2. ASSUME NEW x \in blocks', NEW y \in blocks', x < y
        PROVE  End(x)' <= y
    <3>1. CASE x \in blocks /\ y \in blocks
      <4>1. End(x) <= y /\ y \in Nat
        BY <2>2, <3>1, EndFacts DEF Tiling
      <4>2. CASE x = a
        BY <1>2, <1>5, <3>1, <4>1, <4>2, EndFacts
      <4>3. CASE x # a
        BY <1>5, <3>1, <4>1, <4>3
      <4> QED
        BY <4>2, <4>3
    <3>2. CASE x = b /\ y \in blocks
      BY <1>2, <1>5, <2>2, <3>2, EndFacts DEF Tiling
    <3>3. CASE x \in blocks /\ y = b
      BY <1>2, <1>5, <2>2, <3>3, EndFacts DEF Tiling
    <3> QED
      BY <1>1, <1>2, <2>2, <3>1, <3>2, <3>3
  <2> QED
    BY <1>1, <2>1, <2>2 DEF Tiling
<1>8. HeldIntact'
  <2>1. \A h \in held : h.at # b /\ length'[h.at] = length[h.at]
    BY <1>1, <1>4, <1>5 DEF HeldIntact
  <2>2. length'[b] >= size
    BY <1>5
  <2> QED
    BY <1>1, <1>3, <2>1, <2>2, HeldPlus DEF TypeOK
<1>9. [at |-> b, size |-> size].at = b
  OBVIOUS
<1>10. held' # held
  BY <1>1, <1>4, <1>9 DEF HeldIntact
<1> QED
  BY <1>6, <1>7, <1>8, <1>10

\* What either way of allocating leaves, and that it hands something out.
LEMMA AllocateInv ==
  ASSUME TypeOK, Tiling, HeldIntact, NEW size \in Nat, size > 0,
         Allocate(size), pc' = "idle", it' \in blocks, want' \in Nat
  PROVE  TypeOK' /\ Tiling' /\ HeldIntact' /\ held' # held
<1>1. PICK a \in blocks : Fits(a, size) /\ (Take(a, size) \/ Split(a, size))
  BY DEF Allocate, FirstFit
<1> QED
  BY <1>1, TakeInv, SplitInv

\* The block after the cursor joins the cursor's block.
LEMMA AbsorbInv == ASSUME IInv, Absorb PROVE IInv'
<1>0. PICK a \in 0 .. Total : a = it
  BY HeapAssumption DEF IInv, TypeOK, Address
<1>1. TypeOK /\ Tiling /\ HeldIntact /\ Merged
  BY DEF IInv
<1>2. PICK b \in {NULL} \cup 0 .. Total : b = next[a]
  BY <1>0, <1>1 DEF TypeOK
<1>3. /\ pc = "merge"
      /\ b # Head /\ ~ used[a] /\ ~ used[b]
      /\ blocks' = blocks \ {b}
      /\ next' = [next EXCEPT ![a] = next[b], ![b] = NULL]
      /\ length' = [length EXCEPT ![a] = @ + length[b] + Header, ![b] = 0]
      /\ used' = [used EXCEPT ![b] = FALSE]
      /\ block_count' = block_count - 1
      /\ available' = available + Header
      /\ UNCHANGED <<held, pc, it, want>>
  BY <1>0, <1>2 DEF Absorb, Mergeable, Joined, Gained
<1>4. a \in blocks /\ b \in blocks /\ b = End(a)
  BY <1>0, <1>1, <1>2, <1>3 DEF TypeOK, Tiling
<1>5. /\ a < b
      /\ End(b) = a + Header + (length[a] + length[b] + Header)
      /\ length[a] + length[b] + Header \in 0 .. Total
      /\ length[a] + length[b] + Header > 0
      /\ b < End(b)
  BY <1>1, <1>4, EndFacts
<1>6. a \in Address /\ b \in Address
  BY <1>1, <1>4 DEF TypeOK
<1>7. /\ length'[a] = length[a] + length[b] + Header
      /\ next'[a] = next[b]
      /\ \A x \in blocks : x # a /\ x # b =>
           length'[x] = length[x] /\ next'[x] = next[x]
      /\ \A x \in blocks : used'[x] = used[x]
  <2>1. a # b
    BY <1>5
  <2> QED
    BY <1>1, <1>3, <2>1, <1>6 DEF TypeOK
<1>8. /\ End(a)' = End(b)
      /\ \A x \in blocks : x # a /\ x # b => End(x)' = End(x)
  <2>1. End(a)' = a + Header + length'[a]
    BY <1>3 DEF End
  <2>2. \A x \in blocks : x # a /\ x # b => End(x)' = End(x)
    BY <1>7 DEF End
  <2> QED
    BY <1>5, <1>7, <2>1, <2>2
\* Only the cursor's block ended where the removed block began.
<1>9. \A x \in blocks : x # a => next[x] # b
  <2> SUFFICES ASSUME NEW x \in blocks, x # a PROVE End(x) # b
    BY <1>1, EndFacts
  <2>1. CASE x < a
    BY <1>1, <1>4, <1>5, <2>1, EndFacts DEF Tiling
  <2>2. CASE a < x
    BY <1>1, <1>4, <2>2, EndFacts DEF Tiling
  <2> QED
    BY <1>1, <1>4, <2>1, <2>2, EndFacts
<1>10. TypeOK'
  <2>1. next[b] \in {NULL} \cup 0 .. Total
    BY <1>1, <1>6 DEF TypeOK
  <2>2. /\ next' \in [Address -> {NULL} \cup 0 .. Total]
        /\ length' \in [Address -> 0 .. Total]
        /\ used' \in [Address -> BOOLEAN]
    BY <1>1, <1>2, <1>3, <1>5, <1>6, <2>1, HeapAssumption DEF TypeOK
  <2>3. it' \in blocks'
    BY <1>0, <1>3, <1>4, <1>5
  <2> QED
    BY <1>1, <1>3, <2>2, <2>3, HeapAssumption DEF TypeOK
<1>11. Tiling'
  <2>1. 0 \in blocks'
    BY <1>1, <1>3, <1>5, <1>4, EndFacts DEF Tiling
  <2>2. ASSUME NEW x \in blocks'
        PROVE  /\ next'[x] = End(x)'
               /\ next'[x] \in blocks' \cup {Head}
               /\ length'[x] > 0
    <3>1. CASE x = a
      <4>1. next[b] = End(b) /\ next[b] \in blocks \cup {Head}
        BY <1>1, <1>4 DEF Tiling
      <4>2. next[b] # b
        BY <1>5, <1>6, <4>1 DEF Address
      <4>3. next'[a] = End(a)' /\ next'[a] \in blocks' \cup {Head} /\ length'[a] > 0
        BY <1>3, <1>5, <1>7, <1>8, <4>1, <4>2
      <4> QED
        BY <3>1, <4>3 DEF End
    <3>2. CASE x # a
      <4>1. x \in blocks /\ x # b
        BY <1>3
      <4>2. next[x] = End(x) /\ next[x] \in blocks \cup {Head} /\ length[x] > 0
        BY <1>1, <4>1 DEF Tiling
      <4>3. blocks' = blocks \ {b} /\ Head' = Head
        BY <1>3 DEF Head
      <4>4. next'[x] = next[x] /\ length'[x] = length[x] /\ next[x] # b
        BY <1>7, <1>9, <3>2, <4>1
      <4>5. End(x)' = End(x)
        BY <1>8, <3>2, <4>1
      <4> QED
        BY <4>2, <4>3, <4>4, <4>5
    <3> QED
      BY <3>1, <3>2
  <2>3. ASSUME NEW x \in blocks', NEW y \in blocks', x < y
        PROVE  End(x)' <= y
    <3>1. /\ x \in blocks /\ y \in blocks /\ x # b /\ y # b
          /\ End(x) <= y
      BY <1>1, <1>3, <2>3 DEF Tiling
    <3>2. CASE x = a
      <4>1. b < y
        BY <1>1, <1>4, <3>1, <3>2, EndFacts
      <4> QED
        BY <1>1, <1>4, <1>8, <3>1, <3>2, <4>1 DEF Tiling
    <3>3. CASE x # a
      BY <1>8, <3>1, <3>3
    <3> QED
      BY <3>2, <3>3
  <2> QED
    BY <2>1, <2>2, <2>3 DEF Tiling
<1>12. HeldIntact'
  <2>1. \A h \in held : h.at \in blocks /\ h.at # b /\ h.at # a
    BY <1>1, <1>3 DEF HeldIntact
  <2> QED
    BY <1>1, <1>3, <1>7, <2>1 DEF HeldIntact
<1>13. Merged'
  <2> SUFFICES ASSUME NEW x \in blocks', x < a
               PROVE  next'[x] = Head \/ used'[x] \/ used'[next'[x]]
    BY <1>0, <1>3 DEF Merged
  <2>1. x \in blocks /\ x # a /\ x # b /\ next'[x] = next[x]
    <3>1. x \in blocks /\ x # b
      BY <1>3
    <3>2. x # a
      BY <1>1, <3>1, EndFacts
    <3> QED
      BY <1>7, <3>1, <3>2
  <2>2. next[x] = Head \/ next[x] \in blocks
    BY <1>1, <2>1 DEF Tiling
  <2>3. next[x] = Head \/ used[x] \/ used[next[x]]
    BY <1>0, <1>1, <1>3, <2>1 DEF Merged
  <2> QED
    BY <1>7, <2>1, <2>2, <2>3
<1> QED
  BY <1>10, <1>11, <1>12, <1>13 DEF IInv

\* The cursor moves past a block that has no free neighbour behind it.
LEMMA AdvanceInv == ASSUME IInv, Advance PROVE IInv'
<1>1. TypeOK /\ Tiling /\ HeldIntact /\ Merged
  BY DEF IInv
<1>2. /\ pc = "merge" /\ ~ Mergeable(it)
      /\ UNCHANGED <<blocks, next, length, used, available, block_count, held, want>>
      /\ \/ next[it] = Head /\ pc' = "retry" /\ it' = it
         \/ next[it] # Head /\ it' = next[it] /\ pc' = "merge"
  BY DEF Advance, MovesOn, heap
<1>3. it \in blocks /\ (next[it] # Head => next[it] \in blocks)
  BY <1>1 DEF TypeOK, Tiling
<1>4. TypeOK'
  BY <1>1, <1>2, <1>3 DEF TypeOK
<1>5. Tiling' /\ HeldIntact'
  BY <1>1, <1>2 DEF Tiling, HeldIntact, End
<1>6. Merged'
  <2> SUFFICES ASSUME NEW x \in blocks, (pc' = "merge" /\ x < it') \/ pc' = "retry"
               PROVE  next[x] = Head \/ used[x] \/ used[next[x]]
    BY <1>2 DEF Merged
  <2>1. CASE x = it
    BY <1>2, <2>1 DEF Mergeable
  <2>2. CASE x < it
    BY <1>1, <1>2, <2>2 DEF Merged
  <2>3. CASE it < x
    <3>1. End(it) <= x /\ next[it] = End(it) /\ x < Total /\ x \in Nat
      BY <1>1, <1>3, <2>3, EndFacts DEF Tiling, TypeOK, Address
    <3>2. next[it] # Head /\ pc' = "merge" /\ it' = next[it]
      BY <1>1, <1>2, <1>3, <3>1, EndFacts DEF Head
    <3> QED
      BY <1>1, <1>3, <3>1, <3>2, EndFacts
  <2> QED
    BY <1>1, <1>3, <2>1, <2>2, <2>3, EndFacts
<1> QED
  BY <1>4, <1>5, <1>6 DEF IInv

\* free gives one buffer back and leaves the list alone.
LEMMA FreeInv == ASSUME IInv, NEW h \in held, Free(h) PROVE IInv'
<1>1. TypeOK /\ Tiling /\ HeldIntact /\ Merged
  BY DEF IInv
<1>2. /\ pc = "idle"
      /\ used' = [used EXCEPT ![h.at] = FALSE]
      /\ available' = available + length[h.at]
      /\ held' = held \ {h}
      /\ UNCHANGED <<blocks, next, length, block_count, pc, it, want>>
  BY DEF Free
<1>3. h.at \in blocks /\ h.at \in Address
  BY <1>1 DEF HeldIntact, TypeOK
<1>4. TypeOK'
  BY <1>1, <1>2, <1>3 DEF TypeOK
<1>5. Tiling'
  BY <1>1, <1>2 DEF Tiling, End
<1>6. HeldIntact'
  <2>1. \A x \in blocks : used'[x] = IF x = h.at THEN FALSE ELSE used[x]
    BY <1>1, <1>2, <1>3 DEF TypeOK
  <2>2. \A g \in held' : g \in held /\ g.at # h.at
    BY <1>1, <1>2 DEF HeldIntact
  <2> QED
    BY <1>1, <1>2, <2>1, <2>2 DEF HeldIntact
<1>7. Merged'
  BY <1>2 DEF Merged
<1> QED
  BY <1>4, <1>5, <1>6, <1>7 DEF IInv
-----------------------------------------------------------------------------
\* want is what malloc looks for while it is in progress.
LEMMA NextInv ==
  ASSUME IInv, pc # "idle" => want > 0, [Next]_vars
  PROVE  IInv' /\ (pc # "idle" => want > 0)'
<1>1. TypeOK /\ Tiling /\ HeldIntact /\ Merged
  BY DEF IInv
<1>2. ASSUME NEW size \in Sizes, Malloc(size)
      PROVE  IInv' /\ (pc # "idle" => want > 0)'
  <2>1. RoundSize(size) \in Nat /\ RoundSize(size) > 0
    BY RoundFacts, HeapAssumption
  <2>2. CASE Allocate(RoundSize(size)) /\ UNCHANGED <<pc, it, want>>
    <3>1. pc' = "idle" /\ it' \in blocks /\ want' \in Nat
      BY <1>1, <1>2, <2>2 DEF Malloc, TypeOK
    <3>2. TypeOK' /\ Tiling' /\ HeldIntact'
      BY <1>1, <2>1, <2>2, <3>1, AllocateInv
    <3>3. Merged'
      BY <3>1 DEF Merged
    <3> QED
      BY <3>1, <3>2, <3>3 DEF IInv
  <2>3. CASE /\ pc' = "merge" /\ it' = 0 /\ want' = RoundSize(size)
             /\ UNCHANGED <<heap, held>>
    <3>1. TypeOK'
      BY <1>1, <2>1, <2>3 DEF TypeOK, Tiling, heap
    <3>2. Tiling' /\ HeldIntact'
      BY <1>1, <2>3 DEF Tiling, HeldIntact, End, heap
    <3>3. \A a \in blocks : ~ (a < 0)
      BY <1>1, EndFacts
    <3>4. Merged'
      BY <2>3, <3>3 DEF Merged, heap
    <3> QED
      BY <2>1, <2>3, <3>1, <3>2, <3>4 DEF IInv
  <2> QED
    BY <1>2, <2>2, <2>3 DEF Malloc
<1>3. CASE Absorb
  BY <1>3, AbsorbInv DEF Absorb
<1>4. CASE Advance
  <2>1. pc = "merge" /\ want' = want
    BY <1>4 DEF Advance, MovesOn
  <2> QED
    BY <1>4, <2>1, AdvanceInv
<1>5. CASE Retry
  <2>1. pc' = "idle" /\ want' = 0 /\ it' = 0 /\ pc = "retry"
    BY <1>5 DEF Retry
  <2>2. it' \in blocks /\ want' \in Nat /\ want \in Nat /\ want > 0
    BY <1>1, <2>1 DEF Tiling, TypeOK
  <2>3. CASE Allocate(want)
    <3>1. TypeOK' /\ Tiling' /\ HeldIntact'
      BY <1>1, <2>1, <2>2, <2>3, AllocateInv
    <3> QED
      BY <2>1, <3>1 DEF IInv, Merged
  <2>4. CASE UNCHANGED <<heap, held>>
    <3>1. TypeOK' /\ Tiling' /\ HeldIntact'
      BY <1>1, <2>1, <2>2, <2>4 DEF TypeOK, Tiling, HeldIntact, End, heap
    <3> QED
      BY <2>1, <3>1 DEF IInv, Merged
  <2> QED
    BY <1>5, <2>3, <2>4 DEF Retry
<1>6. ASSUME NEW h \in held, Free(h)
      PROVE  IInv' /\ (pc # "idle" => want > 0)'
  <2>1. UNCHANGED <<pc, want>>
    BY <1>6 DEF Free
  <2> QED
    BY <1>6, <2>1, FreeInv
<1>7. CASE UNCHANGED vars
  BY <1>1, <1>7 DEF vars, IInv, TypeOK, Tiling, HeldIntact, Merged, End
<1> QED
  BY <1>2, <1>3, <1>4, <1>5, <1>6, <1>7 DEF Next

LEMMA Invariance == Spec => [](IInv /\ (pc # "idle" => want > 0))
<1>1. Init => IInv /\ (pc # "idle" => want > 0)
  BY InitInv DEF Init
<1> QED
  BY <1>1, NextInv, PTL DEF Spec

\* The cursor of a merge pass never leaves the list, whatever it removes.
THEOREM TypeCorrect == Spec => []TypeOK
<1>1. IInv => TypeOK
  BY DEF IInv
<1> QED
  BY Invariance, <1>1, PTL

\* The consistency check's "linking list corrupted" is never reported.
THEOREM TilingCorrect == Spec => []Tiling
<1>1. IInv => Tiling
  BY DEF IInv
<1> QED
  BY Invariance, <1>1, PTL

\* No buffer is taken away, shrunk or handed out twice while it is held.
THEOREM HeldCorrect == Spec => []HeldIntact
<1>1. IInv => HeldIntact
  BY DEF IInv
<1> QED
  BY Invariance, <1>1, PTL

\* malloc fails only when no run of neighbouring free blocks is long enough:
\* after the pass such a run is a single block, and none of these fits.
THEOREM FailureCorrect == Spec => FailsOnlyWhenFull
<1> DEFINE Full == \A a, b \in blocks :
                     a <= b /\ (\A c \in blocks : a <= c /\ c <= b => ~ used[c])
                       => End(b) - (a + Header) < want
<1>1. ASSUME IInv, pc # "idle" => want > 0, [Next]_vars,
             pc = "retry", held' = held, ~ UNCHANGED vars
      PROVE  Full
  <2>1. TypeOK /\ Tiling /\ HeldIntact /\ Merged
    BY <1>1 DEF IInv
  <2>2. Retry
    BY <1>1 DEF Next, Malloc, Absorb, Advance, MovesOn, Free
  <2>3. pc' = "idle" /\ want' = 0 /\ it' = 0 /\ want \in Nat /\ want > 0
    BY <1>1, <2>1, <2>2 DEF Retry, TypeOK
  <2>4. NothingFits(want)
    <3>1. it' \in blocks /\ want' \in Nat
      BY <2>1, <2>3 DEF Tiling
    <3>2. ~ Allocate(want)
      BY <1>1, <2>1, <2>3, <3>1, AllocateInv
    <3> QED
      BY <2>2, <3>2 DEF Retry
  <2>5. ASSUME NEW a \in blocks, NEW b \in blocks, a <= b,
               \A c \in blocks : a <= c /\ c <= b => ~ used[c]
        PROVE  a = b
    <3> SUFFICES ASSUME a < b PROVE FALSE
      BY <2>1, <2>5, EndFacts
    <3>1. End(a) <= b /\ next[a] = End(a) /\ a < End(a)
      BY <2>1, EndFacts DEF Tiling
    <3>2. next[a] # Head
      BY <2>1, <3>1, EndFacts DEF TypeOK, Address, Head
    <3>3. next[a] \in blocks
      BY <2>1, <3>2 DEF Tiling
    <3>4. used[a] \/ used[next[a]]
      BY <1>1, <2>1, <3>2 DEF Merged
    <3>5. ~ used[a]
      BY <2>1, <2>5, EndFacts
    <3>6. ~ used[next[a]]
      BY <2>1, <2>5, <3>1, <3>3, EndFacts
    <3> QED
      BY <3>4, <3>5, <3>6
  <2>6. ASSUME NEW b \in blocks, ~ used[b]
        PROVE  End(b) - (b + Header) < want
    BY <2>1, <2>3, <2>4, <2>6, EndFacts DEF NothingFits, Fits
  <2> QED
    BY <2>1, <2>5, <2>6, EndFacts
<1>2. IInv /\ (pc # "idle" => want > 0) /\ [Next]_vars
        => [pc = "retry" /\ held' = held => Full]_vars
  BY <1>1
<1> QED
  BY Invariance, <1>2, PTL DEF Spec, FailsOnlyWhenFull
-----------------------------------------------------------------------------
(***************************************************************************)
(* The sums of __mm_list_consistency_check.  A walk of a value is what its *)
(* loop adds up from each block to the end of the list.  Every operation   *)
(* changes the walks by a constant up to the block it works on, so what    *)
(* they are at the first block is an invariant, without an induction over  *)
(* the list.  That Along returns what a walk begins with is then shown by  *)
(* a least counterexample.                                                 *)
(***************************************************************************)
IsWalk(B, nx, v, f) ==
  /\ f \in [B \cup {Head} -> Int]
  /\ f[Head] = 0
  /\ \A a \in B : f[a] = v[a] + f[nx[a]]

\* The walk f when it changes by d up to block a, and is e at a new block.
Rewalked(B, f, a, d, e) ==
  [x \in B \cup {Head} |->
     IF x <= a THEN f[x] + d ELSE IF x \in blocks \cup {Head} THEN f[x] ELSE e]

\* What such a change from the value v to the value w of a list of blocks B with
\* the links nx comes down to.
Change(v, f, a, d, e, B, nx, w) ==
  LET g == Rewalked(B, f, a, d, e) IN
  /\ a \in blocks /\ d \in Int /\ e \in Int
  /\ B \subseteq Address /\ 0 \in B
  /\ \A x \in blocks : v[x] \in Int
  /\ \A x \in B : x \notin blocks => x > a /\ w[x] + g[nx[x]] = e
  /\ \A x \in B : x \in blocks /\ x # a =>
       nx[x] = next[x] /\ nx[x] \in B \cup {Head} /\ w[x] = v[x]
  /\ w[a] + g[nx[a]] = f[a] + d

LEMMA Rewalk ==
  ASSUME TypeOK, Tiling, NEW v, NEW f, IsWalk(blocks, next, v, f),
         NEW a, NEW d, NEW e, NEW B, NEW nx, NEW w,
         Change(v, f, a, d, e, B, nx, w)
  PROVE  \E g : IsWalk(B, nx, w, g) /\ g[0] = f[0] + d
<1> DEFINE g == Rewalked(B, f, a, d, e)
<1>0. /\ a \in blocks /\ d \in Int /\ e \in Int
      /\ B \subseteq Address /\ 0 \in B
      /\ \A x \in blocks : v[x] \in Int
      /\ \A x \in B : x \notin blocks => x > a /\ w[x] + g[nx[x]] = e
      /\ \A x \in B : x \in blocks /\ x # a =>
           nx[x] = next[x] /\ nx[x] \in B \cup {Head} /\ w[x] = v[x]
      /\ w[a] + g[nx[a]] = f[a] + d
  BY DEF Change
<1>g. g = Rewalked(B, f, a, d, e)
  OBVIOUS
<1> HIDE DEF g
<1>1. /\ Total \in Nat /\ Head = Total
      /\ \A x \in B : x \in 0 .. Total - 1
      /\ a \in 0 .. Total - 1
  BY <1>0, HeapAssumption DEF Head, Address, TypeOK
<1>2. /\ \A x \in blocks \cup {Head} : f[x] \in Int
      /\ f[Head] = 0
      /\ \A x \in blocks : f[x] = v[x] + f[next[x]]
  BY DEF IsWalk
<1>3. \A x \in B \cup {Head} :
        g[x] = IF x <= a THEN f[x] + d
               ELSE IF x \in blocks \cup {Head} THEN f[x] ELSE e
  BY <1>g DEF Rewalked
<1>4. \A x \in B : x <= a => x \in blocks
  BY <1>0, <1>1
<1>5. g \in [B \cup {Head} -> Int]
  <2>1. \A x \in B \cup {Head} : g[x] \in Int
    BY <1>0, <1>1, <1>2, <1>3, <1>4
  <2> QED
    BY <1>g, <2>1 DEF Rewalked
<1>6. g[Head] = 0
  BY <1>1, <1>2, <1>3
<1>7. ASSUME NEW x \in B PROVE g[x] = w[x] + g[nx[x]]
  <2>1. CASE x \notin blocks
    BY <1>0, <1>1, <1>3, <2>1
  <2>2. CASE x = a
    BY <1>0, <1>1, <1>3, <2>2
  <2>3. CASE x \in blocks /\ x # a
    <3>1. /\ nx[x] = next[x] /\ nx[x] \in B \cup {Head} /\ w[x] = v[x]
          /\ next[x] \in blocks \cup {Head}
      BY <1>0, <2>3 DEF Tiling
    <3>2. /\ f[x] = w[x] + f[nx[x]]
          /\ f[x] \in Int /\ f[nx[x]] \in Int /\ w[x] \in Int
      BY <1>0, <1>2, <2>3, <3>1
    <3>3. CASE x < a
      <4>1. nx[x] <= a /\ x <= a
        BY <1>0, <2>3, <3>1, <3>3, EndFacts DEF Tiling
      <4>2. x \in B \cup {Head} /\ nx[x] \in B \cup {Head}
        BY <3>1
      <4>3. g[x] = f[x] + d /\ g[nx[x]] = f[nx[x]] + d
        BY <1>3, <4>1, <4>2
      <4> QED
        BY <1>0, <3>2, <4>3
    <3>4. CASE a < x
      <4>1. ~ (nx[x] <= a) /\ ~ (x <= a)
        BY <1>0, <2>3, <3>1, <3>4, EndFacts DEF Tiling
      <4> QED
        BY <1>0, <1>3, <2>3, <3>1, <3>2, <4>1
    <3> QED
      BY <1>0, <2>3, <3>3, <3>4, EndFacts
  <2> QED
    BY <2>1, <2>2, <2>3
<1>8. g[0] = f[0] + d
  <2>1. 0 <= a
    BY <1>0, EndFacts
  <2> QED
    BY <1>0, <1>3, <2>1
<1> QED
  BY <1>5, <1>6, <1>7, <1>8 DEF IsWalk

\* A set of numbers that has an element has a least one.
LEMMA LeastNatural ==
  ASSUME NEW T, T \subseteq Nat, T # {}
  PROVE  \E n \in T : \A m \in T : n <= m
<1> DEFINE R == OpToRel(<, Nat)
<1>1. PICK n \in T : \A m \in T : ~ (<<m, n>> \in R)
  <2>1. IsWellFoundedOn(R, Nat)
    BY NatLessThanWellFounded
  <2> HIDE DEF R
  <2> QED
    BY <2>1, WFMin
<1>2. \A m \in T : ~ (m < n)
  BY <1>1 DEF OpToRel
<1> QED
  BY <1>2


\* Two walks of a value are the same, as they agree from the end of the list on.
LEMMA WalkUnique ==
  ASSUME TypeOK, Tiling, NEW v, NEW f, IsWalk(blocks, next, v, f),
         NEW g, g[Head] = 0,
         \A a \in blocks : g[a] = v[a] + g[next[a]]
  PROVE  g[0] = f[0]
<1> DEFINE Wrong == {a \in blocks : g[a] # f[a]}
           T == {n \in Nat : \E a \in Wrong : n = Total - a}
<1>1. Total \in Nat /\ Head = Total /\ 0 \in blocks
  BY HeapAssumption DEF Head, Tiling
<1> SUFFICES ASSUME Wrong # {} PROVE FALSE
  BY <1>1
<1>2. T # {} /\ T \subseteq Nat
  <2>1. PICK a \in Wrong : TRUE
    OBVIOUS
  <2>2. a \in 0 .. Total - 1
    BY DEF TypeOK, Address
  <2>3. Total - a \in T
    BY <1>1, <2>2
  <2> QED
    BY <2>3
<1>3. PICK n \in T : \A m \in T : n <= m
  <2> HIDE DEF T
  <2> QED
    BY <1>2, LeastNatural
<1>4. PICK a \in Wrong : n = Total - a
  OBVIOUS
<1>5. /\ a \in blocks /\ g[a] # f[a]
      /\ a \in Nat /\ next[a] \in Nat /\ a < next[a] /\ next[a] <= Total
      /\ next[a] \in blocks \cup {Head}
  BY <1>4, EndFacts DEF Tiling
<1>6. g[next[a]] = f[next[a]]
  <2>1. CASE next[a] = Head
    BY <2>1 DEF IsWalk
  <2>2. CASE next[a] \in blocks
    <3>1. Total - next[a] \in Nat /\ ~ (n <= Total - next[a])
      BY <1>1, <1>4, <1>5
    <3>2. next[a] \notin Wrong
      BY <1>3, <3>1
    <3> QED
      BY <2>2, <3>2
  <2> QED
    BY <1>5, <2>1, <2>2
<1> QED
  BY <1>5, <1>6 DEF IsWalk

\* The loop returns what a walk begins with.
LEMMA AlongIsWalk ==
  ASSUME TypeOK, Tiling, NEW v, NEW f, IsWalk(blocks, next, v, f)
  PROVE  Along(v) = f[0]
<1> DEFINE Step(h) == [a \in blocks \cup {Head} |->
                         IF a = Head THEN 0 ELSE v[a] + h[next[a]]]
           sum == CHOOSE h : h = Step(h)
<1>1. Along(v) = sum[0]
  BY DEF Along
<1>2. Head \notin blocks
  BY HeapAssumption DEF TypeOK, Address, Head
<1>3. f = Step(f)
  BY <1>2 DEF IsWalk
<1>4. sum = Step(sum)
  BY <1>3
<1>5. sum[Head] = 0 /\ \A a \in blocks : sum[a] = v[a] + sum[next[a]]
  <2> HIDE DEF sum
  <2> QED
    BY <1>2, <1>4
<1> HIDE DEF sum
<1> QED
  BY <1>1, <1>5, WalkUnique

\* The counters are right, and the lengths and headers add up.
Sums ==
  /\ block_count = Cardinality(blocks)
  /\ \E f : /\ IsWalk(blocks, next, length, f)
            /\ f[0] + (block_count * Header) = Total
  /\ \E f : IsWalk(blocks, next, FreeLength, f) /\ f[0] = available

LEMMA SumsFacts ==
  ASSUME IInv, Sums
  PROVE  NoLeak
<1> USE DEF IInv
<1>1. PICK f : /\ IsWalk(blocks, next, length, f)
               /\ f[0] + (block_count * Header) = Total
  BY DEF Sums
<1>2. PICK g : IsWalk(blocks, next, FreeLength, g) /\ g[0] = available
  BY DEF Sums
<1>3. Along(length) = f[0] /\ Along(FreeLength) = g[0]
  BY <1>1, <1>2, AlongIsWalk
<1> QED
  BY <1>1, <1>2, <1>3 DEF NoLeak, Sums

LEMMA FreeLengthFacts ==
  ASSUME TypeOK
  PROVE  /\ \A x \in blocks : FreeLength[x] = IF used[x] THEN 0 ELSE length[x]
         /\ \A x \in blocks : FreeLength[x] \in Int /\ length[x] \in Int
<1>1. \A x \in blocks : length[x] \in Int
  BY HeapAssumption DEF TypeOK
<1> QED
  BY <1>1 DEF FreeLength

LEMMA BlocksFinite == TypeOK => IsFiniteSet(blocks)
<1> SUFFICES ASSUME TypeOK PROVE IsFiniteSet(blocks)
  OBVIOUS
<1>1. IsFiniteSet(0 .. Total - 1)
  BY HeapAssumption, FS_Interval
<1> QED
  BY <1>1, FS_Subset DEF TypeOK, Address

\* The block list keeps its shape and only the use of block a changes.
LEMMA UseSums ==
  ASSUME TypeOK, Tiling, Sums, NEW a \in blocks,
         UNCHANGED <<blocks, next, length, block_count>>,
         NEW on \in BOOLEAN,
         used' = [used EXCEPT ![a] = on], used[a] # on,
         available' = available + (IF on THEN 0 - length[a] ELSE length[a])
  PROVE  Sums'
<1>1. PICK f : IsWalk(blocks, next, FreeLength, f) /\ f[0] = available
  BY DEF Sums
<1> DEFINE d == IF on THEN 0 - length[a] ELSE length[a]
           g == Rewalked(blocks, f, a, d, 0)
<1>2. \A x \in blocks : used'[x] = IF x = a THEN on ELSE used[x]
  BY DEF TypeOK
<1>3. /\ \A x \in blocks : FreeLength'[x] = IF used'[x] THEN 0 ELSE length[x]
      /\ \A x \in blocks : FreeLength[x] = IF used[x] THEN 0 ELSE length[x]
      /\ \A x \in blocks : FreeLength[x] \in Int /\ length[x] \in Int
  BY FreeLengthFacts DEF FreeLength
<1>4. \A x \in blocks : x # a => FreeLength'[x] = FreeLength[x]
  BY <1>2, <1>3
<1>5. FreeLength'[a] = FreeLength[a] + d /\ d \in Int
  <2>1. used[a] \in BOOLEAN /\ used'[a] = on
    BY <1>2 DEF TypeOK
  <2> QED
    BY <1>3, <2>1
<1>6. \A x \in blocks : next[x] \in blocks \cup {Head}
  BY DEF Tiling
<1>7. FreeLength'[a] + g[next[a]] = f[a] + d
  <2>1. ~ (next[a] <= a) /\ next[a] \in blocks \cup {Head}
    BY <1>6, EndFacts
  <2>2. g[next[a]] = f[next[a]]
    BY <2>1 DEF Rewalked
  <2>3. /\ f[next[a]] \in Int /\ FreeLength[a] \in Int
        /\ f[a] = FreeLength[a] + f[next[a]]
    BY <1>1, <1>3, <2>1 DEF IsWalk
  <2> QED
    BY <1>5, <2>2, <2>3
<1>8. Change(FreeLength, f, a, d, 0, blocks, next, FreeLength')
  <2>1. blocks \subseteq Address /\ 0 \in blocks
    BY DEF TypeOK, Tiling
  <2> QED
    BY <1>3, <1>4, <1>5, <1>6, <1>7, <2>1 DEF Change
<1>9. PICK h : IsWalk(blocks, next, FreeLength', h) /\ h[0] = f[0] + d
  <2> HIDE DEF d, g
  <2> QED
    BY <1>1, <1>8, Rewalk
<1>10. h[0] = available'
  BY <1>1, <1>9
<1>11. (\E k : IsWalk(blocks, next, FreeLength, k) /\ k[0] = available)'
  BY <1>9, <1>10 DEF IsWalk, Head
<1> QED
  BY <1>11 DEF Sums, IsWalk, Head

\* One side of a split: the walk of the lengths, or of the free lengths.
LEMMA SplitWalk ==
  ASSUME TypeOK, Tiling, NEW v, NEW f, IsWalk(blocks, next, v, f),
         \A x \in blocks : v[x] \in Int,
         NEW a \in blocks, NEW size \in Nat, NEW b \in Address,
         SplitOff(a, size, b),
         NEW w, w[b] \in Int, NEW d \in Int,
         w[a] + w[b] = v[a] + d, w[a] \in Int,
         \A x \in blocks : x # a => w[x] = v[x]
  PROVE  \E g : IsWalk(blocks', next', w, g) /\ g[0] = f[0] + d
<1>1. /\ blocks' = blocks \cup {b} /\ b \notin blocks /\ a < b
      /\ next'[a] = b /\ next'[b] = next[a]
      /\ b + Header + size = End(a)
      /\ \A x \in blocks : x # a => next'[x] = next[x]
  BY DEF SplitOff
<1> DEFINE e == w[b] + f[next[a]]
           g == Rewalked(blocks', f, a, d, e)
<1>2. /\ next[a] \in blocks \cup {Head} /\ a < next[a] /\ b \notin blocks \cup {Head}
      /\ a \in Nat /\ b \in Nat
      /\ f[next[a]] \in Int /\ f[a] = v[a] + f[next[a]] /\ v[a] \in Int
  <2>1. next[a] \in blocks \cup {Head} /\ a < next[a] /\ a \in Nat /\ b \in Nat
    BY EndFacts, HeapAssumption DEF Tiling, Address
  <2>2. b # Head
    BY HeapAssumption DEF Address, Head
  <2> QED
    BY <1>1, <2>1, <2>2 DEF IsWalk
<1>3. g[b] = e /\ g[next[a]] = f[next[a]] /\ e \in Int
  <2>1. ~ (b <= a) /\ ~ (next[a] <= a)
    BY <1>1, <1>2, EndFacts
  <2>2. b \in blocks' \cup {Head} /\ next[a] \in blocks' \cup {Head}
    BY <1>1, <1>2
  <2> QED
    BY <1>2, <2>1, <2>2 DEF Rewalked
<1>4. Change(v, f, a, d, e, blocks', next', w)
  <2>1. blocks' \subseteq Address /\ 0 \in blocks' /\ e \in Int
    BY <1>1, <1>3 DEF TypeOK, Tiling
  <2>2. w[b] + g[next'[b]] = e
    BY <1>1, <1>3
  <2>3. w[a] + g[next'[a]] = f[a] + d
    <3> HIDE DEF g
    <3> QED
      BY <1>1, <1>2, <1>3
  <2>4. \A x \in blocks' : x \in blocks /\ x # a =>
          next'[x] = next[x] /\ next'[x] \in blocks' \cup {Head} /\ w[x] = v[x]
    BY <1>1 DEF Tiling
  <2> HIDE DEF e
  <2> QED
    BY <1>1, <2>1, <2>2, <2>3, <2>4 DEF Change
<1> HIDE DEF e, g
<1> QED
  BY <1>4, Rewalk

LEMMA SplitSums ==
  ASSUME TypeOK, Tiling, TypeOK', Sums, NEW a \in blocks, NEW size \in Nat, size > 0,
         Fits(a, size), Split(a, size)
  PROVE  Sums'
<1>1. PICK b \in Address : SplitOff(a, size, b)
  BY SplitFacts
<1>2. /\ ~ used[a] /\ blocks' = blocks \cup {b} /\ b \notin blocks
      /\ used' = [used EXCEPT ![b] = TRUE]
      /\ available' = available - (size + Header)
      /\ block_count' = block_count + 1
      /\ length'[a] = length[a] - (size + Header) /\ length'[b] = size
      /\ \A x \in blocks : x # a => length'[x] = length[x]
  BY <1>1 DEF SplitOff
<1>3. Header \in Int /\ size \in Int /\ a # b /\ length[a] \in Int
  BY <1>2, EndFacts
<1>4. used'[b] /\ \A x \in blocks : used'[x] = used[x]
  BY <1>2 DEF TypeOK
<1>5. /\ \A x \in blocks : FreeLength[x] = IF used[x] THEN 0 ELSE length[x]
      /\ \A x \in blocks' : FreeLength'[x] = IF used'[x] THEN 0 ELSE length'[x]
      /\ \A x \in blocks : FreeLength[x] \in Int /\ length[x] \in Int
  BY FreeLengthFacts DEF FreeLength
<1>6. PICK f : /\ IsWalk(blocks, next, length, f)
               /\ f[0] + (block_count * Header) = Total
  BY DEF Sums
<1>7. \E k : IsWalk(blocks', next', length', k) /\ k[0] = f[0] + (0 - Header)
  <2>1. /\ length'[b] \in Int /\ length'[a] \in Int /\ 0 - Header \in Int
        /\ length'[a] + length'[b] = length[a] + (0 - Header)
    BY <1>2, <1>3
  <2>2. /\ \A x \in blocks : length[x] \in Int
        /\ \A x \in blocks : x # a => length'[x] = length[x]
    BY <1>2, <1>5
  <2> QED
    BY <1>1, <1>6, <2>1, <2>2, SplitWalk
<1>8. PICK h : IsWalk(blocks, next, FreeLength, h) /\ h[0] = available
  BY DEF Sums
<1>9. \E k : IsWalk(blocks', next', FreeLength', k)
             /\ k[0] = h[0] + (0 - (size + Header))
  <2>1. /\ FreeLength'[b] \in Int /\ FreeLength'[a] \in Int
        /\ 0 - (size + Header) \in Int
        /\ FreeLength'[a] + FreeLength'[b] = FreeLength[a] + (0 - (size + Header))
    BY <1>2, <1>3, <1>4, <1>5
  <2>2. \A x \in blocks : x # a => FreeLength'[x] = FreeLength[x]
    BY <1>2, <1>4, <1>5
  <2> QED
    BY <1>1, <1>5, <1>8, <2>1, <2>2, SplitWalk
<1>10. block_count' = Cardinality(blocks')
  BY <1>2, BlocksFinite, FS_AddElement DEF Sums
<1>11. (block_count + 1) * Header = (block_count * Header) + Header
  BY <1>3 DEF TypeOK
<1>12. f[0] \in Int /\ h[0] \in Int /\ block_count * Header \in Int
  BY <1>3, <1>6, <1>8 DEF IsWalk, Tiling, TypeOK
<1>13. \E k : /\ IsWalk(blocks', next', length', k)
              /\ k[0] + (block_count' * Header) = Total
  BY <1>2, <1>3, <1>6, <1>7, <1>11, <1>12
<1>14. \E k : IsWalk(blocks', next', FreeLength', k) /\ k[0] = available'
  BY <1>2, <1>3, <1>8, <1>9, <1>12
<1> QED
  BY <1>10, <1>13, <1>14 DEF Sums, IsWalk, Head

\* What the merge of block b into block a does to the list.
Merges(a, b) ==
  /\ next[a] = b /\ blocks' = blocks \ {b} /\ next'[a] = next[b]
  /\ \A x \in blocks' : x # a => next'[x] = next[x]

\* One side of a merge: what block b had is now block a's, with a header more.
LEMMA MergeWalk ==
  ASSUME TypeOK, Tiling, NEW v, NEW f, IsWalk(blocks, next, v, f),
         \A x \in blocks : v[x] \in Int,
         NEW a \in blocks, NEW b \in blocks, Merges(a, b), Tiling',
         NEW w, w[a] = v[a] + v[b] + Header,
         \A x \in blocks' : x # a => w[x] = v[x]
  PROVE  \E g : IsWalk(blocks', next', w, g) /\ g[0] = f[0] + Header
<1> DEFINE g == Rewalked(blocks', f, a, Header, 0)
<1> USE DEF Merges
<1>1. /\ next[b] \in blocks \cup {Head} /\ ~ (next[b] <= a) /\ a # b
      /\ next[b] # b /\ b > a /\ Header \in Int
  <2>1. a < b /\ b < next[b]
    BY EndFacts
  <2> QED
    BY <2>1, EndFacts DEF Tiling
<1>2. /\ v[a] \in Int /\ v[b] \in Int /\ f[next[b]] \in Int
      /\ f[a] = v[a] + f[b] /\ f[b] = v[b] + f[next[b]]
  BY <1>1 DEF IsWalk
<1>3. g[next[b]] = f[next[b]]
  BY <1>1 DEF Rewalked
<1>4. Change(v, f, a, Header, 0, blocks', next', w)
  <2>1. blocks' \subseteq Address /\ 0 \in blocks'
    BY DEF TypeOK, Tiling
  <2>2. w[a] + g[next'[a]] = f[a] + Header
    <3> HIDE DEF g
    <3> QED
      BY <1>1, <1>2, <1>3
  <2>3. \A x \in blocks' : x \in blocks /\ x # a =>
          next'[x] = next[x] /\ next'[x] \in blocks' \cup {Head} /\ w[x] = v[x]
    BY DEF Tiling, Head
  <2> QED
    BY <1>1, <2>1, <2>2, <2>3 DEF Change
<1> HIDE DEF g, Merges
<1> QED
  BY <1>4, Rewalk

LEMMA AbsorbSums == ASSUME IInv, IInv', Sums, Absorb PROVE Sums'
<1>1. TypeOK /\ Tiling /\ TypeOK' /\ Tiling'
  BY DEF IInv
<1>2. PICK a \in blocks : a = it
  BY <1>1 DEF TypeOK
<1>3. PICK b \in blocks : next[a] = b
  BY <1>1, <1>2 DEF Absorb, Mergeable, Tiling
<1>4. /\ ~ used[a] /\ ~ used[b]
      /\ blocks' = blocks \ {b}
      /\ next' = [next EXCEPT ![a] = next[b], ![b] = NULL]
      /\ length' = [length EXCEPT ![a] = length[a] + length[b] + Header, ![b] = 0]
      /\ used' = [used EXCEPT ![b] = FALSE]
      /\ block_count' = block_count - 1
      /\ available' = available + Header
  BY <1>2, <1>3 DEF Absorb, Mergeable, Joined, Gained
<1>5. a # b /\ Header \in Int /\ a \in Address /\ b \in Address
  BY <1>1, <1>3, EndFacts DEF TypeOK
<1>6. /\ next'[a] = next[b] /\ length'[a] = length[a] + length[b] + Header
      /\ \A x \in blocks' : x # a => next'[x] = next[x]
      /\ \A x \in blocks' : x # a => length'[x] = length[x]
      /\ \A x \in blocks' : x \in blocks /\ used'[x] = used[x]
  BY <1>1, <1>4, <1>5 DEF TypeOK
<1>7. /\ \A x \in blocks : FreeLength[x] = IF used[x] THEN 0 ELSE length[x]
      /\ \A x \in blocks' : FreeLength'[x] = IF used'[x] THEN 0 ELSE length'[x]
      /\ \A x \in blocks : FreeLength[x] \in Int
      /\ \A x \in blocks : length[x] \in Int
  BY <1>1, FreeLengthFacts DEF FreeLength
<1>8. a \in blocks' /\ Merges(a, b)
  BY <1>3, <1>4, <1>5, <1>6 DEF Merges
<1>9. /\ FreeLength'[a] = FreeLength[a] + FreeLength[b] + Header
      /\ \A x \in blocks' : x # a => FreeLength'[x] = FreeLength[x]
  BY <1>4, <1>6, <1>7, <1>8
<1>10. PICK f : /\ IsWalk(blocks, next, length, f)
                /\ f[0] + (block_count * Header) = Total
  BY DEF Sums
<1>11. \E k : IsWalk(blocks', next', length', k) /\ k[0] = f[0] + Header
  BY <1>1, <1>6, <1>7, <1>8, <1>10, MergeWalk
<1>12. PICK h : IsWalk(blocks, next, FreeLength, h) /\ h[0] = available
  BY DEF Sums
<1>13. \E k : IsWalk(blocks', next', FreeLength', k) /\ k[0] = h[0] + Header
  BY <1>1, <1>7, <1>8, <1>9, <1>12, MergeWalk
<1>14. block_count' = Cardinality(blocks')
  BY <1>1, <1>4, BlocksFinite, FS_RemoveElement DEF Sums
<1>15. (block_count - 1) * Header = (block_count * Header) - Header
  BY <1>1, <1>5 DEF TypeOK
<1>16. f[0] \in Int /\ h[0] \in Int /\ block_count * Header \in Int
  BY <1>1, <1>5, <1>10, <1>12 DEF IsWalk, Tiling, TypeOK
<1>17. \E k : /\ IsWalk(blocks', next', length', k)
              /\ k[0] + (block_count' * Header) = Total
  BY <1>4, <1>5, <1>10, <1>11, <1>15, <1>16
<1>18. \E k : IsWalk(blocks', next', FreeLength', k) /\ k[0] = available'
  BY <1>4, <1>12, <1>13
<1> QED
  BY <1>14, <1>17, <1>18 DEF Sums, IsWalk, Head

\* malloc_init leaves one block, of all but a header.
LEMMA InitSums == Init => Sums
<1> SUFFICES ASSUME Init PROVE Sums
  OBVIOUS
<1>1. /\ Total \in Nat /\ Header \in Nat /\ Total # 0 /\ Head = Total
      /\ blocks = {0} /\ block_count = 1 /\ available = Total - Header
      /\ next[0] = Head /\ length[0] = Total - Header /\ ~ used[0]
  BY HeapAssumption DEF Init, Address, Head
<1>2. block_count = Cardinality(blocks)
  BY <1>1, FS_Singleton
<1> DEFINE f == [x \in {0} \cup {Head} |-> IF x = 0 THEN Total - Header ELSE 0]
<1>3. f[0] = Total - Header /\ f[Head] = 0 /\ f \in [{0} \cup {Head} -> Int]
  BY <1>1
<1>4. FreeLength[0] = Total - Header
  BY <1>1 DEF FreeLength
<1> HIDE DEF f
<1>5. IsWalk(blocks, next, length, f) /\ f[0] + (block_count * Header) = Total
  BY <1>1, <1>3 DEF IsWalk
<1>6. IsWalk(blocks, next, FreeLength, f) /\ f[0] = available
  BY <1>1, <1>3, <1>4 DEF IsWalk
<1> QED
  BY <1>2, <1>5, <1>6 DEF Sums

LEMMA AllocateSums ==
  ASSUME TypeOK, Tiling, TypeOK', Sums, NEW size \in Nat, size > 0, Allocate(size)
  PROVE  Sums'
<1>1. PICK a \in blocks : Fits(a, size) /\ (Take(a, size) \/ Split(a, size))
  BY DEF Allocate, FirstFit
<1>2. CASE Take(a, size)
  <2>1. /\ UNCHANGED <<blocks, next, length, block_count>>
        /\ used' = [used EXCEPT ![a] = TRUE] /\ used[a] # TRUE
        /\ available' = available - length[a]
    BY <1>1, <1>2 DEF Take, Fits
  <2>2. /\ TRUE \in BOOLEAN
        /\ available' = available + (IF TRUE THEN 0 - length[a] ELSE length[a])
    BY <2>1, EndFacts DEF TypeOK
  <2> QED
    BY <2>1, <2>2, UseSums
<1>3. CASE Split(a, size)
  BY <1>1, <1>3, SplitSums
<1> QED
  BY <1>1, <1>2, <1>3

LEMMA NextSums ==
  ASSUME IInv, IInv', pc # "idle" => want > 0, Sums, [Next]_vars
  PROVE  Sums'
<1>1. TypeOK /\ Tiling /\ HeldIntact /\ TypeOK' /\ want \in Nat
  BY DEF IInv, TypeOK
<1>2. CASE UNCHANGED heap
  <2>1. (FreeLength' = FreeLength) /\ Head' = Head
    BY <1>2 DEF heap, FreeLength, Head
  <2> QED
    BY <1>2, <2>1 DEF heap, Sums, IsWalk
<1>3. ASSUME NEW size \in Sizes, Malloc(size), Allocate(RoundSize(size)) PROVE Sums'
  BY <1>1, <1>3, RoundFacts, AllocateSums, HeapAssumption
<1>4. CASE Retry /\ Allocate(want)
  BY <1>1, <1>4, AllocateSums DEF Retry
<1>5. ASSUME NEW h \in held, Free(h) PROVE Sums'
  <2>1. PICK a \in blocks : a = h.at
    BY <1>1 DEF HeldIntact
  <2>2. /\ UNCHANGED <<blocks, next, length, block_count>>
        /\ used' = [used EXCEPT ![a] = FALSE] /\ used[a] # FALSE
        /\ available' = available + (IF FALSE THEN 0 - length[a] ELSE length[a])
    BY <1>5, <2>1 DEF Free
  <2> QED
    BY <1>1, <2>2, UseSums
<1>6. CASE UNCHANGED vars
  BY <1>2, <1>6 DEF vars, heap
<1> QED
  BY <1>2, <1>3, <1>4, <1>5, <1>6, AbsorbSums DEF Next, Malloc, Advance, Retry

\* The consistency check's "Memory leakage detected" is never reported, and
\* available counts the bytes of the free blocks, for a heap of any size.
THEOREM NoLeakCorrect == Spec => []NoLeak
<1> DEFINE J == IInv /\ (pc # "idle" => want > 0) /\ Sums
<1>1. Init => J
  BY InitInv, InitSums DEF Init
<1>2. J /\ [Next]_vars => J'
  BY NextInv, NextSums
<1>3. J => NoLeak
  BY SumsFacts
<1> QED
  BY <1>1, <1>2, <1>3, PTL DEF Spec
-----------------------------------------------------------------------------
\* Multiples of Grain.
LEMMA GrainTimes ==
  ASSUME NEW g \in Nat, g > 0, NEW k \in Int
  PROVE  (g * k) % g = 0
OBVIOUS

LEMMA GrainDivides ==
  ASSUME NEW g \in Nat, g > 0, NEW x \in Int
  PROVE  \E k \in Int : x = (g * k) + (x % g)
<1>1. x = (g * (x \div g)) + (x % g) /\ x \div g \in Int
  OBVIOUS
<1> QED
  BY <1>1

LEMMA GrainSums ==
  ASSUME NEW g \in Nat, g > 0, NEW x \in Int, NEW y \in Int,
         x % g = 0, y % g = 0
  PROVE  ((x + y) % g) = 0 /\ ((x - y) % g) = 0
<1>1. PICK k \in Int : x = g * k
  BY GrainDivides
<1>2. PICK m \in Int : y = g * m
  BY GrainDivides
<1>3. /\ x + y = g * (k + m) /\ x - y = g * (k - m)
      /\ k + m \in Int /\ k - m \in Int
  BY <1>1, <1>2
<1>4. (g * (k + m)) % g = 0 /\ (g * (k - m)) % g = 0
  BY <1>3, GrainTimes
<1> QED
  BY <1>3, <1>4

LEMMA GrainJoins ==
  ASSUME NEW g \in Nat, g > 0, NEW x \in Int, NEW y \in Int, NEW z \in Int,
         x % g = 0, y % g = 0, z % g = 0
  PROVE  (x + y + z) % g = 0
<1>1. (x + y) % g = 0
  BY GrainSums
<1>2. x + y \in Int
  OBVIOUS
<1> QED
  BY <1>1, <1>2, GrainSums

\* roundsize returns a multiple of Grain.
LEMMA RoundAligned ==
  ASSUME NEW size \in Sizes
  PROVE  RoundSize(size) % Grain = 0
<1>1. size \in Int /\ Grain \in Nat /\ Grain > 0 /\ Grain \in Int
  BY HeapAssumption
<1>2. PICK k \in Int : size = (Grain * k) + (size % Grain)
  BY <1>1, GrainDivides
<1>3. size % Grain \in Int
  BY <1>1
<1>4. (size - (size % Grain)) + Grain = Grain * (k + 1) /\ k + 1 \in Int
  <2>1. size - (size % Grain) = Grain * k
    BY <1>1, <1>2, <1>3
  <2>2. (Grain * k) + Grain = Grain * (k + 1)
    BY <1>1
  <2> QED
    BY <2>1, <2>2
<1>5. (Grain * (k + 1)) % Grain = 0
  BY <1>1, <1>4, GrainTimes
<1> QED
  BY <1>4, <1>5 DEF RoundSize

\* Headers and lengths are multiples of Grain, and so is what malloc looks for.
Aligned ==
  /\ \A a \in blocks : a % Grain = 0 /\ length[a] % Grain = 0
  /\ want % Grain = 0

LEMMA AllocateAligned ==
  ASSUME TypeOK, Tiling, Aligned, NEW size \in Nat, size > 0, size % Grain = 0,
         Allocate(size), want' % Grain = 0
  PROVE  Aligned'
<1>1. PICK a \in blocks : Fits(a, size) /\ (Take(a, size) \/ Split(a, size))
  BY DEF Allocate, FirstFit
<1>2. CASE Take(a, size)
  BY <1>2 DEF Take, Aligned
<1>3. CASE Split(a, size)
  <2>1. PICK b \in Address : SplitOff(a, size, b)
    BY <1>1, <1>3, SplitFacts
  <2>2. /\ blocks' = blocks \cup {b}
        /\ b = a + length[a] - size
        /\ length'[a] = length[a] - (size + Header) /\ length'[b] = size
        /\ \A x \in blocks : x # a => length'[x] = length[x]
    BY <2>1 DEF SplitOff
  <2>3. /\ a % Grain = 0 /\ length[a] % Grain = 0 /\ Header % Grain = 0
        /\ a \in Int /\ length[a] \in Int /\ Header \in Int /\ size \in Int
        /\ Grain \in Nat /\ Grain > 0
    BY EndFacts, HeapAssumption DEF Aligned
  <2>4. (a + length[a]) % Grain = 0 /\ (size + Header) % Grain = 0
    BY <2>3, GrainSums
  <2>5. (a + length[a]) - size = b /\ a + length[a] \in Int /\ size + Header \in Int
    BY <2>2, <2>3
  <2>6. ((a + length[a]) - size) % Grain = 0 /\ (length[a] - (size + Header)) % Grain = 0
    BY <2>3, <2>4, <2>5, GrainSums
  <2>7. b % Grain = 0 /\ length'[a] % Grain = 0 /\ length'[b] % Grain = 0
    BY <2>2, <2>5, <2>6
  <2> QED
    BY <2>2, <2>7 DEF Aligned
<1> QED
  BY <1>1, <1>2, <1>3

LEMMA NextAligned ==
  ASSUME IInv, pc # "idle" => want > 0, Aligned, [Next]_vars
  PROVE  Aligned'
<1>1. TypeOK /\ Tiling /\ HeldIntact /\ want \in Nat /\ Grain \in Nat /\ Grain > 0
  BY HeapAssumption DEF IInv, TypeOK
<1>2. 0 % Grain = 0
  BY <1>1
<1>3. CASE UNCHANGED <<blocks, length>> /\ want' % Grain = 0
  BY <1>3 DEF Aligned
<1>4. ASSUME NEW size \in Sizes, Malloc(size) PROVE Aligned'
  <2>1. /\ RoundSize(size) \in Nat /\ RoundSize(size) > 0
        /\ RoundSize(size) % Grain = 0 /\ want % Grain = 0
    BY RoundFacts, RoundAligned, HeapAssumption DEF Aligned
  <2>2. CASE Allocate(RoundSize(size)) /\ UNCHANGED <<pc, it, want>>
    BY <1>1, <2>1, <2>2, AllocateAligned
  <2>3. CASE want' = RoundSize(size) /\ UNCHANGED <<heap, held>>
    BY <1>3, <2>1, <2>3 DEF heap
  <2> QED
    BY <1>4, <2>2, <2>3 DEF Malloc
<1>5. CASE Absorb
  <2>1. PICK a \in blocks : a = it
    BY <1>1 DEF TypeOK
  <2>2. PICK b \in blocks : b = next[a]
    BY <1>1, <1>5, <2>1 DEF Absorb, Mergeable, Tiling
  <2>3. /\ blocks' = blocks \ {b} /\ want' = want /\ a # b
        /\ length' = [length EXCEPT ![a] = length[a] + length[b] + Header, ![b] = 0]
    BY <1>1, <1>5, <2>1, <2>2, EndFacts DEF Absorb, Joined
  <2>4. /\ length'[a] = length[a] + length[b] + Header
        /\ \A x \in blocks : x # a /\ x # b => length'[x] = length[x]
    BY <1>1, <2>3 DEF TypeOK
  <2>5. /\ length[a] % Grain = 0 /\ length[b] % Grain = 0 /\ Header % Grain = 0
        /\ length[a] \in Int /\ length[b] \in Int /\ Header \in Int
    <3>1. Header \in Int /\ Header % Grain = 0
      BY HeapAssumption
    <3>2. length[a] % Grain = 0 /\ length[b] % Grain = 0
      BY DEF Aligned
    <3>3. length[a] \in Int /\ length[b] \in Int
      BY <1>1, EndFacts
    <3> QED
      BY <3>1, <3>2, <3>3
  <2>6. Grain \in Nat /\ Grain > 0
    BY <1>1
  <2>7. (length[a] + length[b] + Header) % Grain = 0
    BY ONLY <2>5, <2>6, GrainJoins
  <2> QED
    BY <2>3, <2>4, <2>7 DEF Aligned
<1>6. CASE Advance
  BY <1>3, <1>6 DEF Advance, heap, Aligned
<1>7. CASE Retry
  <2>1. CASE Allocate(want)
    BY <1>1, <1>2, <1>7, <2>1, AllocateAligned DEF Retry, Aligned
  <2>2. CASE UNCHANGED heap
    BY <1>2, <1>3, <1>7, <2>2 DEF Retry, heap
  <2> QED
    BY <1>7, <2>1, <2>2 DEF Retry
<1>8. ASSUME NEW h \in held, Free(h) PROVE Aligned'
  BY <1>3, <1>8 DEF Free, Aligned
<1>9. CASE UNCHANGED vars
  BY <1>3, <1>9 DEF vars, Aligned
<1> QED
  BY <1>4, <1>5, <1>6, <1>7, <1>8, <1>9 DEF Next

LEMMA InitAligned == Init => Aligned
<1> SUFFICES ASSUME Init PROVE Aligned
  OBVIOUS
<1>1. /\ Total \in Int /\ Header \in Int /\ Grain \in Nat /\ Grain > 0 /\ Total # 0
      /\ Total % Grain = 0 /\ Header % Grain = 0
  BY HeapAssumption
<1>2. (Total - Header) % Grain = 0
  BY <1>1, GrainSums
<1>3. 0 % Grain = 0
  BY <1>1
<1>4. blocks = {0} /\ length[0] = Total - Header /\ want = 0
  BY <1>1, HeapAssumption DEF Init, Address
<1> QED
  BY <1>2, <1>3, <1>4 DEF Aligned
-----------------------------------------------------------------------------
\* What callers hold, as buffers of the abstract allocator.
Buffers(H) == {[base |-> h.at + Header, size |-> h.size] : h \in H}

\* A buffer at block c, not one that is held, is one that an allocator may give.
LEMMA GiveStep ==
  ASSUME TypeOK', Tiling', HeldIntact', Aligned',
         NEW c \in Address, NEW size \in Nat, size > 0, held \subseteq held',
         \A h \in held : h.at # c,
         held' = held \cup {[at |-> c, size |-> size]}
  PROVE  Abstract!Next
<1> DEFINE new == [at |-> c, size |-> size]
           x == [base |-> c + Header, size |-> size]
<1>1. new.at = c /\ new.size = size /\ new \in held'
  OBVIOUS
<1>2. c \in blocks' /\ length'[c] >= size /\ size \in 1 .. Total
  BY <1>1 DEF HeldIntact, TypeOK, Buffer
<1>3. \A a \in blocks' : /\ a \in Nat /\ length'[a] \in Nat
                         /\ a + Header + length'[a] <= Total
  <2> SUFFICES ASSUME NEW a \in blocks' PROVE /\ a \in Nat /\ length'[a] \in Nat
                                              /\ a + Header + length'[a] <= Total
    OBVIOUS
  <2>1. /\ Total \in Nat /\ Header \in Nat
        /\ a \in 0 .. Total - 1 /\ length'[a] \in 0 .. Total
        /\ blocks' \subseteq 0 .. Total - 1
    BY HeapAssumption DEF TypeOK, Address
  <2>2. next'[a] = a + Header + length'[a] /\ next'[a] \in blocks' \cup {Total}
    BY DEF Tiling, End, Head
  <2> QED
    BY <2>1, <2>2
<1>4. Header \in Nat /\ Grain \in Nat /\ Grain > 0 /\ Total \in Nat
  BY HeapAssumption
<1>5. (c + Header) % Grain = 0
  <2>1. c % Grain = 0
    BY <1>2 DEF Aligned
  <2>2. Header % Grain = 0 /\ c \in Int /\ Header \in Int
    BY <1>2, <1>3, HeapAssumption
  <2> QED
    BY <1>4, <2>1, <2>2, GrainSums
<1>6. /\ c + Header \in 0 .. Total /\ c + Header + size <= Total
  BY <1>2, <1>3, <1>4
<1>7. ASSUME NEW h \in held
      PROVE  \/ (h.at + Header) + h.size <= c + Header
             \/ (c + Header) + size <= h.at + Header
  <2>1. /\ h.at \in blocks' /\ h.at # c /\ h \in held'
        /\ length'[h.at] >= h.size /\ h.size \in Nat
    BY DEF HeldIntact, TypeOK, Buffer
  <2>2. /\ h.at < c => h.at + Header + length'[h.at] <= c
        /\ c < h.at => c + Header + length'[c] <= h.at
    BY <1>2, <2>1 DEF Tiling, End
  <2>3. h.at \in Nat /\ length'[h.at] \in Nat /\ c \in Nat /\ length'[c] \in Nat
    BY <1>2, <1>3, <2>1
  <2> QED
    BY <1>2, <1>4, <2>1, <2>2, <2>3
<1>8. Buffers(held') = Buffers(held) \cup {x}
  BY <1>1 DEF Buffers
<1>9. \A y \in Buffers(held) : Abstract!Disjoint(y, x)
  BY <1>7 DEF Buffers, Abstract!Disjoint
<1>10. Abstract!Allocate(c + Header, size)
  BY <1>5, <1>6, <1>8, <1>9 DEF Abstract!Allocate, Buffers
<1> QED
  BY <1>2, <1>6, <1>10 DEF Abstract!Next

LEMMA AllocateStep ==
  ASSUME TypeOK, Tiling, HeldIntact, TypeOK', Tiling', HeldIntact', Aligned',
         NEW size \in Nat, size > 0, Allocate(size)
  PROVE  Abstract!Next
<1>1. PICK a \in blocks : Fits(a, size) /\ (Take(a, size) \/ Split(a, size))
  BY DEF Allocate, FirstFit
<1>2. PICK c \in Address : /\ \A h \in held : h.at # c
                           /\ held' = held \cup {[at |-> c, size |-> size]}
  <2>1. CASE Take(a, size)
    <3>1. a \in Address /\ \A h \in held : h.at # a
      BY <1>1 DEF TypeOK, Fits, HeldIntact
    <3> QED
      BY <2>1, <3>1 DEF Take
  <2>2. CASE Split(a, size)
    <3>1. PICK b \in Address : SplitOff(a, size, b)
      BY <1>1, <2>2, SplitFacts
    <3>2. b \notin blocks /\ held' = held \cup {[at |-> b, size |-> size]}
      BY <3>1 DEF SplitOff
    <3> QED
      BY <3>2 DEF HeldIntact
  <2> QED
    BY <1>1, <2>1, <2>2
<1>3. held \subseteq held'
  BY <1>2
<1> QED
  BY <1>2, <1>3, GiveStep

\* malloc and free do what klibc.h promises: what malloc gives is as long as it
\* was asked for, aligned, inside the heap, and overlaps nothing that is held.
THEOREM AllocatorCorrect == Spec => ImplementsAllocator
<1> DEFINE J == IInv /\ (pc # "idle" => want > 0) /\ Aligned
<1>1. Init => J
  BY InitInv, InitAligned DEF Init
<1>2. J /\ [Next]_vars => J'
  BY NextInv, NextAligned
<1>3. Init => Abstract!Init
  BY DEF Init, Abstract!Init
<1>4. ASSUME J, J', [Next]_vars
      PROVE  Abstract!Next \/ Buffers(held') = Buffers(held)
  <2>1. /\ TypeOK /\ Tiling /\ HeldIntact /\ TypeOK' /\ Tiling' /\ HeldIntact' /\ Aligned'
        /\ want \in Nat
    BY <1>4 DEF IInv, TypeOK
  <2>2. CASE held' = held
    BY <2>2
  <2>3. ASSUME NEW size \in Sizes, Malloc(size), Allocate(RoundSize(size))
        PROVE  Abstract!Next
    <3>1. RoundSize(size) \in Nat /\ RoundSize(size) > 0
      BY RoundFacts, HeapAssumption
    <3> QED
      BY <2>1, <2>3, <3>1, AllocateStep
  <2>4. CASE Retry /\ Allocate(want)
    <3>1. want > 0
      BY <1>4, <2>4 DEF Retry
    <3> QED
      BY <2>1, <2>4, <3>1, AllocateStep
  <2>5. ASSUME NEW h \in held, Free(h) PROVE Abstract!Next
    <3> DEFINE x == [base |-> h.at + Header, size |-> h.size]
    <3>1. held' = held \ {h} /\ \A g \in held : g.at = h.at => g = h
      BY <2>1, <2>5 DEF Free, HeldIntact
    <3>2. \A g \in held : g # h => g.at + Header # h.at + Header
      <4>1. Header \in Nat /\ \A g \in held : g.at \in Nat
        <5>1. Header \in Nat /\ Total \in Nat
          BY HeapAssumption
        <5>2. \A g \in held : g.at \in 0 .. Total - 1
          BY <2>1 DEF TypeOK, Buffer, Address
        <5> QED
          BY <5>1, <5>2
      <4>2. \A g \in held : g # h => g.at # h.at
        BY <3>1
      <4> QED
        BY <4>1, <4>2
    <3>3. Buffers(held') = Buffers(held) \ {x}
      <4>1. ASSUME NEW g \in held, g # h
            PROVE  [base |-> g.at + Header, size |-> g.size] # x
        BY <3>2, <4>1
      <4> QED
        BY <3>1, <4>1 DEF Buffers
    <3>4. x \in Buffers(held)
      BY DEF Buffers
    <3> QED
      BY <3>3, <3>4 DEF Abstract!Next, Abstract!Release, Buffers
  <2>6. CASE UNCHANGED <<heap, held>> \/ UNCHANGED vars
    BY <2>2, <2>6 DEF vars
  <2> QED
    BY <1>4, <2>2, <2>3, <2>4, <2>5, <2>6 DEF Next, Malloc, Absorb, Advance, Retry
<1>5. J /\ J' /\ [Next]_vars =>
        [Abstract!Next]_{[base |-> h.at + Header, size |-> h.size] : h \in held}
  BY <1>4 DEF Buffers
<1> QED
  BY <1>1, <1>2, <1>3, <1>5, PTL DEF Spec, ImplementsAllocator, Abstract!Spec
=============================================================================
