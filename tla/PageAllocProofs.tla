--------------------------- MODULE PageAllocProofs ---------------------------
(***************************************************************************)
(* The physical page allocator, for every image, size of request and       *)
(* memory map whose last usable descriptor at the lower bound reaches over *)
(* it, whatever lies below: the pages of the map are kept, the list and    *)
(* its counter stay consistent, page_alloc fails only when it must, and    *)
(* what it hands out is what an allocator may hand out.  Of other maps     *)
(* only the types are proved.                                              *)
(*                                                                         *)
(* The loops over the list and the memory map are recursive functions.     *)
(* What they compute is proved from their equations by least               *)
(* counterexamples: of the numbers at which a statement fails, the least   *)
(* follows one at which it holds.                                          *)
(***************************************************************************)
EXTENDS PageAlloc, SequenceTheorems, WellFoundedInduction, TLAPS

\* A set of numbers that has an element has a least one.
LEMMA LeastNatural ==
  ASSUME NEW T, T \subseteq Nat, T # {}
  PROVE  \E n \in T : \A m \in T : n <= m
<1> DEFINE R == OpToRel(<, Nat)
<1>1. PICK n \in T : \A m \in T : ~ (<<m, n>> \in R)
  <2>1. IsWellFoundedOn(R, Nat)
    BY NatLessThanWellFounded
  <2> HIDE DEF R
  <2> QED
    BY <2>1, WFMin
<1>2. \A m \in T : ~ (m < n)
  BY <1>1 DEF OpToRel
<1> QED
  BY <1>2

\* A statement, given as the set of the numbers for which it holds, holds for
\* 0 .. N when it holds for 0 and never stops holding.
LEMMA Stepwise ==
  ASSUME NEW N \in Nat, NEW H,
         0 \in H,
         \A n \in 1 .. N : n - 1 \in H => n \in H
  PROVE  \A n \in 0 .. N : n \in H
<1> DEFINE T == {n \in 0 .. N : n \notin H}
<1> SUFFICES ASSUME T # {} PROVE FALSE
  OBVIOUS
<1>1. T \subseteq Nat
  OBVIOUS
<1>2. PICK n \in T : \A m \in T : n <= m
  BY <1>1, LeastNatural
<1>3. n \in 1 .. N
  BY <1>2
<1>4. n - 1 \notin T
  BY <1>2, <1>3
<1> QED
  BY <1>2, <1>3, <1>4

\* A recursion along 0 .. N, from x, whose n-th step is the function g[n].
Recursion(N, S, x, g, F) ==
  /\ F \in [0 .. N -> S]
  /\ F[0] = x
  /\ \A n \in 1 .. N : F[n] = g[n][F[n - 1]]

\* It has a solution when the steps stay in the set S.
Steps(N, S, g) == \A n \in 1 .. N : \A y \in S : g[n][y] \in S

LEMMA RecursionExists ==
  ASSUME NEW N \in Nat, NEW S, NEW x \in S, NEW g, Steps(N, S, g)
  PROVE  \E F : Recursion(N, S, x, g, F)
<1> DEFINE Solves(F, n) == /\ F \in [0 .. n -> S]
                           /\ F[0] = x
                           /\ \A m \in 1 .. n : F[m] = g[m][F[m - 1]]
           H == {n \in 0 .. N : \E F : Solves(F, n)}
<1>1. 0 \in H
  <2> DEFINE F == [m \in 0 .. 0 |-> x]
  <2>1. Solves(F, 0)
    OBVIOUS
  <2>2. \E G : Solves(G, 0)
    BY <2>1
  <2> HIDE DEF Solves
  <2> QED
    BY <2>2
<1>2. ASSUME NEW n \in 1 .. N, n - 1 \in H
      PROVE  n \in H
  <2>1. PICK F : Solves(F, n - 1)
    BY <1>2
  <2> DEFINE G == [m \in 0 .. n |-> IF m = n THEN g[n][F[n - 1]] ELSE F[m]]
  <2>2. F[n - 1] \in S /\ g[n][F[n - 1]] \in S
    BY <2>1 DEF Steps
  <2>3. G \in [0 .. n -> S]
    BY <2>1, <2>2
  <2>4. G[0] = x
    BY <2>1
  <2>5. ASSUME NEW m \in 1 .. n PROVE G[m] = g[m][G[m - 1]]
    <3>1. CASE m = n
      BY <3>1
    <3>2. CASE m # n
      <4>1. m \in 1 .. n - 1 /\ m - 1 \in 0 .. n /\ m - 1 # n /\ m \in 0 .. n
        BY <3>2
      <4> QED
        BY <2>1, <3>2, <4>1
    <3> QED
      BY <3>1, <3>2
  <2>6. Solves(G, n)
    <3> HIDE DEF G
    <3> QED
      BY <2>3, <2>4, <2>5
  <2> HIDE DEF Solves, G
  <2> QED
    BY <2>6
<1>3. \A n \in 0 .. N : n \in H
  <2> HIDE DEF H
  <2> QED
    BY <1>1, <1>2, Stepwise
<1> QED
  BY <1>3 DEF Recursion
-----------------------------------------------------------------------------
LEMMA BlockFacts ==
  ASSUME NEW s \in Seq(Block), NEW n \in 1 .. Len(s)
  PROVE  /\ s[n] \in Block
         /\ s[n].base \in Nat /\ s[n].length \in Nat
         /\ End(s[n]) \in Nat /\ End(s[n]) = s[n].base + s[n].length
<1>1. s[n] \in Block
  OBVIOUS
<1> QED
  BY <1>1 DEF Block, End

\* The loop of __page_consistency_check: its sums along the list.
PagesSum(s, f) ==
  /\ f \in [0 .. Len(s) -> Int]
  /\ f[0] = 0
  /\ \A n \in 1 .. Len(s) : f[n] = f[n - 1] + s[n].length

LEMMA SumExists ==
  ASSUME NEW s \in Seq(Block)
  PROVE  \E f : PagesSum(s, f)
<1>1. \A n \in 1 .. Len(s) : s[n].length \in Int
  BY BlockFacts
<1> DEFINE g == [n \in 1 .. Len(s) |-> [k \in Int |-> k + s[n].length]]
<1>2. Len(s) \in Nat /\ 0 \in Int /\ Steps(Len(s), Int, g)
  BY <1>1 DEF Steps
<1>3. PICK F : Recursion(Len(s), Int, 0, g, F)
  BY <1>2, RecursionExists, Zenon
<1>4. /\ F \in [0 .. Len(s) -> Int]
      /\ F[0] = 0
      /\ \A n \in 1 .. Len(s) : F[n] = g[n][F[n - 1]]
  BY <1>3 DEF Recursion
<1>5. ASSUME NEW n \in 1 .. Len(s) PROVE F[n] = F[n - 1] + s[n].length
  <2>1. n - 1 \in 0 .. Len(s)
    BY <1>2
  <2> QED
    BY <1>4, <2>1
<1> QED
  BY <1>4, <1>5 DEF PagesSum

LEMMA SumFacts ==
  ASSUME NEW s \in Seq(Block), NEW f, PagesSum(s, f), NEW n \in 1 .. Len(s)
  PROVE  /\ f[n] \in Int /\ f[n - 1] \in Int
         /\ f[n] = f[n - 1] + s[n].length
         /\ s[n].length \in Nat
<1>1. Len(s) \in Nat /\ n \in 0 .. Len(s) /\ n - 1 \in 0 .. Len(s)
  OBVIOUS
<1>2. s[n].length \in Nat
  BY BlockFacts
<1> QED
  BY <1>1, <1>2 DEF PagesSum

LEMMA SumUnique ==
  ASSUME NEW s \in Seq(Block), NEW f, NEW h, PagesSum(s, f), PagesSum(s, h)
  PROVE  f[Len(s)] = h[Len(s)]
<1> DEFINE H == {n \in 0 .. Len(s) : f[n] = h[n]}
<1>1. Len(s) \in Nat
  OBVIOUS
<1>2. 0 \in H
  BY <1>1 DEF PagesSum
<1>3. \A n \in 1 .. Len(s) : n - 1 \in H => n \in H
  BY <1>1 DEF PagesSum
<1>4. \A n \in 0 .. Len(s) : n \in H
  <2> HIDE DEF H
  <2> QED
    BY <1>1, <1>2, <1>3, Stepwise
<1> QED
  BY <1>1, <1>4

\* What pages_sum ends with is the last of any such sums.
LEMMA TotalIsSum ==
  ASSUME NEW s \in Seq(Block), NEW f, PagesSum(s, f)
  PROVE  TotalLength(s) = f[Len(s)]
<1>1. Len(s) \in Nat /\ \A n \in 1 .. Len(s) : s[n].length \in Int
  BY BlockFacts
<1> DEFINE Step(h) == [n \in 0 .. Len(s) |->
                         IF n = 0 THEN 0 ELSE h[n - 1] + s[n].length]
           total == CHOOSE h : h = Step(h)
<1>2. TotalLength(s) = total[Len(s)]
  BY DEF TotalLength
<1>3. f = Step(f)
  BY <1>1 DEF PagesSum
<1>4. total = Step(total)
  BY <1>3
<1>5. /\ DOMAIN total = 0 .. Len(s)
      /\ total[0] = 0
      /\ \A n \in 1 .. Len(s) : total[n] = total[n - 1] + s[n].length
  <2> HIDE DEF total
  <2> QED
    BY <1>1, <1>4
<1>6. PagesSum(s, total)
  <2> DEFINE H == {n \in 0 .. Len(s) : total[n] \in Int}
  <2> HIDE DEF total
  <2>1. 0 \in H
    BY <1>1, <1>5
  <2>2. \A n \in 1 .. Len(s) : n - 1 \in H => n \in H
    BY <1>1, <1>5
  <2>3. \A n \in 0 .. Len(s) : total[n] \in Int
    <3>1. \A n \in 0 .. Len(s) : n \in H
      <4> HIDE DEF H
      <4> QED
        BY <1>1, <2>1, <2>2, Stepwise
    <3> QED
      BY <3>1
  <2>4. total = [n \in 0 .. Len(s) |-> total[n]]
    <3>1. total = [n \in 0 .. Len(s) |-> IF n = 0 THEN 0 ELSE total[n - 1] + s[n].length]
      BY <1>4
    <3> QED
      BY <3>1
  <2> QED
    BY <1>5, <2>3, <2>4 DEF PagesSum
<1> QED
  <2> HIDE DEF total
  <2> QED
    BY <1>2, <1>6, SumUnique

LEMMA TotalTyped == ASSUME NEW s \in Seq(Block) PROVE TotalLength(s) \in Int
<1>1. PICK f : PagesSum(s, f)
  BY SumExists
<1> QED
  BY <1>1, TotalIsSum DEF PagesSum

\* What it leaves when an element changes.
Replaced(s, i, b) == [s EXCEPT ![i] = b]

LEMMA ReplacedFacts ==
  ASSUME NEW S, NEW s \in Seq(S), NEW i \in 1 .. Len(s), NEW b \in S
  PROVE  /\ Replaced(s, i, b) \in Seq(S) /\ Len(Replaced(s, i, b)) = Len(s)
         /\ Replaced(s, i, b)[i] = b
         /\ \A n \in 1 .. Len(s) : n # i => Replaced(s, i, b)[n] = s[n]
BY DEF Replaced

\* A block that changes its length.
Resized(b, n) == [b EXCEPT !.length = n]

LEMMA ResizedFacts ==
  ASSUME NEW b \in Block, NEW n \in Nat
  PROVE  /\ Resized(b, n) \in Block
         /\ Resized(b, n).base = b.base
         /\ Resized(b, n).length = n
         /\ End(Resized(b, n)) = b.base + n
BY DEF Resized, Block, End

\* A block that changes its length changes the sum by as much.
LEMMA TotalReplaced ==
  ASSUME NEW s \in Seq(Block), NEW i \in 1 .. Len(s), NEW b \in Block
  PROVE  TotalLength(Replaced(s, i, b)) = TotalLength(s) - s[i].length + b.length
<1> DEFINE t == Replaced(s, i, b)
<1>1. /\ t \in Seq(Block) /\ Len(t) = Len(s) /\ Len(s) \in Nat
      /\ \A n \in 1 .. Len(s) : t[n] = IF n = i THEN b ELSE s[n]
  <2>1. /\ t \in Seq(Block) /\ Len(t) = Len(s) /\ t[i] = b
        /\ \A n \in 1 .. Len(s) : n # i => t[n] = s[n]
    BY ReplacedFacts
  <2> QED
    BY <2>1
<1>2. b.length \in Nat /\ s[i].length \in Nat
  BY BlockFacts DEF Block
<1>3. PICK f : PagesSum(s, f)
  BY SumExists
<1> DEFINE Shift == b.length - s[i].length
           h == [n \in 0 .. Len(s) |-> IF n < i THEN f[n] ELSE f[n] + Shift]
<1>4. \A n \in 0 .. Len(s) : h[n] = IF n < i THEN f[n] ELSE f[n] + Shift
  OBVIOUS
<1>5. Shift \in Int /\ i \in Nat /\ i > 0 /\ i <= Len(s)
  BY <1>1, <1>2
<1>6. f \in [0 .. Len(s) -> Int] /\ f[0] = 0
  BY <1>3 DEF PagesSum
<1>7. h \in [0 .. Len(t) -> Int] /\ h[0] = 0
  BY <1>1, <1>5, <1>6
<1> HIDE DEF t, h
<1>8. ASSUME NEW n \in 1 .. Len(t) PROVE h[n] = h[n - 1] + t[n].length
  <2>1. n \in 1 .. Len(s) /\ n - 1 \in 0 .. Len(s) /\ n \in 0 .. Len(s)
    BY <1>1
  <2>2. /\ f[n] = f[n - 1] + s[n].length /\ f[n] \in Int /\ f[n - 1] \in Int
        /\ s[n].length \in Nat
    BY <1>3, <2>1, SumFacts
  <2>3. CASE n = i
    <3>1. h[n] = f[n] + Shift /\ h[n - 1] = f[n - 1] /\ t[n] = b
      BY <1>1, <1>4, <1>5, <2>1, <2>3
    <3> QED
      BY <1>2, <2>2, <2>3, <3>1
  <2>4. CASE n < i
    <3>1. h[n] = f[n] /\ h[n - 1] = f[n - 1] /\ t[n] = s[n]
      BY <1>1, <1>4, <1>5, <2>1, <2>4
    <3> QED
      BY <2>2, <3>1
  <2>5. CASE n > i
    <3>1. h[n] = f[n] + Shift /\ h[n - 1] = f[n - 1] + Shift /\ t[n] = s[n]
      BY <1>1, <1>4, <1>5, <2>1, <2>5
    <3> QED
      BY <1>5, <2>2, <3>1
  <2> QED
    BY <1>5, <2>1, <2>3, <2>4, <2>5
<1>9. PagesSum(t, h)
  BY <1>7, <1>8 DEF PagesSum
<1>10. TotalLength(t) = h[Len(s)]
  BY <1>1, <1>9, TotalIsSum
<1>11. TotalLength(s) = f[Len(s)]
  BY <1>3, TotalIsSum
<1>12. h[Len(s)] = f[Len(s)] + Shift /\ f[Len(s)] \in Int
  BY <1>1, <1>4, <1>5, <1>6
<1> QED
  BY <1>2, <1>10, <1>11, <1>12 DEF t

\* What list_del leaves: the elements before the i-th, and those after it.
LEMMA RemoveFacts ==
  ASSUME NEW S, NEW s \in Seq(S), NEW i \in 1 .. Len(s)
  PROVE  /\ RemoveAt(s, i) \in Seq(S)
         /\ Len(RemoveAt(s, i)) = Len(s) - 1
         /\ \A n \in 1 .. Len(s) - 1 :
              RemoveAt(s, i)[n] = IF n < i THEN s[n] ELSE s[n + 1]
<1> DEFINE u == SubSeq(s, 1, i - 1)
           w == SubSeq(s, i + 1, Len(s))
<1>1. Len(s) \in Nat /\ i \in Nat /\ i > 0 /\ i <= Len(s)
  OBVIOUS
<1>2. /\ u \in Seq(S) /\ Len(u) = i - 1
      /\ \A n \in 1 .. i - 1 : u[n] = s[n]
  BY <1>1
<1>3. w \in Seq(S) /\ Len(w) = Len(s) - i
  BY <1>1
<1>4. \A n \in 1 .. Len(s) - i : w[n] = s[i + n]
  BY <1>1
<1> HIDE DEF u, w
<1>5. /\ u \o w \in Seq(S) /\ Len(u \o w) = Len(s) - 1
      /\ \A n \in 1 .. Len(s) - 1 :
           (u \o w)[n] = IF n <= i - 1 THEN u[n] ELSE w[n - (i - 1)]
  <2>1. /\ u \o w \in Seq(S) /\ Len(u \o w) = Len(u) + Len(w)
        /\ \A n \in 1 .. Len(u) + Len(w) :
             (u \o w)[n] = IF n <= Len(u) THEN u[n] ELSE w[n - Len(u)]
    BY <1>2, <1>3, ConcatProperties
  <2>2. Len(u) + Len(w) = Len(s) - 1
    BY <1>1, <1>2, <1>3
  <2> QED
    BY <1>2, <2>1, <2>2
<1>6. ASSUME NEW n \in 1 .. Len(s) - 1
      PROVE  (u \o w)[n] = IF n < i THEN s[n] ELSE s[n + 1]
  <2>1. CASE n < i
    BY <1>1, <1>2, <1>5, <2>1
  <2>2. CASE ~ (n < i)
    <3>1. n - (i - 1) \in 1 .. Len(s) - i /\ i + (n - (i - 1)) = n + 1
      BY <1>1, <2>2
    <3> QED
      BY <1>1, <1>4, <1>5, <2>2, <3>1
  <2> QED
    BY <2>1, <2>2
<1> QED
  BY <1>5, <1>6 DEF RemoveAt, u, w

\* A block that leaves the list takes its length from the sum.
LEMMA TotalRemoved ==
  ASSUME NEW s \in Seq(Block), NEW i \in 1 .. Len(s)
  PROVE  TotalLength(RemoveAt(s, i)) = TotalLength(s) - s[i].length
<1> DEFINE t == RemoveAt(s, i)
           m == Len(s) - 1
<1>1. /\ t \in Seq(Block) /\ Len(t) = m
      /\ \A n \in 1 .. m : t[n] = IF n < i THEN s[n] ELSE s[n + 1]
  BY RemoveFacts
<1>2. m \in Nat /\ Len(s) = m + 1 /\ i \in 1 .. m + 1
  OBVIOUS
<1>3. s[i].length \in Nat
  BY BlockFacts
<1>4. PICK f : PagesSum(s, f)
  BY SumExists
<1>5. f \in [0 .. m + 1 -> Int] /\ f[0] = 0
  BY <1>2, <1>4 DEF PagesSum
<1> DEFINE h == [n \in 0 .. m |-> IF n < i THEN f[n] ELSE f[n + 1] - s[i].length]
<1>6. \A n \in 0 .. m : h[n] = IF n < i THEN f[n] ELSE f[n + 1] - s[i].length
  OBVIOUS
<1> HIDE DEF t, m
<1>7. h \in [0 .. m -> Int] /\ h[0] = 0
  <2>1. ASSUME NEW n \in 0 .. m PROVE h[n] \in Int
    <3>1. n \in 0 .. m + 1 /\ n + 1 \in 0 .. m + 1
      BY <1>2
    <3>2. f[n] \in Int /\ f[n + 1] \in Int
      BY <1>5, <3>1
    <3> QED
      BY <1>3, <1>6, <3>2
  <2>2. h[0] = f[0]
    BY <1>2, <1>6
  <2> QED
    BY <1>5, <2>1, <2>2
<1> HIDE DEF h
<1>8. ASSUME NEW n \in 1 .. m PROVE h[n] = h[n - 1] + t[n].length
  <2>1. /\ n \in Nat /\ n \in 1 .. Len(s) /\ n + 1 \in 1 .. Len(s)
        /\ n \in 0 .. m /\ n - 1 \in 0 .. m
        /\ (n + 1) - 1 = n /\ (n - 1) + 1 = n
    BY <1>2
  <2>2. /\ f[n] = f[n - 1] + s[n].length /\ f[n] \in Int /\ f[n - 1] \in Int
        /\ s[n].length \in Nat
    BY <1>4, <2>1, SumFacts
  <2>3. /\ f[n + 1] = f[n] + s[n + 1].length /\ f[n + 1] \in Int
        /\ s[n + 1].length \in Nat
    <3>1. f[n + 1] = f[(n + 1) - 1] + s[n + 1].length
      BY <1>4, <2>1, SumFacts
    <3>2. f[n + 1] \in Int /\ s[n + 1].length \in Nat
      BY <1>4, <2>1, SumFacts
    <3> QED
      BY <2>1, <3>1, <3>2
  <2>4. CASE n < i
    <3>1. h[n] = f[n] /\ h[n - 1] = f[n - 1] /\ t[n] = s[n]
      BY <1>1, <1>2, <1>6, <2>1, <2>4
    <3> QED
      BY <2>2, <3>1
  <2>5. CASE n = i
    <3>1. h[n] = f[n + 1] - s[i].length /\ h[n - 1] = f[n - 1] /\ t[n] = s[n + 1]
      BY <1>1, <1>2, <1>6, <2>1, <2>5
    <3> QED
      BY <2>2, <2>3, <2>5, <3>1
  <2>6. CASE n > i
    <3>1. h[n] = f[n + 1] - s[i].length /\ t[n] = s[n + 1]
      BY <1>1, <1>2, <1>6, <2>1, <2>6
    <3>2. h[n - 1] = f[n] - s[i].length
      BY <1>2, <1>6, <2>1, <2>6
    <3>3. t[n].length = s[n + 1].length
      BY <3>1
    <3>4. h[n] = (f[n] + t[n].length) - s[i].length
      BY <2>3, <3>1, <3>3
    <3>5. (f[n] + t[n].length) - s[i].length = (f[n] - s[i].length) + t[n].length
      <4>1. f[n] \in Int /\ t[n].length \in Int /\ s[i].length \in Int
        BY <1>3, <2>2, <2>3, <3>3
      <4>2. \A x, y, z \in Int : (x + y) - z = (x - z) + y
        OBVIOUS
      <4> QED
        BY ONLY <4>1, <4>2
    <3> QED
      BY <3>2, <3>4, <3>5
  <2> QED
    BY <1>2, <2>1, <2>4, <2>5, <2>6
<1>9. PagesSum(t, h)
  BY <1>1, <1>7, <1>8 DEF PagesSum
<1>10. TotalLength(t) = h[m]
  BY <1>1, <1>9, TotalIsSum
<1>11. TotalLength(s) = f[m + 1]
  BY <1>2, <1>4, TotalIsSum
<1>12. h[m] = f[m + 1] - s[i].length
  <2>1. CASE m < i
    <3>1. i = m + 1 /\ (m + 1) - 1 = m /\ m + 1 \in 1 .. Len(s)
      BY <1>2, <2>1
    <3>2. f[m + 1] = f[(m + 1) - 1] + s[m + 1].length /\ f[(m + 1) - 1] \in Int
      BY <1>4, <3>1, SumFacts
    <3>3. h[m] = f[m]
      BY <1>2, <1>6, <2>1
    <3> QED
      BY <1>3, <3>1, <3>2, <3>3
  <2>2. CASE ~ (m < i)
    BY <1>2, <1>6, <2>2
  <2> QED
    BY <2>1, <2>2
<1> QED
  BY <1>10, <1>11, <1>12 DEF t

LEMMA AppendFacts ==
  ASSUME NEW q \in Seq(Block), NEW b \in Block
  PROVE  /\ Append(q, b) \in Seq(Block)
         /\ Len(Append(q, b)) = Len(q) + 1
         /\ Append(q, b)[Len(q) + 1] = b
         /\ \A i \in 1 .. Len(q) : Append(q, b)[i] = q[i]
         /\ Len(q) \in Nat
         /\ 1 .. Len(q) + 1 = (1 .. Len(q)) \cup {Len(q) + 1}
OBVIOUS

LEMMA TotalEmpty == TotalLength(<<>>) = 0
<1>1. <<>> \in Seq(Block) /\ Len(<<>>) = 0
  OBVIOUS
<1>2. PICK f : PagesSum(<<>>, f)
  BY <1>1, SumExists
<1>3. f[0] = 0
  BY <1>2 DEF PagesSum
<1> QED
  BY <1>1, <1>2, <1>3, TotalIsSum

\* A block that is linked adds its length to the sum.
LEMMA TotalAppended ==
  ASSUME NEW q \in Seq(Block), NEW b \in Block
  PROVE  TotalLength(Append(q, b)) = TotalLength(q) + b.length
<1> DEFINE t == Append(q, b)
           l == Len(q)
<1>1. /\ t \in Seq(Block) /\ Len(t) = l + 1 /\ t[l + 1] = b /\ l \in Nat
      /\ \A i \in 1 .. l : t[i] = q[i]
  BY AppendFacts
<1>2. PICK f : PagesSum(q, f)
  BY SumExists
<1>3. /\ f \in [0 .. l -> Int] /\ f[0] = 0
      /\ \A n \in 1 .. l : f[n] = f[n - 1] + q[n].length
  BY <1>2 DEF PagesSum
<1>4. b.length \in Int
  BY DEF Block
<1> DEFINE h == [n \in 0 .. l + 1 |-> IF n = l + 1 THEN f[l] + b.length ELSE f[n]]
<1> HIDE DEF t, l
<1>5. f[l] \in Int
  BY <1>1, <1>3
<1>6. h \in [0 .. l + 1 -> Int] /\ h[0] = 0 /\ h[l + 1] = f[l] + b.length
  <2>1. ASSUME NEW n \in 0 .. l + 1 PROVE h[n] \in Int
    <3>1. CASE n = l + 1
      BY <1>4, <1>5, <3>1
    <3>2. CASE n # l + 1
      <4>1. n \in 0 .. l
        BY <1>1, <3>2
      <4> QED
        BY <1>3, <3>2, <4>1
    <3> QED
      BY <3>1, <3>2
  <2>2. h[0] = f[0] /\ h[l + 1] = f[l] + b.length
    BY <1>1
  <2> QED
    BY <1>3, <2>1, <2>2
<1>7. ASSUME NEW n \in 1 .. l + 1 PROVE h[n] = h[n - 1] + t[n].length
  <2>1. CASE n = l + 1
    <3>1. h[n - 1] = f[l] /\ h[n] = f[l] + b.length /\ t[n] = b
      BY <1>1, <2>1
    <3> QED
      BY <3>1
  <2>2. CASE n # l + 1
    <3>1. n \in 1 .. l /\ n - 1 \in 0 .. l /\ n - 1 # l + 1 /\ n \in 0 .. l + 1
          /\ n - 1 \in 0 .. l + 1
      BY <1>1, <2>2
    <3>2. h[n] = f[n] /\ h[n - 1] = f[n - 1] /\ t[n] = q[n]
      BY <1>1, <2>2, <3>1
    <3> QED
      BY <1>3, <3>1, <3>2
  <2> QED
    BY <2>1, <2>2
<1> HIDE DEF h
<1>8. PagesSum(t, h)
  BY <1>1, <1>6, <1>7 DEF PagesSum
<1>9. TotalLength(t) = h[l + 1] /\ TotalLength(q) = f[l]
  <2>1. TotalLength(t) = h[l + 1]
    BY <1>1, <1>8, TotalIsSum
  <2>2. TotalLength(q) = f[l]
    BY <1>2, TotalIsSum DEF l
  <2> QED
    BY <2>1, <2>2
<1> QED
  BY <1>6, <1>9 DEF t

\* Page numbers in memory do not wrap.
LEMMA Unwrapped ==
  ASSUME NEW x \in Nat, x <= MemoryEnd
  PROVE  x % Wrap = x
<1>1. Wrap \in Nat /\ x < Wrap
  BY PageAllocAssumption
<1>2. \A a, w \in Nat : a < w => a % w = a
  OBVIOUS
<1> QED
  BY <1>1, <1>2
-----------------------------------------------------------------------------
\* The blocks of a list in the order of their addresses, none of them empty.
Ordered(s) ==
  /\ \A i \in 1 .. Len(s) : s[i].length > 0
  /\ \A i, j \in 1 .. Len(s) : i < j => End(s[i]) <= s[j].base

\* A list of blocks, of which it is known how many pages it has.
LEMMA InPages ==
  ASSUME NEW s \in Seq(Block), NEW p
  PROVE  p \in PagesIn(s) <=>
           \E i \in 1 .. Len(s) : p \in Nat /\ s[i].base <= p /\ p < End(s[i])
<1>1. ASSUME NEW i \in 1 .. Len(s)
      PROVE  p \in PagesOf(s[i]) <=> p \in Nat /\ s[i].base <= p /\ p < End(s[i])
  BY BlockFacts DEF PagesOf
<1> QED
  BY <1>1 DEF PagesIn

\* Two blocks of an ordered list have no page in common.
LEMMA OneBlock ==
  ASSUME NEW s \in Seq(Block), Ordered(s),
         NEW i \in 1 .. Len(s), NEW j \in 1 .. Len(s), NEW p \in Nat,
         s[i].base <= p, p < End(s[i]), s[j].base <= p, p < End(s[j])
  PROVE  i = j
<1>1. i \in Nat /\ j \in Nat
  OBVIOUS
<1>2. /\ s[i].base \in Nat /\ End(s[i]) \in Nat
      /\ s[j].base \in Nat /\ End(s[j]) \in Nat
  BY BlockFacts
<1>3. ~ (i < j)
  BY <1>2 DEF Ordered
<1>4. ~ (j < i)
  BY <1>2 DEF Ordered
<1> QED
  BY <1>1, <1>3, <1>4

\* What an allocation leaves of the list: it gives size pages of one block.
LEMMA RemovedBlock ==
  ASSUME NEW s \in Seq(Block), Ordered(s), NEW i \in 1 .. Len(s), NEW t,
         t = RemoveAt(s, i)
  PROVE  /\ t \in Seq(Block) /\ Ordered(t)
         /\ TotalLength(t) = TotalLength(s) - s[i].length
         /\ \A p : p \in PagesIn(t) <=>
              p \in PagesIn(s) /\ ~ (s[i].base <= p /\ p < End(s[i]))
<1> DEFINE Old(n) == IF n < i THEN n ELSE n + 1
<1>1. /\ t \in Seq(Block) /\ Len(t) = Len(s) - 1 /\ Len(s) \in Nat
      /\ i \in Nat /\ i > 0 /\ i <= Len(s)
      /\ \A n \in 1 .. Len(t) : t[n] = IF n < i THEN s[n] ELSE s[n + 1]
  <2>1. /\ t \in Seq(Block) /\ Len(t) = Len(s) - 1
        /\ \A n \in 1 .. Len(s) - 1 : t[n] = IF n < i THEN s[n] ELSE s[n + 1]
    BY RemoveFacts
  <2>2. Len(s) \in Nat /\ i \in Nat /\ i > 0 /\ i <= Len(s)
    OBVIOUS
  <2> QED
    BY <2>1, <2>2
<1>2. ASSUME NEW n \in 1 .. Len(t)
      PROVE  Old(n) \in 1 .. Len(s) /\ Old(n) # i /\ t[n] = s[Old(n)]
  BY <1>1
<1>3. ASSUME NEW n \in 1 .. Len(t), NEW m \in 1 .. Len(t), n < m
      PROVE  Old(n) < Old(m)
  BY <1>1, <1>3
<1>4. ASSUME NEW k \in 1 .. Len(s), k # i
      PROVE  \E n \in 1 .. Len(t) : Old(n) = k
  <2>1. CASE k < i
    BY <1>1, <2>1
  <2>2. CASE k > i
    <3>1. k - 1 \in 1 .. Len(t) /\ Old(k - 1) = k
      BY <1>1, <2>2
    <3> QED
      BY <3>1
  <2> QED
    BY <1>1, <1>4, <2>1, <2>2
<1> HIDE DEF Old
<1>5. Ordered(t)
  BY <1>2, <1>3 DEF Ordered
<1>6. ASSUME NEW p
      PROVE  p \in PagesIn(t) <=>
               p \in PagesIn(s) /\ ~ (s[i].base <= p /\ p < End(s[i]))
  <2>1. ASSUME p \in PagesIn(t)
        PROVE  p \in PagesIn(s) /\ ~ (s[i].base <= p /\ p < End(s[i]))
    <3>1. PICK n \in 1 .. Len(t) : p \in Nat /\ t[n].base <= p /\ p < End(t[n])
      BY <1>1, <2>1, InPages
    <3>2. /\ Old(n) \in 1 .. Len(s) /\ Old(n) # i /\ p \in Nat
          /\ s[Old(n)].base <= p /\ p < End(s[Old(n)])
      BY <1>2, <3>1
    <3> QED
      BY <3>2, InPages, OneBlock
  <2>2. ASSUME p \in PagesIn(s), ~ (s[i].base <= p /\ p < End(s[i]))
        PROVE  p \in PagesIn(t)
    <3>1. PICK k \in 1 .. Len(s) : p \in Nat /\ s[k].base <= p /\ p < End(s[k])
      BY <2>2, InPages
    <3>2. k # i
      BY <2>2, <3>1
    <3>3. PICK n \in 1 .. Len(t) : Old(n) = k
      BY <1>4, <3>2
    <3>4. p \in Nat /\ t[n].base <= p /\ p < End(t[n])
      BY <1>2, <3>1, <3>3
    <3> QED
      BY <1>1, <3>4, InPages
  <2> QED
    BY <2>1, <2>2
<1> QED
  BY <1>1, <1>5, <1>6, TotalRemoved

\* A block b that takes the place of the i-th: it begins there, and ends before
\* those after it begin.
InPlaceOf(b, s, i) ==
  /\ b \in Block /\ b.length > 0 /\ b.base = s[i].base
  /\ \A j \in 1 .. Len(s) : i < j => End(b) <= s[j].base

LEMMA ReplacedBlock ==
  ASSUME NEW s \in Seq(Block), Ordered(s), NEW i \in 1 .. Len(s),
         NEW b, InPlaceOf(b, s, i)
  PROVE  /\ Replaced(s, i, b) \in Seq(Block) /\ Ordered(Replaced(s, i, b))
         /\ TotalLength(Replaced(s, i, b)) = TotalLength(s) - s[i].length + b.length
         /\ \A p : p \in PagesIn(Replaced(s, i, b)) <=>
              \/ p \in PagesIn(s) /\ ~ (s[i].base <= p /\ p < End(s[i]))
              \/ p \in Nat /\ b.base <= p /\ p < End(b)
<1> DEFINE t == Replaced(s, i, b)
<1>0. /\ b \in Block /\ b.length > 0 /\ b.base = s[i].base
      /\ \A j \in 1 .. Len(s) : i < j => End(b) <= s[j].base
  BY DEF InPlaceOf
<1>1. /\ t \in Seq(Block) /\ Len(t) = Len(s) /\ Len(s) \in Nat
      /\ t[i] = b
      /\ \A n \in 1 .. Len(s) : n # i => t[n] = s[n]
  BY <1>0, ReplacedFacts
<1> HIDE DEF t
<1>2. Ordered(t)
  <2>1. ASSUME NEW n \in 1 .. Len(t) PROVE t[n].length > 0
    BY <1>0, <1>1 DEF Ordered
  <2>2. ASSUME NEW n \in 1 .. Len(t), NEW m \in 1 .. Len(t), n < m
        PROVE  End(t[n]) <= t[m].base
    <3>1. CASE n = i
      BY <1>0, <1>1, <2>2, <3>1
    <3>2. CASE n # i
      <4>1. t[n] = s[n] /\ t[m].base = s[m].base /\ n \in 1 .. Len(s) /\ m \in 1 .. Len(s)
        BY <1>0, <1>1, <3>2
      <4> QED
        BY <2>2, <4>1 DEF Ordered
    <3> QED
      BY <3>1, <3>2
  <2> QED
    BY <2>1, <2>2 DEF Ordered
<1>3. ASSUME NEW p
      PROVE  p \in PagesIn(t) <=>
              \/ p \in PagesIn(s) /\ ~ (s[i].base <= p /\ p < End(s[i]))
              \/ p \in Nat /\ b.base <= p /\ p < End(b)
  <2>1. ASSUME p \in PagesIn(t), ~ (p \in Nat /\ b.base <= p /\ p < End(b))
        PROVE  p \in PagesIn(s) /\ ~ (s[i].base <= p /\ p < End(s[i]))
    <3>1. PICK n \in 1 .. Len(t) : p \in Nat /\ t[n].base <= p /\ p < End(t[n])
      BY <1>1, <2>1, InPages
    <3>2. n # i /\ n \in 1 .. Len(s) /\ t[n] = s[n]
      BY <1>1, <2>1, <3>1
    <3> QED
      BY <3>1, <3>2, InPages, OneBlock
  <2>2. ASSUME p \in PagesIn(s), ~ (s[i].base <= p /\ p < End(s[i]))
        PROVE  p \in PagesIn(t)
    <3>1. PICK k \in 1 .. Len(s) : p \in Nat /\ s[k].base <= p /\ p < End(s[k])
      BY <2>2, InPages
    <3>2. k # i /\ k \in 1 .. Len(t) /\ t[k] = s[k]
      BY <1>1, <2>2, <3>1
    <3> QED
      BY <1>1, <3>1, <3>2, InPages
  <2>3. ASSUME p \in Nat, b.base <= p, p < End(b) PROVE p \in PagesIn(t)
    BY <1>1, <2>3, InPages
  <2> QED
    BY <2>1, <2>2, <2>3
<1>4. TotalLength(t) = TotalLength(s) - s[i].length + b.length
  BY <1>0, TotalReplaced DEF t
<1> QED
  BY <1>1, <1>2, <1>3, <1>4 DEF t
-----------------------------------------------------------------------------
\* The pages that __page_alloc gives are the last of the block.
LEMMA GivenFacts ==
  ASSUME NEW b \in Block, NEW size \in Nat, b.length >= size, End(b) <= MemoryEnd
  PROVE  /\ Given(b, size) \in Nat /\ Given(b, size) + size = End(b)
         /\ b.base <= Given(b, size)
         /\ Given(b, size) = (b.base + b.length) - size
<1>1. /\ b.base \in Nat /\ b.length \in Nat /\ End(b) = b.base + b.length
  BY DEF Block, End
<1>2. PICK x \in Nat : x = b.base + b.length - size
  BY <1>1
<1>3. x <= MemoryEnd
  BY <1>1, <1>2, PageAllocAssumption
<1>4. Given(b, size) = x
  BY <1>2, <1>3, Unwrapped DEF Given
<1> QED
  BY <1>1, <1>2, <1>4

\* __page_alloc takes the last size pages of a block, or the block.
LEMMA ShortenedFacts ==
  ASSUME mm_list \in Seq(Block), Ordered(mm_list), NEW i \in 1 .. Len(mm_list),
         NEW size \in Nat, size > 0, mm_list[i].length >= size,
         ~ Stays(mm_list[i], size), End(mm_list[i]) <= MemoryEnd,
         NEW t, t = Shortened(i, size)
  PROVE  /\ t \in Seq(Block) /\ Ordered(t)
         /\ TotalLength(t) = TotalLength(mm_list) - size
         /\ Given(mm_list[i], size) \in Nat
         /\ Given(mm_list[i], size) + size = End(mm_list[i])
         /\ mm_list[i].base <= Given(mm_list[i], size)
         /\ \A p : p \in PagesIn(t) <=>
              /\ p \in PagesIn(mm_list)
              /\ ~ (Given(mm_list[i], size) <= p /\ p < End(mm_list[i]))
<1> DEFINE a == mm_list[i]
<1>1. /\ a \in Block /\ a.base \in Nat /\ a.length \in Nat
      /\ End(a) = a.base + a.length
  BY BlockFacts
<1>2. /\ Given(a, size) \in Nat /\ Given(a, size) + size = End(a)
      /\ a.base <= Given(a, size)
      /\ Given(a, size) = (a.base + a.length) - size
  BY <1>1, GivenFacts
<1>3. CASE a.length = size
  <2>1. t = RemoveAt(mm_list, i)
    BY <1>3 DEF Shortened
  <2>2. Given(a, size) = a.base
    BY <1>1, <1>3, GivenFacts
  <2> QED
    BY <1>1, <1>2, <1>3, <2>1, <2>2, RemovedBlock
<1>4. CASE a.length # size
  <2> DEFINE b == Resized(a, a.length - size)
  <2>1. t = Replaced(mm_list, i, b)
    BY <1>4 DEF Shortened, Replaced, Resized
  <2>2. /\ b \in Block /\ b.base = a.base /\ b.length = a.length - size
        /\ b.length > 0 /\ End(b) = a.base + (a.length - size)
    <3>1. a.length - size \in Nat /\ a.length - size > 0
      BY <1>1, <1>4
    <3> QED
      BY <1>1, <3>1, ResizedFacts
  <2> HIDE DEF b
  <2>3. End(b) = Given(a, size)
    BY <1>1, <1>2, <2>2
  <2>4. ASSUME NEW j \in 1 .. Len(mm_list), i < j
        PROVE  End(b) <= mm_list[j].base
    <3>1. End(a) <= mm_list[j].base /\ mm_list[j].base \in Nat
      BY <2>4, BlockFacts DEF Ordered
    <3> QED
      BY <1>1, <1>2, <2>3, <3>1
  <2>5. /\ t \in Seq(Block) /\ Ordered(t)
        /\ TotalLength(t) = TotalLength(mm_list) - a.length + b.length
        /\ \A p : p \in PagesIn(t) <=>
             \/ p \in PagesIn(mm_list) /\ ~ (a.base <= p /\ p < End(a))
             \/ p \in Nat /\ b.base <= p /\ p < End(b)
    <3>1. InPlaceOf(b, mm_list, i)
      BY <2>2, <2>4 DEF InPlaceOf
    <3> QED
      BY <2>1, <3>1, ReplacedBlock
  <2>6. TotalLength(t) = TotalLength(mm_list) - size
    <3>1. TotalLength(mm_list) \in Int
      BY TotalTyped
    <3> QED
      BY <1>1, <2>2, <2>5, <3>1
  <2>7. ASSUME NEW p
        PROVE  p \in PagesIn(t) <=>
                 p \in PagesIn(mm_list) /\ ~ (Given(a, size) <= p /\ p < End(a))
    <3>1. ASSUME p \in Nat, a.base <= p, p < End(a) PROVE p \in PagesIn(mm_list)
      BY <3>1, InPages
    <3>2. p \in PagesIn(mm_list) => p \in Nat
      BY InPages
    <3> QED
      BY <1>1, <1>2, <2>2, <2>3, <2>5, <3>1, <3>2
  <2> QED
    BY <1>2, <2>5, <2>6, <2>7
<1> QED
  BY <1>3, <1>4

\* It is the same whether a block is joined before or after the next one goes.
LEMMA RemoveAfter ==
  ASSUME NEW S, NEW s \in Seq(S), NEW i \in 1 .. Len(s) - 1, NEW b \in S
  PROVE  RemoveAt(Replaced(s, i, b), i + 1) = Replaced(RemoveAt(s, i + 1), i, b)
<1> DEFINE r == Replaced(s, i, b)
           t == RemoveAt(r, i + 1)
           u == RemoveAt(s, i + 1)
           v == Replaced(u, i, b)
           m == Len(s) - 1
<1>1. m \in Nat /\ i \in 1 .. m /\ i + 1 \in 1 .. Len(s) /\ Len(s) = m + 1
  OBVIOUS
<1>2. /\ r \in Seq(S) /\ Len(r) = Len(s) /\ r[i] = b
      /\ \A n \in 1 .. Len(s) : n # i => r[n] = s[n]
  <2>1. i \in 1 .. Len(s)
    BY <1>1
  <2> QED
    BY <2>1, ReplacedFacts
<1> HIDE DEF r
<1>3. /\ t \in Seq(S) /\ Len(t) = m
      /\ \A n \in 1 .. m : t[n] = IF n < i + 1 THEN r[n] ELSE r[n + 1]
  <2>1. i + 1 \in 1 .. Len(r) /\ Len(r) - 1 = m
    BY <1>1, <1>2
  <2> QED
    BY <1>2, <2>1, RemoveFacts
<1>4. /\ u \in Seq(S) /\ Len(u) = m
      /\ \A n \in 1 .. m : u[n] = IF n < i + 1 THEN s[n] ELSE s[n + 1]
  BY <1>1, RemoveFacts
<1> HIDE DEF t, u
<1>5. /\ v \in Seq(S) /\ Len(v) = m /\ v[i] = b
      /\ \A n \in 1 .. m : n # i => v[n] = u[n]
  <2>1. u \in Seq(S) /\ i \in 1 .. Len(u)
    BY <1>1, <1>4
  <2>2. /\ v \in Seq(S) /\ Len(v) = Len(u) /\ v[i] = b
        /\ \A n \in 1 .. Len(u) : n # i => v[n] = u[n]
    BY <2>1 DEF Replaced
  <2> QED
    BY <1>4, <2>2
<1> HIDE DEF v, m
<1>6. ASSUME NEW n \in 1 .. m PROVE t[n] = v[n]
  <2>1. /\ n \in 1 .. Len(s) /\ n + 1 \in 1 .. Len(s)
        /\ (n < i + 1 <=> n < i \/ n = i) /\ (n + 1 = i => n < i + 1)
    BY <1>1
  <2>2. CASE n = i
    BY <1>2, <1>3, <1>5, <2>1, <2>2
  <2>3. CASE n # i
    <3>1. v[n] = IF n < i + 1 THEN s[n] ELSE s[n + 1]
      BY <1>4, <1>5, <2>3
    <3>2. t[n] = IF n < i + 1 THEN r[n] ELSE r[n + 1]
      BY <1>3
    <3>3. r[n] = s[n] /\ (~ (n < i + 1) => r[n + 1] = s[n + 1])
      BY <1>2, <2>1, <2>3
    <3> QED
      BY <3>1, <3>2, <3>3
  <2> QED
    BY <2>2, <2>3
<1>7. t = v
  BY <1>3, <1>5, <1>6, SeqEqual
<1> QED
  BY <1>7 DEF r, t, u, v

\* __page_merge joins a block with the one that begins where it ends.
Merge(s, i) ==
  RemoveAt([s EXCEPT ![i].length = s[i].length + s[i + 1].length], i + 1)

LEMMA JoinedFacts ==
  ASSUME NEW s \in Seq(Block), Ordered(s), NEW i \in 1 .. Len(s) - 1,
         End(s[i]) = s[i + 1].base
  PROVE  /\ Merge(s, i) \in Seq(Block) /\ Len(Merge(s, i)) = Len(s) - 1
         /\ Ordered(Merge(s, i))
         /\ TotalLength(Merge(s, i)) = TotalLength(s)
         /\ \A p : p \in PagesIn(Merge(s, i)) <=> p \in PagesIn(s)
         /\ \A n \in 1 .. i - 1 : Merge(s, i)[n] = s[n]
         /\ Merge(s, i)[i].base = s[i].base
<1> DEFINE a == s[i]
           c == s[i + 1]
           b == Resized(a, a.length + c.length)
           u == RemoveAt(s, i + 1)
           t == Replaced(u, i, b)
<1>1. /\ Len(s) \in Nat /\ i \in Nat /\ i > 0 /\ i \in 1 .. Len(s)
      /\ i + 1 \in 1 .. Len(s)
  OBVIOUS
<1>2. /\ a \in Block /\ a.base \in Nat /\ a.length \in Nat
      /\ End(a) = a.base + a.length
  BY <1>1, BlockFacts
<1>3. /\ c \in Block /\ c.base \in Nat /\ c.length \in Nat
      /\ End(c) = c.base + c.length
  BY <1>1, BlockFacts
<1>4. a.length > 0
  BY <1>1 DEF Ordered
<1>5. /\ b \in Block /\ b.base = a.base /\ b.length = a.length + c.length
      /\ b.length > 0 /\ End(b) = a.base + (a.length + c.length)
  <2>1. a.length + c.length \in Nat /\ a.length + c.length > 0
    BY <1>2, <1>3, <1>4
  <2> QED
    BY <1>2, <2>1, ResizedFacts
<1>6. Merge(s, i) = t
  <2>1. Merge(s, i) = RemoveAt(Replaced(s, i, b), i + 1)
    BY DEF Merge, Replaced, Resized
  <2> QED
    BY <1>5, <2>1, RemoveAfter
<1>7. /\ u \in Seq(Block) /\ Len(u) = Len(s) - 1
      /\ \A n \in 1 .. Len(s) - 1 :
           u[n] = IF n < i + 1 THEN s[n] ELSE s[n + 1]
  BY <1>1, RemoveFacts
<1>8. /\ Ordered(u)
      /\ TotalLength(u) = TotalLength(s) - c.length
      /\ \A p : p \in PagesIn(u) <=>
           p \in PagesIn(s) /\ ~ (c.base <= p /\ p < End(c))
  BY <1>1, RemovedBlock
<1>9. i \in 1 .. Len(u) /\ u[i] = a
  BY <1>1, <1>7
<1> HIDE DEF b, u
<1>10. End(b) = End(c) /\ End(a) = c.base
  <2> HIDE DEF a
  <2>1. End(a) = c.base
    BY DEF a
  <2> HIDE DEF c
  <2> QED
    BY <1>2, <1>3, <1>5, <2>1
<1>11. ASSUME NEW j \in 1 .. Len(u), i < j
       PROVE  End(b) <= u[j].base
  <2>1. /\ u[j] = s[j + 1] /\ i + 1 \in 1 .. Len(s)
        /\ j + 1 \in 1 .. Len(s) /\ i + 1 < j + 1
    BY <1>1, <1>7, <1>11
  <2>2. End(s[i + 1]) <= s[j + 1].base
    BY <2>1 DEF Ordered
  <2> QED
    BY <1>10, <2>1, <2>2
<1>12. /\ Len(t) = Len(u) /\ t[i] = b
       /\ \A n \in 1 .. Len(u) : n # i => t[n] = u[n]
  <2>1. u \in Seq(Block) /\ i \in 1 .. Len(u) /\ b \in Block
    BY <1>5, <1>7, <1>9
  <2> QED
    BY ONLY <2>1, ReplacedFacts
<1>13. /\ t \in Seq(Block) /\ Ordered(t)
       /\ TotalLength(t) = TotalLength(u) - a.length + b.length
       /\ \A p : p \in PagesIn(t) <=>
            \/ p \in PagesIn(u) /\ ~ (a.base <= p /\ p < End(a))
            \/ p \in Nat /\ b.base <= p /\ p < End(b)
  <2>1. InPlaceOf(b, u, i)
    BY <1>5, <1>9, <1>11 DEF InPlaceOf
  <2> QED
    BY <1>7, <1>8, <1>9, <2>1, ReplacedBlock
<1>14. \A n \in 1 .. i - 1 : t[n] = s[n]
  <2>1. ASSUME NEW n \in 1 .. i - 1
        PROVE  n # i /\ n < i + 1 /\ n \in 1 .. Len(u) /\ n \in 1 .. Len(s) - 1
    BY <1>1, <1>7
  <2> QED
    BY <1>7, <1>12, <2>1
<1> HIDE DEF t
<1>15. TotalLength(t) = TotalLength(s)
  <2>1. TotalLength(s) \in Int
    BY TotalTyped
  <2>2. TotalLength(t) = TotalLength(s) - c.length - a.length + (a.length + c.length)
    BY <1>5, <1>8, <1>13
  <2> HIDE DEF a, c
  <2> QED
    BY <1>2, <1>3, <2>1, <2>2
<1>16. ASSUME NEW p PROVE p \in PagesIn(t) <=> p \in PagesIn(s)
  <2>1. p \in PagesIn(s) => p \in Nat
    BY InPages
  <2>2. p \in Nat /\ a.base <= p /\ p < End(a) => p \in PagesIn(s)
    BY <1>1, InPages
  <2>3. p \in Nat /\ c.base <= p /\ p < End(c) => p \in PagesIn(s)
    BY <1>1, InPages
  <2>4. p \in PagesIn(t) <=>
          \/ /\ p \in PagesIn(s) /\ ~ (c.base <= p /\ p < End(c))
             /\ ~ (a.base <= p /\ p < End(a))
          \/ p \in Nat /\ a.base <= p /\ p < End(c)
    BY <1>5, <1>8, <1>10, <1>13
  <2> HIDE DEF a, c
  <2>5. /\ a.base \in Nat /\ End(a) \in Nat /\ c.base \in Nat /\ End(c) \in Nat
        /\ a.base <= End(a) /\ c.base <= End(c) /\ End(a) = c.base
    BY <1>2, <1>3, <1>10
  <2> QED
    BY <2>1, <2>2, <2>3, <2>4, <2>5
<1> QED
  BY <1>5, <1>6, <1>7, <1>12, <1>13, <1>14, <1>15, <1>16
-----------------------------------------------------------------------------
\* What is known of the n-th descriptor of a memory map.
LEMMA DescriptorFacts ==
  ASSUME NEW map \in MemoryMaps, NEW n \in 1 .. Len(map)
  PROVE  /\ map[n].usable \in BOOLEAN
         /\ map[n].start \in Nat /\ DescriptorEnd(map[n]) \in Nat
         /\ DescriptorEnd(map[n]) <= MemoryEnd
         /\ map[n].start < DescriptorEnd(map[n])
         /\ \A m \in 1 .. Len(map) : n < m => DescriptorEnd(map[n]) <= map[m].start
<1>1. map \in Seq(Descriptor)
  BY PageAllocAssumption
<1>2. map[n] \in Descriptor
  BY <1>1
<1>3. /\ map[n].usable \in BOOLEAN
      /\ map[n].start \in Nat /\ DescriptorEnd(map[n]) \in Nat
      /\ map[n].pages > 0 => DescriptorEnd(map[n]) > map[n].start
  BY <1>2 DEF Descriptor, DescriptorEnd
<1>4. /\ DescriptorEnd(map[n]) <= MemoryEnd
      /\ map[n].pages > 0
      /\ \A m \in 1 .. Len(map) : n < m => DescriptorEnd(map[n]) <= map[m].start
  BY PageAllocAssumption
<1> QED
  BY <1>3, <1>4

\* The block of a descriptor; of one that ends below the lower bound, only its
\* place is known.
LEMMA BlockOfFacts ==
  ASSUME NEW map \in MemoryMaps, NEW n \in 1 .. Len(map)
  PROVE  /\ BlockOf(map[n]) \in Block
         /\ BlockOf(map[n]).base =
              IF map[n].start > LowerBound THEN map[n].start ELSE LowerBound
         /\ DescriptorEnd(map[n]) > LowerBound =>
              /\ BlockOf(map[n]).length > 0
              /\ End(BlockOf(map[n])) = DescriptorEnd(map[n])
<1> DEFINE d == map[n]
           first == IF d.start > LowerBound THEN d.start ELSE LowerBound
           length == (DescriptorEnd(d) - first) % Wrap
<1>1. /\ d.start \in Nat /\ DescriptorEnd(d) \in Nat /\ LowerBound \in Nat
      /\ DescriptorEnd(d) > d.start /\ DescriptorEnd(d) <= MemoryEnd
      /\ MemoryEnd \in Nat /\ Wrap \in Nat /\ Wrap > 0
  BY DescriptorFacts, PageAllocAssumption
<1> HIDE DEF d
<1>2. first \in Nat /\ (DescriptorEnd(d) > LowerBound => first < DescriptorEnd(d))
  BY <1>1
<1>3. BlockOf(d) = [base |-> first, length |-> length]
  BY DEF BlockOf
<1>4. length \in Nat
  <2>1. PICK x \in Int : x = DescriptorEnd(d) - first
    BY <1>1, <1>2
  <2>2. \A y, w \in Int : w > 0 => y % w \in Nat
    OBVIOUS
  <2> QED
    BY <1>1, <2>1, <2>2
<1>5. ASSUME DescriptorEnd(d) > LowerBound
      PROVE  length > 0 /\ first + length = DescriptorEnd(d)
  <2>1. PICK x \in Nat : x = DescriptorEnd(d) - first
    BY <1>1, <1>2, <1>5
  <2>2. x <= MemoryEnd
    BY <1>1, <1>2, <2>1
  <2>3. length = x
    BY <2>1, <2>2, Unwrapped
  <2> HIDE DEF length
  <2> QED
    BY <1>1, <1>2, <1>5, <2>1, <2>3
<1> HIDE DEF length
<1>6. /\ BlockOf(d) \in Block /\ BlockOf(d).base = first
      /\ BlockOf(d).length = length /\ End(BlockOf(d)) = first + length
  BY <1>2, <1>3, <1>4 DEF Block, End
<1> QED
  BY <1>5, <1>6 DEF d

\* Of the first n descriptors, the last usable one that starts at or below the
\* lower bound ends above it.
Reaches(map, n) ==
  \A i \in AtBound(map) :
    i <= n /\ (\A j \in AtBound(map) : j <= n => j <= i) =>
      DescriptorEnd(map[i]) > LowerBound

\* The pages of the first n descriptors that the kernel may use.
FreeIn(map, n, p) ==
  /\ p \in Nat /\ p >= LowerBound
  /\ \E j \in 1 .. n : /\ map[j].usable
                       /\ map[j].start <= p /\ p < DescriptorEnd(map[j])

\* The list q that page_alloc_init has made of the first n descriptors: all of
\* its blocks begin before the later descriptors, and as long as no usable one
\* was above the lower bound, there is one block, at the bound, or none.
Listed(map, n, q) ==
  /\ q \in Seq(Block)
  /\ \A i \in 1 .. Len(q), m \in n + 1 .. Len(map) :
       map[m].start > LowerBound => q[i].base < map[m].start
  /\ (\A j \in 1 .. n : map[j].usable => map[j].start <= LowerBound) =>
       \/ q = <<>>
       \/ /\ Len(q) = 1 /\ q[1].base = LowerBound
          /\ \E j \in 1 .. n : map[j].usable
  /\ Reaches(map, n) =>
       /\ Ordered(q)
       /\ \A i \in 1 .. Len(q), m \in n + 1 .. Len(map) : End(q[i]) <= map[m].start
       /\ \A p : p \in PagesIn(q) <=> FreeIn(map, n, p)

\* A step past a descriptor that is not usable.
LEMMA ListedUnusable ==
  ASSUME NEW map \in MemoryMaps, NEW n \in 1 .. Len(map), NEW q,
         Listed(map, n - 1, q), ~ map[n].usable
  PROVE  Listed(map, n, q)
<1>1. n \in Nat /\ Len(map) \in Nat
  <2>1. map \in Seq(Descriptor)
    BY PageAllocAssumption
  <2> QED
    BY <2>1
<1>2. /\ n + 1 .. Len(map) \subseteq (n - 1) + 1 .. Len(map)
      /\ 1 .. n = (1 .. n - 1) \cup {n}
  BY <1>1
<1>3. \A i \in AtBound(map) : i \in Nat /\ (i <= n <=> i <= n - 1)
  BY <1>1 DEF AtBound
<1>4. Reaches(map, n) => Reaches(map, n - 1)
  BY <1>3 DEF Reaches
<1>5. \A p : FreeIn(map, n, p) <=> FreeIn(map, n - 1, p)
  BY <1>2 DEF FreeIn
<1>6. (\A j \in 1 .. n : map[j].usable => map[j].start <= LowerBound) =>
        \/ q = <<>>
        \/ /\ Len(q) = 1 /\ q[1].base = LowerBound
           /\ \E j \in 1 .. n : map[j].usable
  BY <1>2 DEF Listed
<1> QED
  BY <1>2, <1>4, <1>5, <1>6 DEF Listed

\* A step past a usable descriptor above the lower bound: its block is appended.
LEMMA ListedAbove ==
  ASSUME NEW map \in MemoryMaps, NEW n \in 1 .. Len(map), NEW q,
         Listed(map, n - 1, q), map[n].usable, map[n].start > LowerBound
  PROVE  /\ Linked(q, BlockOf(map[n])) = Append(q, BlockOf(map[n]))
         /\ Listed(map, n, Append(q, BlockOf(map[n])))
<1> DEFINE b == BlockOf(map[n])
           r == Append(q, b)
           l == Len(q)
<1>1. n \in Nat /\ Len(map) \in Nat /\ q \in Seq(Block) /\ LowerBound \in Nat
  <2>1. map \in Seq(Descriptor)
    BY PageAllocAssumption
  <2> QED
    BY <2>1, PageAllocAssumption DEF Listed
<1>2. /\ n + 1 .. Len(map) \subseteq (n - 1) + 1 .. Len(map)
      /\ n \in (n - 1) + 1 .. Len(map)
      /\ 1 .. n = (1 .. n - 1) \cup {n}
  BY <1>1
<1>3. /\ map[n].start \in Nat /\ DescriptorEnd(map[n]) \in Nat
      /\ map[n].start < DescriptorEnd(map[n]) /\ DescriptorEnd(map[n]) > LowerBound
      /\ \A m \in n + 1 .. Len(map) :
           DescriptorEnd(map[n]) <= map[m].start /\ map[m].start \in Nat
  <2>1. \A m \in n + 1 .. Len(map) : m \in 1 .. Len(map) /\ n < m
    BY <1>1
  <2>2. /\ map[n].start \in Nat /\ DescriptorEnd(map[n]) \in Nat
        /\ map[n].start < DescriptorEnd(map[n])
    BY DescriptorFacts
  <2> QED
    BY <1>1, <2>1, <2>2, DescriptorFacts
<1>4. /\ b \in Block /\ b.base = map[n].start /\ b.length > 0
      /\ End(b) = DescriptorEnd(map[n])
  BY <1>3, BlockOfFacts
<1> HIDE DEF b
<1>5. /\ r \in Seq(Block) /\ Len(r) = l + 1 /\ r[l + 1] = b /\ l \in Nat
      /\ \A i \in 1 .. l : r[i] = q[i]
      /\ 1 .. l + 1 = (1 .. l) \cup {l + 1}
  BY <1>1, <1>4, AppendFacts
<1>6. \A i \in 1 .. l : q[i].base < map[n].start
  BY <1>2 DEF Listed
<1>7. Linked(q, b) = Append(q, b)
  <2>1. CASE q # <<>>
    <3>1. l \in 1 .. l
      BY <1>1, <2>1
    <3>2. q[l].base \in Nat /\ q[l].base < b.base
      BY <1>1, <1>4, <1>6, <3>1, BlockFacts
    <3> QED
      BY <1>4, <3>2 DEF Linked
  <2> QED
    BY <2>1 DEF Linked
<1> HIDE DEF r
<1>8. ASSUME NEW i \in 1 .. l + 1, NEW m \in n + 1 .. Len(map), map[m].start > LowerBound
      PROVE  r[i].base < map[m].start
  <2>1. CASE i = l + 1
    BY <1>3, <1>4, <1>5, <2>1
  <2>2. CASE i \in 1 .. l
    BY <1>2, <1>5, <1>8, <2>2 DEF Listed
  <2> QED
    BY <1>5, <2>1, <2>2
<1>9. ASSUME Reaches(map, n)
      PROVE  /\ Ordered(r)
             /\ \A i \in 1 .. l + 1, m \in n + 1 .. Len(map) : End(r[i]) <= map[m].start
             /\ \A p : p \in PagesIn(r) <=> FreeIn(map, n, p)
  <2>1. Reaches(map, n - 1)
    <3>1. \A i \in AtBound(map) : i \in Nat /\ (i <= n <=> i <= n - 1)
      BY <1>1, <1>3 DEF AtBound
    <3> QED
      BY <1>9, <3>1 DEF Reaches
  <2>2. /\ Ordered(q)
        /\ \A i \in 1 .. l, m \in n + 1 .. Len(map) : End(q[i]) <= map[m].start
        /\ \A i \in 1 .. l : End(q[i]) <= map[n].start
        /\ \A p : p \in PagesIn(q) <=> FreeIn(map, n - 1, p)
    BY <1>2, <2>1 DEF Listed
  <2>3. Ordered(r)
    <3>1. ASSUME NEW i \in 1 .. l + 1 PROVE r[i].length > 0
      BY <1>4, <1>5, <2>2 DEF Ordered
    <3>2. ASSUME NEW i \in 1 .. l + 1, NEW j \in 1 .. l + 1, i < j
          PROVE  End(r[i]) <= r[j].base
      <4>1. i \in 1 .. l /\ r[i] = q[i]
        BY <1>5, <3>2
      <4>2. CASE j = l + 1
        BY <1>4, <1>5, <2>2, <4>1, <4>2
      <4>3. CASE j \in 1 .. l
        <5>1. End(q[i]) <= q[j].base
          BY <2>2, <3>2, <4>1, <4>3 DEF Ordered
        <5> QED
          BY <1>5, <4>1, <4>3, <5>1
      <4> QED
        BY <1>5, <4>2, <4>3
    <3> QED
      BY <1>5, <3>1, <3>2 DEF Ordered
  <2>4. ASSUME NEW i \in 1 .. l + 1, NEW m \in n + 1 .. Len(map)
        PROVE  End(r[i]) <= map[m].start
    <3>1. CASE i = l + 1
      BY <1>3, <1>4, <1>5, <3>1
    <3>2. CASE i \in 1 .. l
      BY <1>5, <2>2, <3>2
    <3> QED
      BY <1>5, <3>1, <3>2
  <2>5. ASSUME NEW p PROVE p \in PagesIn(r) <=> FreeIn(map, n, p)
    <3>1. p \in PagesIn(r) <=>
            \E i \in 1 .. l + 1 : p \in Nat /\ r[i].base <= p /\ p < End(r[i])
      BY <1>5, InPages
    <3>2. p \in PagesIn(q) <=>
            \E i \in 1 .. l : p \in Nat /\ q[i].base <= p /\ p < End(q[i])
      BY <1>1, InPages
    <3>3. p \in PagesIn(r) <=>
            p \in PagesIn(q) \/ (p \in Nat /\ b.base <= p /\ p < End(b))
      BY <1>5, <3>1, <3>2
    <3>4. p \in Nat /\ map[n].start <= p => p >= LowerBound
      BY <1>1, <1>3
    <3> QED
      BY <1>2, <1>4, <2>2, <3>3, <3>4 DEF FreeIn
  <2> QED
    BY <2>3, <2>4, <2>5
<1>10. \E j \in 1 .. n : map[j].usable /\ ~ (map[j].start <= LowerBound)
  BY <1>1, <1>2, <1>3
<1>11. Listed(map, n, r)
  BY <1>5, <1>8, <1>9, <1>10 DEF Listed
<1> QED
  BY <1>7, <1>11 DEF r, b

\* A step past a usable descriptor that starts at or below the lower bound: its
\* block is the only one, and when others have made one there, takes its place.
LEMMA ListedAtBound ==
  ASSUME NEW map \in MemoryMaps, NEW n \in 1 .. Len(map), NEW q,
         Listed(map, n - 1, q), map[n].usable, map[n].start <= LowerBound
  PROVE  /\ Listed(map, n, Linked(q, BlockOf(map[n])))
         /\ ~ Pinned(map) => Linked(q, BlockOf(map[n])) = Append(q, BlockOf(map[n]))
<1> DEFINE b == BlockOf(map[n])
           r == <<b>>
<1>1. n \in Nat /\ Len(map) \in Nat /\ q \in Seq(Block) /\ LowerBound \in Nat
  <2>1. map \in Seq(Descriptor)
    BY PageAllocAssumption
  <2> QED
    BY <2>1, PageAllocAssumption DEF Listed
<1>2. n \in 1 .. n /\ 1 .. n = (1 .. n - 1) \cup {n}
  BY <1>1
<1>3. /\ map[n].start \in Nat /\ DescriptorEnd(map[n]) \in Nat
      /\ map[n].start < DescriptorEnd(map[n])
      /\ \A m \in n + 1 .. Len(map) :
           DescriptorEnd(map[n]) <= map[m].start /\ map[m].start \in Nat
  <2>1. \A m \in n + 1 .. Len(map) : m \in 1 .. Len(map) /\ n < m
    BY <1>1
  <2>2. /\ map[n].start \in Nat /\ DescriptorEnd(map[n]) \in Nat
        /\ map[n].start < DescriptorEnd(map[n])
    BY DescriptorFacts
  <2> QED
    BY <2>1, <2>2, DescriptorFacts
<1>4. ASSUME NEW j \in 1 .. n - 1
      PROVE  /\ j \in 1 .. Len(map) /\ j < n
             /\ map[j].start \in Nat /\ DescriptorEnd(map[j]) \in Nat
             /\ map[j].start < DescriptorEnd(map[j])
             /\ DescriptorEnd(map[j]) <= LowerBound
             /\ map[j].start <= LowerBound
  <2>1. j \in 1 .. Len(map) /\ j < n
    BY <1>1
  <2>2. /\ map[j].start \in Nat /\ DescriptorEnd(map[j]) \in Nat
        /\ map[j].start < DescriptorEnd(map[j])
        /\ DescriptorEnd(map[j]) <= map[n].start
    BY <2>1, DescriptorFacts
  <2> QED
    BY <1>1, <1>3, <2>1, <2>2
<1>5. /\ b \in Block /\ b.base = LowerBound
      /\ DescriptorEnd(map[n]) > LowerBound =>
           b.length > 0 /\ End(b) = DescriptorEnd(map[n])
  <2>1. ~ (map[n].start > LowerBound)
    BY <1>1, <1>3
  <2> QED
    BY <2>1, BlockOfFacts
<1> HIDE DEF b
<1>6. \/ q = <<>>
      \/ /\ Len(q) = 1 /\ q[1].base = LowerBound
         /\ \E j \in 1 .. n - 1 : map[j].usable
  <2>1. \A j \in 1 .. n - 1 : map[j].usable => map[j].start <= LowerBound
    BY <1>4
  <2> QED
    BY <2>1 DEF Listed
<1>7. Linked(q, b) = r
  <2>1. CASE q = <<>>
    <3>1. Append(<<>>, b) = <<b>>
      OBVIOUS
    <3>2. Linked(<<>>, b) = Append(<<>>, b)
      BY DEF Linked
    <3> QED
      BY <2>1, <3>1, <3>2, Zenon
  <2>2. CASE Len(q) = 1 /\ q[1].base = LowerBound
    <3>1. q # <<>> /\ q[Len(q)].base = b.base
      <4>1. Len(<<>>) # 1
        OBVIOUS
      <4>2. q # <<>>
        BY <2>2, <4>1, Zenon
      <4>3. q[Len(q)].base = b.base
        BY <1>5, <2>2, Zenon
      <4> QED
        BY <4>2, <4>3
    <3>2. Linked(q, b) = [q EXCEPT ![1] = b]
      BY <2>2, <3>1 DEF Linked
    <3>3. [q EXCEPT ![1] = b] = r
      <4>1. /\ Replaced(q, 1, b) \in Seq(Block) /\ Len(Replaced(q, 1, b)) = 1
            /\ Replaced(q, 1, b)[1] = b
        <5>1. 1 \in 1 .. Len(q) /\ q \in Seq(Block) /\ b \in Block
          BY <1>1, <1>5, <2>2
        <5>2. /\ Replaced(q, 1, b) \in Seq(Block) /\ Len(Replaced(q, 1, b)) = Len(q)
              /\ Replaced(q, 1, b)[1] = b
          BY ONLY <5>1, ReplacedFacts
        <5> QED
          BY <2>2, <5>2
      <4> HIDE DEF b
      <4>2. /\ r \in Seq(Block) /\ Len(r) = 1 /\ r[1] = b
        BY <1>5
      <4>3. Replaced(q, 1, b) = r
        BY <4>1, <4>2, SeqEqual
      <4> QED
        BY <4>3 DEF Replaced
    <3> QED
      BY <3>2, <3>3
  <2> QED
    BY <1>6, <2>1, <2>2
<1>8. ASSUME ~ Pinned(map) PROVE Linked(q, b) = Append(q, b)
  <2>1. ~ \E j \in 1 .. n - 1 : map[j].usable
    <3>1. n \in AtBound(map)
      BY DEF AtBound
    <3>2. \A j \in 1 .. n - 1 : map[j].usable => j \in AtBound(map) /\ j # n
      BY <1>1, <1>4 DEF AtBound
    <3> QED
      BY <1>8, <3>1, <3>2 DEF Pinned
  <2>2. q = <<>>
    BY <1>6, <2>1
  <2> QED
    BY <2>2 DEF Linked
<1>9. r \in Seq(Block) /\ Len(r) = 1 /\ r[1] = b /\ 1 .. 1 = {1}
  BY <1>5
<1> HIDE DEF r
<1>10. ASSUME Reaches(map, n)
       PROVE  /\ Ordered(r)
              /\ \A i \in 1 .. 1, m \in n + 1 .. Len(map) : End(r[i]) <= map[m].start
              /\ \A p : p \in PagesIn(r) <=> FreeIn(map, n, p)
  <2>1. DescriptorEnd(map[n]) > LowerBound
    <3>1. n \in AtBound(map) /\ n <= n /\ \A j \in AtBound(map) : j <= n => j <= n
      BY <1>1 DEF AtBound
    <3> QED
      BY <1>10, <3>1 DEF Reaches
  <2>2. b.length > 0 /\ End(b) = DescriptorEnd(map[n])
    BY <1>5, <2>1
  <2>3. Ordered(r)
    BY <1>9, <2>2 DEF Ordered
  <2>4. \A i \in 1 .. 1, m \in n + 1 .. Len(map) : End(r[i]) <= map[m].start
    BY <1>3, <1>9, <2>2
  <2>5. ASSUME NEW p PROVE p \in PagesIn(r) <=> FreeIn(map, n, p)
    <3>1. p \in PagesIn(r) <=> p \in Nat /\ LowerBound <= p /\ p < DescriptorEnd(map[n])
      <4>1. p \in PagesIn(r) <=>
              \E i \in 1 .. 1 : p \in Nat /\ r[i].base <= p /\ p < End(r[i])
        BY <1>9, InPages
      <4> QED
        BY <1>5, <1>9, <2>2, <4>1
    <3>2. ASSUME NEW j \in 1 .. n - 1, p \in Nat, p >= LowerBound
          PROVE  ~ (p < DescriptorEnd(map[j]))
      BY <1>1, <1>4, <3>2
    <3>3. p \in Nat /\ p >= LowerBound => map[n].start <= p /\ LowerBound <= p
      BY <1>1, <1>3
    <3>4. p \in Nat /\ LowerBound <= p => p >= LowerBound
      BY <1>1
    <3> QED
      BY <1>2, <3>1, <3>2, <3>3, <3>4 DEF FreeIn
  <2> QED
    BY <2>3, <2>4, <2>5
<1>11. ASSUME NEW i \in 1 .. 1, NEW m \in n + 1 .. Len(map), map[m].start > LowerBound
       PROVE  r[i].base < map[m].start
  BY <1>1, <1>3, <1>5, <1>9, <1>11
<1>12. r[1].base = LowerBound /\ \E j \in 1 .. n : map[j].usable
  BY <1>2, <1>5, <1>9
<1>13. Listed(map, n, r)
  BY <1>9, <1>10, <1>11, <1>12 DEF Listed
<1> QED
  BY <1>7, <1>8, <1>13 DEF b

\* The sums along what the loop adds to available.
LEMMA AddedTyped ==
  ASSUME NEW map \in MemoryMaps
  PROVE  /\ Added(map) \in Seq(Block) /\ Len(Added(map)) = Len(map)
         /\ \A n \in 1 .. Len(map) :
              Added(map)[n].length = IF map[n].usable THEN BlockOf(map[n]).length ELSE 0
<1>1. Len(map) \in Nat
  <2>1. map \in Seq(Descriptor)
    BY PageAllocAssumption
  <2> QED
    BY <2>1
<1> DEFINE F(n) == IF map[n].usable THEN BlockOf(map[n])
                   ELSE [base |-> 0, length |-> 0]
<1>2. \A n \in 1 .. Len(map) :
        /\ F(n) \in Block
        /\ F(n).length = IF map[n].usable THEN BlockOf(map[n]).length ELSE 0
  <2>1. [base |-> 0, length |-> 0] \in Block
    BY DEF Block
  <2> QED
    BY <2>1, BlockOfFacts
<1>3. Added(map) = [n \in 1 .. Len(map) |-> F(n)]
  BY DEF Added
<1> HIDE DEF F
<1> QED
  BY <1>1, <1>2, <1>3

\* What page_alloc_init leaves: the pages of the memory map, in order, when the
\* lower bound is inside the last descriptor at it, and as many as it counted
\* when no other is there.
LEMMA BootFacts ==
  ASSUME NEW map \in MemoryMaps
  PROVE  /\ BlocksOf(map) \in Seq(Block)
         /\ BoundInside(map) => /\ Ordered(BlocksOf(map))
                                /\ PagesIn(BlocksOf(map)) = FreeAtBoot(map)
         /\ FreeAtBoot(map) \subseteq 0 .. MemoryEnd - 1
         /\ TotalLength(Added(map)) \in Int
         /\ ~ Pinned(map) => TotalLength(Added(map)) = TotalLength(BlocksOf(map))
<1> DEFINE N == Len(map)
           Put(n, q) == IF map[n].usable THEN Linked(q, BlockOf(map[n])) ELSE q
           Step(h) == [n \in 0 .. N |-> IF n = 0 THEN <<>> ELSE Put(n, h[n - 1])]
           listed == CHOOSE h : h = Step(h)
           g == [n \in 1 .. N |-> [q \in Seq(Block) |-> Put(n, q)]]
<1>1. N \in Nat
  <2>1. map \in Seq(Descriptor)
    BY PageAllocAssumption
  <2> QED
    BY <2>1
<1>2. BlocksOf(map) = listed[N]
  BY DEF BlocksOf
<1>3. \E h : h = Step(h)
  <2>1. ASSUME NEW n \in 1 .. N, NEW q \in Seq(Block) PROVE Put(n, q) \in Seq(Block)
    <3>1. PICK c \in Block : c = BlockOf(map[n])
      BY BlockOfFacts
    <3>2. Append(q, c) \in Seq(Block)
      BY AppendFacts
    <3>3. CASE q # <<>>
      <4>1. Len(q) \in 1 .. Len(q)
        BY <3>3
      <4>2. Replaced(q, Len(q), c) \in Seq(Block)
        BY <4>1, ReplacedFacts
      <4> QED
        BY <3>1, <3>2, <4>2 DEF Linked, Replaced
    <3>4. CASE q = <<>>
      BY <3>1, <3>2, <3>4 DEF Linked
    <3> QED
      BY <3>3, <3>4
  <2> HIDE DEF Put
  <2>2. <<>> \in Seq(Block) /\ Steps(N, Seq(Block), g)
    BY <2>1 DEF Steps
  <2>3. PICK F : Recursion(N, Seq(Block), <<>>, g, F)
    BY <1>1, <2>2, RecursionExists, Zenon
  <2>4. /\ F \in [0 .. N -> Seq(Block)] /\ F[0] = <<>>
        /\ \A n \in 1 .. N : F[n] = g[n][F[n - 1]]
    BY <2>3 DEF Recursion
  <2>5. ASSUME NEW n \in 1 .. N PROVE F[n] = Put(n, F[n - 1])
    <3>1. F[n - 1] \in Seq(Block)
      BY <1>1, <2>4
    <3> QED
      BY <2>4, <3>1
  <2>6. \A n \in 0 .. N : n # 0 => n \in 1 .. N
    BY <1>1
  <2>7. F = Step(F)
    BY <2>4, <2>5, <2>6
  <2> HIDE DEF Step
  <2> QED
    BY <2>7
<1>4. listed = Step(listed)
  <2> HIDE DEF Step
  <2> QED
    BY <1>3
<1> HIDE DEF listed, Put
<1>5. /\ listed[0] = <<>>
      /\ \A n \in 1 .. N : listed[n] = Put(n, listed[n - 1])
  BY <1>1, <1>4
<1>6. PICK f : PagesSum(Added(map), f)
  BY AddedTyped, SumExists
<1>7. /\ f[0] = 0 /\ f[N] \in Int
      /\ \A n \in 1 .. N :
           f[n] = f[n - 1] + (IF map[n].usable THEN BlockOf(map[n]).length ELSE 0)
      /\ \A n \in 0 .. N : f[n] \in Int
  BY <1>1, <1>6, AddedTyped DEF PagesSum
<1>8. TotalLength(Added(map)) = f[N]
  BY <1>6, AddedTyped, TotalIsSum
<1> DEFINE H == {n \in 0 .. N :
                   /\ Listed(map, n, listed[n])
                   /\ ~ Pinned(map) => TotalLength(listed[n]) = f[n]}
<1>9. 0 \in H
  <2>1. <<>> \in Seq(Block) /\ 1 .. Len(<<>>) = {} /\ 1 .. 0 = {}
    OBVIOUS
  <2>2. \A p : p \notin PagesIn(<<>>)
    BY <2>1, InPages
  <2>3. Ordered(<<>>)
    BY <2>1 DEF Ordered
  <2>4. Listed(map, 0, <<>>)
    BY <2>1, <2>2, <2>3 DEF Listed, FreeIn
  <2> QED
    BY <1>1, <1>5, <1>7, <2>4, TotalEmpty
<1>10. ASSUME NEW n \in 1 .. N, n - 1 \in H PROVE n \in H
  <2> DEFINE q == listed[n - 1]
  <2>1. /\ Listed(map, n - 1, q) /\ n \in 0 .. N /\ listed[n] = Put(n, q)
        /\ ~ Pinned(map) => TotalLength(q) = f[n - 1]
        /\ f[n - 1] \in Int
    BY <1>1, <1>5, <1>7, <1>10
  <2> HIDE DEF q
  <2>2. CASE ~ map[n].usable
    <3>1. listed[n] = q /\ Listed(map, n, q)
      BY <2>1, <2>2, ListedUnusable DEF Put
    <3>2. f[n] = f[n - 1]
      BY <1>7, <2>1, <2>2
    <3> QED
      BY <2>1, <3>1, <3>2
  <2>3. CASE map[n].usable
    <3>1. /\ Listed(map, n, listed[n])
          /\ ~ Pinned(map) => listed[n] = Append(q, BlockOf(map[n]))
      <4>1. listed[n] = Linked(q, BlockOf(map[n]))
        BY <2>1, <2>3 DEF Put
      <4>2. CASE map[n].start > LowerBound
        BY <2>1, <2>3, <4>1, <4>2, ListedAbove
      <4>3. CASE ~ (map[n].start > LowerBound)
        <5>1. map[n].start <= LowerBound
          BY <4>3, DescriptorFacts, PageAllocAssumption
        <5> QED
          BY <2>1, <2>3, <4>1, <5>1, ListedAtBound
      <4> QED
        BY <4>2, <4>3
    <3>2. ASSUME ~ Pinned(map) PROVE TotalLength(listed[n]) = f[n]
      <4>1. q \in Seq(Block)
        BY <2>1 DEF Listed
      <4>2. TotalLength(listed[n]) = TotalLength(q) + BlockOf(map[n]).length
        BY <3>1, <3>2, <4>1, BlockOfFacts, TotalAppended
      <4> QED
        BY <1>7, <2>1, <2>3, <3>2, <4>2
    <3> QED
      BY <2>1, <3>1, <3>2
  <2> QED
    BY <2>2, <2>3
<1>11. N \in H
  <2>1. \A n \in 0 .. N : n \in H
    <3> HIDE DEF H
    <3> QED
      BY <1>1, <1>9, <1>10, Stepwise
  <2> QED
    BY <1>1, <2>1
<1>12. /\ Listed(map, N, BlocksOf(map))
       /\ ~ Pinned(map) => TotalLength(BlocksOf(map)) = f[N]
  BY <1>2, <1>11
<1>13. ASSUME NEW p PROVE p \in FreeAtBoot(map) <=> FreeIn(map, N, p)
  BY DescriptorFacts DEF FreeAtBoot, FreeIn
<1>14. BoundInside(map) => Reaches(map, N)
  <2>1. \A i \in AtBound(map) : i <= N
    BY <1>1 DEF AtBound
  <2> QED
    BY <2>1 DEF BoundInside, Reaches
<1>15. BoundInside(map) => PagesIn(BlocksOf(map)) = FreeAtBoot(map)
  BY <1>12, <1>13, <1>14 DEF Listed
<1>16. ASSUME NEW p \in FreeAtBoot(map) PROVE p \in 0 .. MemoryEnd - 1
  <2>1. p \in Nat /\ \E k \in 1 .. N : map[k].start <= p /\ p < DescriptorEnd(map[k])
    BY <1>13 DEF FreeIn
  <2>2. PICK j \in 1 .. N : map[j].start <= p /\ p < DescriptorEnd(map[j])
    BY <2>1
  <2>3. DescriptorEnd(map[j]) \in Nat /\ DescriptorEnd(map[j]) <= MemoryEnd
    BY DescriptorFacts
  <2> QED
    BY <2>1, <2>2, <2>3, PageAllocAssumption
<1> QED
  BY <1>7, <1>8, <1>12, <1>14, <1>15, <1>16 DEF Listed
-----------------------------------------------------------------------------
\* Behind the cursor of __page_merge, and everywhere once it is done, no two
\* blocks adjoin.
Merged ==
  /\ pc = "merge" => \A i \in 1 .. it - 1 : ~ Adjoins(i)
  /\ pc = "retry" => \A i \in 1 .. Len(mm_list) : ~ Adjoins(i)

\* The list and what callers hold have the pages of the memory map.
Partition ==
  /\ PagesIn(mm_list) \cup UNION {PagesOf(h) : h \in held} = boot
  /\ \A h \in held : PagesOf(h) \cap PagesIn(mm_list) = {}
  /\ \A g, h \in held : g = h \/ PagesOf(g) \cap PagesOf(h) = {}

\* The list and what callers hold, without the merge pass.
PoolInv ==
  /\ mm_list \in Seq(Block) /\ Ordered(mm_list)
  /\ available = TotalLength(mm_list) + Overcount(memory_map)
  /\ memory_map \in MemoryMaps
  /\ Partition
  /\ held \subseteq Block
  /\ \A h \in held : h.length > 0

\* For a map whose lower bound is in a descriptor, until a block is given that
\* stays; of the others only the types are known.
IInv ==
  /\ TypeOK
  /\ pc = "idle" => it = 1
  /\ pc \in {"merge", "retry"} => want > 0
  /\ Intact => PoolInv /\ Merged

LEMMA InPagesOf ==
  ASSUME NEW b \in Block
  PROVE  /\ \A p : p \in PagesOf(b) <=> p \in Nat /\ b.base <= p /\ p < End(b)
         /\ b.base \in Nat /\ b.length \in Nat /\ End(b) = b.base + b.length
         /\ b.length > 0 => b.base \in PagesOf(b) /\ End(b) - 1 \in PagesOf(b)
<1>1. /\ b.base \in Nat /\ b.length \in Nat /\ End(b) = b.base + b.length
  BY DEF Block, End
<1> QED
  BY <1>1 DEF PagesOf

LEMMA UnionPlus ==
  ASSUME NEW H, NEW g
  PROVE  UNION {PagesOf(h) : h \in H \cup {g}}
           = (UNION {PagesOf(h) : h \in H}) \cup PagesOf(g)
OBVIOUS

\* What is known of the memory map, and of the list at Init.
LEMMA MapFacts ==
  ASSUME memory_map \in MemoryMaps
  PROVE  /\ boot \subseteq 0 .. MemoryEnd - 1
         /\ Overcount(memory_map) \in Int
         /\ ~ Pinned(memory_map) => Overcount(memory_map) = 0
<1>1. /\ BlocksOf(memory_map) \in Seq(Block)
      /\ FreeAtBoot(memory_map) \subseteq 0 .. MemoryEnd - 1
      /\ TotalLength(Added(memory_map)) \in Int
      /\ ~ Pinned(memory_map) =>
           TotalLength(Added(memory_map)) = TotalLength(BlocksOf(memory_map))
  BY BootFacts
<1>2. TotalLength(BlocksOf(memory_map)) \in Int
  BY <1>1, TotalTyped
<1> QED
  BY <1>1, <1>2 DEF boot, Overcount

LEMMA InitInv == Init => IInv
<1> SUFFICES ASSUME Init PROVE IInv
  OBVIOUS
<1>1. /\ memory_map \in MemoryMaps /\ mm_list = BlocksOf(memory_map)
      /\ available = TotalLength(Added(memory_map))
      /\ held = {} /\ pc = "idle" /\ it = 1 /\ want = 0
  BY DEF Init
<1>2. /\ mm_list \in Seq(Block)
      /\ BoundInside(memory_map) => /\ Ordered(mm_list)
                                    /\ PagesIn(mm_list) = FreeAtBoot(memory_map)
      /\ TotalLength(Added(memory_map)) \in Int
  BY <1>1, BootFacts
<1>3. TypeOK
  BY <1>1, <1>2 DEF TypeOK
<1>4. ASSUME Intact PROVE PoolInv
  <2>1. BoundInside(memory_map)
    BY <1>4 DEF Intact
  <2>2. Partition
    BY <1>1, <1>2, <2>1 DEF Partition, boot
  <2>3. available = TotalLength(mm_list) + Overcount(memory_map)
    <3>1. TotalLength(mm_list) \in Int /\ TotalLength(BlocksOf(memory_map)) \in Int
      BY <1>1, <1>2, TotalTyped
    <3> QED
      BY <1>1, <1>2, <3>1 DEF Overcount
  <2> QED
    BY <1>1, <1>2, <2>1, <2>2, <2>3 DEF PoolInv
<1> QED
  BY <1>1, <1>3, <1>4 DEF IInv, Merged

\* An allocation keeps the types, whatever the list.
LEMMA AllocateTyped ==
  ASSUME TypeOK, NEW size \in Nat, Allocate(size)
  PROVE  /\ mm_list' \in Seq(Block) /\ available' \in Int /\ held' \subseteq Block
         /\ pc' \in {"idle", "astray"}
<1>1. PICK i \in 1 .. Len(mm_list) :
        /\ FirstFit(i, size)
        /\ mm_list' = Shortened(i, size)
        /\ available' = Charged(size)
        /\ held' = held \cup {[base |-> Given(mm_list[i], size), length |-> size]}
        /\ pc' \in {"idle", "astray"}
  BY DEF Allocate
<1>2. /\ mm_list \in Seq(Block) /\ available \in Int /\ held \subseteq Block
  BY DEF TypeOK
<1>3. /\ mm_list[i] \in Block /\ mm_list[i].length \in Nat /\ mm_list[i].base \in Nat
      /\ mm_list[i].length >= size
  BY <1>1, <1>2, BlockFacts DEF FirstFit
<1>4. mm_list' \in Seq(Block)
  <2>1. RemoveAt(mm_list, i) \in Seq(Block)
    BY <1>2, RemoveFacts
  <2>2. Replaced(mm_list, i, Resized(mm_list[i], mm_list[i].length - size)) \in Seq(Block)
    <3>1. Resized(mm_list[i], mm_list[i].length - size) \in Block
      <4>1. mm_list[i].length - size \in Nat
        BY <1>3
      <4> QED
        BY <1>3, <4>1, ResizedFacts
    <3> QED
      BY <1>2, <3>1, ReplacedFacts
  <2> QED
    BY <1>1, <1>2, <2>1, <2>2 DEF Shortened, Replaced, Resized
<1>5. Given(mm_list[i], size) \in Nat
  <2>1. PICK x \in Int : x = mm_list[i].base + mm_list[i].length - size
    BY <1>3
  <2>2. Wrap \in Nat /\ Wrap > 0
    BY PageAllocAssumption
  <2>3. \A y, w \in Int : w > 0 => y % w \in Nat
    OBVIOUS
  <2> QED
    BY <2>1, <2>2, <2>3 DEF Given
<1>6. available' \in Int
  BY <1>1, <1>2 DEF Charged
<1>7. held' \subseteq Block
  BY <1>1, <1>2, <1>5 DEF Block
<1> QED
  BY <1>1, <1>4, <1>6, <1>7

\* An allocation gives pages of the list, which no caller holds.  Unless the
\* block stays, the list has no longer what it gives.
LEMMA AllocateFacts ==
  ASSUME PoolInv, NEW size \in Nat, size > 0, Allocate(size),
         memory_map' = memory_map
  PROVE  /\ pc' # "astray" => PoolInv'
         /\ \E g \in Block :
              /\ g.length = size /\ g \notin held /\ held' = held \cup {g}
              /\ End(g) <= MemoryEnd
              /\ \A h \in held : PagesOf(g) \cap PagesOf(h) = {}
<1>1. PICK i \in 1 .. Len(mm_list) :
        /\ FirstFit(i, size)
        /\ mm_list' = Shortened(i, size)
        /\ available' = Charged(size)
        /\ held' = held \cup {[base |-> Given(mm_list[i], size), length |-> size]}
        /\ Stays(mm_list[i], size) => pc' = "astray"
  BY DEF Allocate
<1>2. /\ mm_list \in Seq(Block) /\ Ordered(mm_list)
      /\ available = TotalLength(mm_list) + Overcount(memory_map)
      /\ memory_map \in MemoryMaps
      /\ held \subseteq Block /\ \A h \in held : h.length > 0
      /\ boot \subseteq 0 .. MemoryEnd - 1
  BY MapFacts DEF PoolInv
<1>3. /\ mm_list[i].length >= size /\ mm_list[i] \in Block
      /\ mm_list[i].base \in Nat /\ mm_list[i].length \in Nat
      /\ End(mm_list[i]) = mm_list[i].base + mm_list[i].length
  BY <1>1, <1>2, BlockFacts DEF FirstFit
<1>4. /\ PagesIn(mm_list) \cup UNION {PagesOf(h) : h \in held} = boot
      /\ \A h \in held : PagesOf(h) \cap PagesIn(mm_list) = {}
      /\ \A h, k \in held : h = k \/ PagesOf(h) \cap PagesOf(k) = {}
  BY DEF PoolInv, Partition
<1>5. End(mm_list[i]) <= MemoryEnd
  <2>1. PICK e \in Nat : e = End(mm_list[i]) - 1
    BY <1>2, <1>3 DEF Ordered
  <2>2. e \in PagesIn(mm_list)
    <3>1. mm_list[i].base <= e /\ e < End(mm_list[i])
      BY <1>2, <1>3, <2>1 DEF Ordered
    <3> QED
      BY <1>2, <3>1, InPages
  <2>3. e \in 0 .. MemoryEnd - 1
    BY <1>2, <1>4, <2>2
  <2> QED
    BY <1>3, <2>1, <2>3, PageAllocAssumption
<1> DEFINE first == Given(mm_list[i], size)
           g == [base |-> first, length |-> size]
<1>6. /\ first \in Nat /\ first + size = End(mm_list[i])
      /\ mm_list[i].base <= first
  BY <1>3, <1>5, GivenFacts
<1>7. ASSUME ~ Stays(mm_list[i], size)
      PROVE  /\ mm_list' \in Seq(Block) /\ Ordered(mm_list')
             /\ TotalLength(mm_list') = TotalLength(mm_list) - size
             /\ \A p : p \in PagesIn(mm_list') <=>
                  p \in PagesIn(mm_list) /\ ~ (first <= p /\ p < End(mm_list[i]))
  BY <1>1, <1>2, <1>3, <1>5, <1>7, ShortenedFacts
<1> HIDE DEF first
<1>8. /\ g \in Block /\ g.base = first /\ g.length = size
  BY <1>6 DEF Block
<1>9. held' = held \cup {g}
  BY <1>1 DEF first
<1> HIDE DEF g
<1>10. End(g) = End(mm_list[i])
  BY <1>6, <1>8 DEF End
<1>11. \A p : p \in PagesOf(g) <=> p \in Nat /\ first <= p /\ p < End(mm_list[i])
  BY <1>8, <1>10, InPagesOf
<1>12. PagesOf(g) \subseteq PagesIn(mm_list)
  <2>1. ASSUME NEW p \in PagesOf(g) PROVE p \in PagesIn(mm_list)
    <3>1. p \in Nat /\ mm_list[i].base <= p /\ p < End(mm_list[i])
      BY <1>3, <1>6, <1>11
    <3> QED
      BY <1>2, <3>1, InPages
  <2> QED
    BY <2>1
<1>13. \A h \in held : PagesOf(g) \cap PagesOf(h) = {}
  BY <1>4, <1>12
<1>14. g \notin held
  <2>1. PagesOf(g) # {}
    BY <1>8, InPagesOf
  <2> QED
    BY <1>13, <2>1
<1>15. ASSUME ~ Stays(mm_list[i], size) PROVE PoolInv'
  <2>1. PagesIn(mm_list') = PagesIn(mm_list) \ PagesOf(g)
    <3>1. \A p : p \in PagesIn(mm_list) => p \in Nat
      BY <1>2, InPages
    <3> QED
      BY <1>7, <1>11, <1>15, <3>1
  <2>2. boot' = boot
    BY DEF boot
  <2>3. Partition'
    <3>1. UNION {PagesOf(h) : h \in held'}
            = (UNION {PagesOf(h) : h \in held}) \cup PagesOf(g)
      BY <1>9, UnionPlus
    <3>2. PagesIn(mm_list') \cup UNION {PagesOf(h) : h \in held'} = boot
      <4> DEFINE B == UNION {PagesOf(h) : h \in held}
      <4>1. UNION {PagesOf(h) : h \in held'} = B \cup PagesOf(g)
        BY <3>1
      <4>2. PagesIn(mm_list) \cup B = boot
        BY <1>4
      <4> HIDE DEF B
      <4> QED
        BY <1>12, <2>1, <4>1, <4>2
    <3>3. \A h \in held' : PagesOf(h) \cap PagesIn(mm_list') = {}
      BY <1>4, <1>9, <2>1
    <3>4. \A h, k \in held' : h = k \/ PagesOf(h) \cap PagesOf(k) = {}
      BY <1>4, <1>9, <1>13
    <3> QED
      BY <2>2, <3>2, <3>3, <3>4 DEF Partition
  <2>4. available' = TotalLength(mm_list') + Overcount(memory_map)
    <3>1. TotalLength(mm_list) \in Int /\ Overcount(memory_map) \in Int
      BY <1>2, TotalTyped, MapFacts
    <3> QED
      BY <1>1, <1>2, <1>7, <1>15, <3>1 DEF Charged
  <2>5. \A h \in held' : h \in Block /\ h.length > 0
    BY <1>2, <1>8, <1>9
  <2> QED
    BY <1>2, <1>7, <1>15, <2>3, <2>4, <2>5 DEF PoolInv
<1> QED
  BY <1>1, <1>5, <1>8, <1>9, <1>10, <1>13, <1>14, <1>15

LEMMA AllocInv ==
  ASSUME IInv, NEW size \in Sizes, Alloc(size)
  PROVE  IInv'
<1>1. /\ TypeOK /\ pc = "idle" /\ it = 1 /\ size > 0 /\ size \in Nat
      /\ memory_map' = memory_map
      /\ Intact => PoolInv
  BY PageAllocAssumption DEF IInv, Alloc
<1>2. CASE Allocate(size) /\ UNCHANGED <<it, want>>
  <2>1. /\ mm_list' \in Seq(Block) /\ available' \in Int /\ held' \subseteq Block
        /\ pc' \in {"idle", "astray"}
    BY <1>1, <1>2, AllocateTyped
  <2>2. TypeOK'
    BY <1>1, <1>2, <2>1 DEF TypeOK
  <2>3. ASSUME Intact' PROVE PoolInv' /\ Merged'
    <3>1. Intact /\ pc' = "idle"
      BY <1>1, <2>1, <2>3 DEF Intact
    <3>2. PoolInv'
      BY <1>1, <1>2, <3>1, AllocateFacts
    <3> QED
      BY <3>1, <3>2 DEF Merged
  <2> QED
    BY <1>1, <1>2, <2>1, <2>2, <2>3 DEF IInv
<1>3. CASE /\ pc' = "merge" /\ it' = 1 /\ want' = size
           /\ UNCHANGED <<mm_list, available, held>>
  <2>1. TypeOK'
    BY <1>1, <1>3 DEF TypeOK
  <2>2. ASSUME Intact' PROVE PoolInv' /\ Merged'
    <3>1. PoolInv
      BY <1>1, <2>2 DEF Intact
    <3>2. PoolInv'
      BY <1>1, <1>3, <3>1 DEF PoolInv, Partition, boot
    <3> QED
      BY <1>3, <3>2 DEF Merged
  <2> QED
    BY <1>1, <1>3, <2>1, <2>2 DEF IInv
<1> QED
  BY <1>2, <1>3 DEF Alloc

\* A join keeps the types, whatever the list.
LEMMA JoinTyped ==
  ASSUME TypeOK, Join
  PROVE  TypeOK'
<1>1. /\ mm_list \in Seq(Block) /\ it \in Nat /\ it > 0 /\ Len(mm_list) \in Nat
      /\ it < Len(mm_list)
      /\ mm_list' = RemoveAt([mm_list EXCEPT ![it].length = JoinedLength(it)], it + 1)
      /\ UNCHANGED <<available, held, pc, it, want, memory_map>>
  BY DEF TypeOK, Join, Adjoins
<1>2. it \in 1 .. Len(mm_list) /\ it + 1 \in 1 .. Len(mm_list)
  BY <1>1
<1>3. Resized(mm_list[it], JoinedLength(it)) \in Block
  <2>1. /\ mm_list[it] \in Block /\ mm_list[it].length \in Nat
        /\ mm_list[it + 1].length \in Nat
    BY <1>1, <1>2, BlockFacts
  <2>2. JoinedLength(it) \in Nat
    BY <2>1 DEF JoinedLength
  <2> QED
    BY <2>1, <2>2, ResizedFacts
<1> DEFINE r == Replaced(mm_list, it, Resized(mm_list[it], JoinedLength(it)))
<1>4. r \in Seq(Block) /\ Len(r) = Len(mm_list)
  BY <1>1, <1>2, <1>3, ReplacedFacts
<1>5. mm_list' = RemoveAt(r, it + 1)
  BY <1>1 DEF Replaced, Resized
<1> HIDE DEF r
<1>6. mm_list' \in Seq(Block) /\ Len(mm_list') = Len(mm_list) - 1
  BY <1>2, <1>4, <1>5, RemoveFacts
<1> QED
  BY <1>1, <1>6 DEF TypeOK

LEMMA JoinInv ==
  ASSUME IInv, Join
  PROVE  IInv'
<1>1. /\ TypeOK /\ pc = "merge" /\ want > 0
      /\ UNCHANGED <<available, held, pc, it, want, memory_map>>
  BY DEF IInv, Join
<1>2. TypeOK'
  BY <1>1, JoinTyped
<1>3. ASSUME Intact' PROVE PoolInv' /\ Merged'
  <2>1. PoolInv /\ Merged
    BY <1>1, <1>3 DEF Intact, IInv
  <2>2. /\ mm_list \in Seq(Block) /\ Ordered(mm_list) /\ it \in Nat /\ it > 0
        /\ Len(mm_list) \in Nat
    BY <1>1, <2>1 DEF TypeOK, PoolInv
  <2>3. it < Len(mm_list) /\ End(mm_list[it]) = mm_list[it + 1].base
    BY DEF Join, Adjoins
  <2>4. mm_list' = Merge(mm_list, it)
    BY DEF Join, Merge, JoinedLength
  <2>5. it \in 1 .. Len(mm_list) - 1
    BY <2>2, <2>3
  <2>6. /\ mm_list' \in Seq(Block) /\ Len(mm_list') = Len(mm_list) - 1
        /\ Ordered(mm_list')
        /\ TotalLength(mm_list') = TotalLength(mm_list)
        /\ \A p : p \in PagesIn(mm_list') <=> p \in PagesIn(mm_list)
        /\ \A n \in 1 .. it - 1 : mm_list'[n] = mm_list[n]
        /\ mm_list'[it].base = mm_list[it].base
    BY <2>2, <2>3, <2>4, <2>5, JoinedFacts
  <2>7. PagesIn(mm_list') = PagesIn(mm_list)
    BY <2>6
  <2>8. PoolInv'
    BY <1>1, <2>1, <2>6, <2>7 DEF PoolInv, Partition, boot
  <2>9. ASSUME NEW i \in 1 .. it - 1
        PROVE  ~ Adjoins(i)'
    <3>1. i < Len(mm_list) /\ ~ Adjoins(i) /\ i \in Nat
      BY <1>1, <2>1, <2>2, <2>3 DEF Merged
    <3>2. End(mm_list[i]) # mm_list[i + 1].base
      BY <3>1 DEF Adjoins
    <3>3. mm_list'[i] = mm_list[i] /\ mm_list'[i + 1].base = mm_list[i + 1].base
      <4>1. i + 1 = it \/ i + 1 \in 1 .. it - 1
        BY <2>2
      <4> QED
        BY <2>6, <4>1
    <3> QED
      BY <3>2, <3>3 DEF Adjoins
  <2> QED
    BY <1>1, <2>8, <2>9 DEF Merged
<1> QED
  BY <1>1, <1>2, <1>3 DEF IInv

LEMMA AdvanceInv ==
  ASSUME IInv, Advance
  PROVE  IInv'
<1>1. /\ TypeOK /\ pc = "merge" /\ want > 0 /\ ~ Adjoins(it)
      /\ UNCHANGED <<mm_list, available, held, want, memory_map>>
  BY DEF IInv, Advance, StepsOn
<1>2. it \in Nat /\ it > 0 /\ Len(mm_list) \in Nat
  BY <1>1 DEF TypeOK
<1>3. ASSUME Intact' PROVE PoolInv' /\ Merged
  <2>1. PoolInv /\ Merged
    BY <1>1, <1>3 DEF Intact, IInv
  <2> QED
    BY <1>1, <2>1 DEF PoolInv, Partition, boot
<1>4. Merged => \A i \in 1 .. it : ~ Adjoins(i)
  <2>1. \A i \in 1 .. it : i \in 1 .. it - 1 \/ i = it
    BY <1>2
  <2> QED
    BY <1>1, <2>1 DEF Merged
<1>5. \A i : Adjoins(i)' <=> Adjoins(i)
  BY <1>1 DEF Adjoins
<1>6. CASE it < Len(mm_list) /\ it' = it + 1 /\ UNCHANGED pc
  <2>1. TypeOK'
    BY <1>1, <1>2, <1>6 DEF TypeOK
  <2>2. 1 .. it' - 1 = 1 .. it
    BY <1>2, <1>6
  <2>3. Merged => Merged'
    BY <1>1, <1>4, <1>5, <1>6, <2>2 DEF Merged
  <2> QED
    BY <1>1, <1>3, <1>6, <2>1, <2>3 DEF IInv
<1>7. CASE ~ (it < Len(mm_list)) /\ pc' = "retry" /\ UNCHANGED it
  <2>1. TypeOK'
    BY <1>1, <1>2, <1>7 DEF TypeOK
  <2>2. 1 .. Len(mm_list') \subseteq 1 .. it
    BY <1>1, <1>2, <1>7
  <2>3. Merged => Merged'
    BY <1>4, <1>5, <1>7, <2>2 DEF Merged
  <2> QED
    BY <1>1, <1>3, <1>7, <2>1, <2>3 DEF IInv
<1> QED
  BY <1>6, <1>7 DEF Advance

LEMMA RetryInv ==
  ASSUME IInv, Retry
  PROVE  IInv'
<1>1. /\ TypeOK /\ pc = "retry" /\ want > 0 /\ want \in Nat
      /\ it' = 1 /\ want' = 0 /\ memory_map' = memory_map
  BY DEF IInv, Retry, TypeOK
<1>2. CASE Allocate(want)
  <2>1. /\ mm_list' \in Seq(Block) /\ available' \in Int /\ held' \subseteq Block
        /\ pc' \in {"idle", "astray"}
    BY <1>1, <1>2, AllocateTyped
  <2>2. TypeOK'
    BY <1>1, <2>1 DEF TypeOK
  <2>3. ASSUME Intact' PROVE PoolInv' /\ Merged'
    <3>1. PoolInv /\ pc' = "idle"
      BY <1>1, <2>1, <2>3 DEF Intact, IInv
    <3>2. PoolInv'
      BY <1>1, <1>2, <3>1, AllocateFacts
    <3> QED
      BY <3>1, <3>2 DEF Merged
  <2> QED
    BY <1>1, <2>1, <2>2, <2>3 DEF IInv
<1>3. CASE pc' = "idle" /\ UNCHANGED <<mm_list, available, held>>
  <2>1. TypeOK'
    BY <1>1, <1>3 DEF TypeOK
  <2>2. ASSUME Intact' PROVE PoolInv' /\ Merged'
    <3>1. PoolInv
      BY <1>1, <2>2 DEF Intact, IInv
    <3>2. PoolInv'
      BY <1>1, <1>3, <3>1 DEF PoolInv, Partition, boot
    <3> QED
      BY <1>3, <3>2 DEF Merged
  <2> QED
    BY <1>1, <1>3, <2>1, <2>2 DEF IInv
<1> QED
  BY <1>2, <1>3 DEF Retry

LEMMA NextInv == IInv /\ [Next]_vars => IInv'
<1> SUFFICES ASSUME IInv, [Next]_vars PROVE IInv'
  OBVIOUS
<1>1. CASE UNCHANGED vars
  BY <1>1 DEF vars, IInv, Intact, PoolInv, TypeOK, Partition, boot, Merged, Adjoins
<1> QED
  BY <1>1, AllocInv, JoinInv, AdvanceInv, RetryInv DEF Next, Stopped

LEMMA Invariance == Spec => []IInv
<1> QED
  BY InitInv, NextInv, PTL DEF Spec

\* No page is given twice, lost, or given that is not the kernel's to give,
\* whatever callers ask for and whatever memory the firmware describes with the
\* lower bound inside the last usable descriptor at it: until a block that
\* list_del does not take out is given whole.
THEOREM PagesCorrect == Spec => []PagesKept
<1>1. IInv => PagesKept
  BY DEF IInv, PoolInv, Partition, PagesKept
<1> QED
  BY <1>1, Invariance, PTL

\* What __page_consistency_check tests holds after every call: the blocks are in
\* order, none is empty, and available counts their pages, besides those that
\* page_alloc_init counted of descriptors below the lower bound.  The types hold
\* of every memory map.
THEOREM ConsistentCorrect == Spec => []Consistent
<1>1. ASSUME IInv PROVE Consistent
  <2>1. TypeOK /\ memory_map \in MemoryMaps
    BY <1>1 DEF IInv, TypeOK
  <2>2. ASSUME Intact
        PROVE  /\ Ordered(mm_list)
               /\ available = TotalLength(mm_list) + Overcount(memory_map)
               /\ ~ Pinned(memory_map) => available = TotalLength(mm_list)
    <3>1. /\ mm_list \in Seq(Block) /\ Ordered(mm_list)
          /\ available = TotalLength(mm_list) + Overcount(memory_map)
      BY <1>1, <2>2 DEF IInv, PoolInv
    <3>2. TotalLength(mm_list) \in Int
      BY <3>1, TotalTyped
    <3>3. ~ Pinned(memory_map) => Overcount(memory_map) = 0
      BY <2>1, MapFacts
    <3> QED
      BY <3>1, <3>2, <3>3
  <2> QED
    BY <2>1, <2>2 DEF Consistent, Ordered
<1>2. IInv => Consistent
  BY <1>1
<1> QED
  BY <1>2, Invariance, PTL
-----------------------------------------------------------------------------
\* When no two blocks adjoin, a run of free pages lies in one block.
LEMMA RunInBlock ==
  ASSUME mm_list \in Seq(Block), Ordered(mm_list),
         \A i \in 1 .. Len(mm_list) : ~ Adjoins(i),
         NEW size \in Nat, size > 0, NothingFits(size),
         NEW p \in Nat, p .. p + size - 1 \subseteq PagesIn(mm_list)
  PROVE  FALSE
<1>1. PICK i \in 1 .. Len(mm_list) : mm_list[i].base <= p /\ p < End(mm_list[i])
  <2>1. p \in PagesIn(mm_list)
    OBVIOUS
  <2> QED
    BY <2>1, InPages
<1>2. /\ mm_list[i].base \in Nat /\ mm_list[i].length \in Nat
      /\ End(mm_list[i]) \in Nat
      /\ End(mm_list[i]) = mm_list[i].base + mm_list[i].length
  BY BlockFacts
<1>3. mm_list[i].length < size
  BY DEF NothingFits
<1> DEFINE e == End(mm_list[i])
<1>4. e \in p .. p + size - 1
  BY <1>1, <1>2, <1>3
<1>5. PICK j \in 1 .. Len(mm_list) : mm_list[j].base <= e /\ e < End(mm_list[j])
  <2>1. e \in PagesIn(mm_list)
    BY <1>4
  <2> QED
    BY <2>1, InPages
<1>6. /\ mm_list[j].base \in Nat /\ End(mm_list[j]) \in Nat
      /\ i \in Nat /\ j \in Nat /\ Len(mm_list) \in Nat
  BY BlockFacts
<1>7. ~ (j < i)
  <2>1. j < i => End(mm_list[j]) <= mm_list[i].base
    BY DEF Ordered
  <2> QED
    BY <1>1, <1>2, <1>5, <1>6, <2>1
<1>8. i < j
  BY <1>5, <1>6, <1>7
<1>9. mm_list[j].base = e
  <2>1. e <= mm_list[j].base
    BY <1>8 DEF Ordered
  <2> QED
    BY <1>2, <1>5, <1>6, <2>1
<1>10. j # i + 1
  BY <1>6, <1>8, <1>9 DEF Adjoins
<1>11. i + 1 \in 1 .. Len(mm_list) /\ i < i + 1 /\ i + 1 < j
  BY <1>6, <1>8, <1>10
<1>12. e <= mm_list[i + 1].base /\ End(mm_list[i + 1]) <= mm_list[j].base
  BY <1>11 DEF Ordered
<1>13. /\ mm_list[i + 1].base \in Nat /\ mm_list[i + 1].length \in Nat
       /\ mm_list[i + 1].length > 0
       /\ End(mm_list[i + 1]) = mm_list[i + 1].base + mm_list[i + 1].length
  BY <1>11, BlockFacts DEF Ordered
<1> QED
  BY <1>2, <1>9, <1>12, <1>13

\* page_alloc fails only when no run of that many pages is free, on the same
\* memory maps.
THEOREM FailureCorrect == Spec => FailsOnlyWhenFull
<1>1. ASSUME IInv, Next, Intact, pc = "retry", held' = held,
             NEW p \in boot, p .. p + want - 1 \subseteq PagesIn(mm_list)
      PROVE  FALSE
  <2>1. /\ PoolInv /\ want \in Nat /\ want > 0
        /\ \A i \in 1 .. Len(mm_list) : ~ Adjoins(i)
    BY <1>1 DEF IInv, TypeOK, Merged
  <2>2. mm_list \in Seq(Block) /\ Ordered(mm_list) /\ p \in Nat
    BY <1>1, <2>1, MapFacts DEF PoolInv
  <2>3. CASE NothingFits(want)
    BY <1>1, <2>1, <2>2, <2>3, RunInBlock
  <2>4. CASE Retry /\ Allocate(want)
    BY <1>1, <2>1, <2>4, AllocateFacts DEF Retry
  <2> QED
    BY <1>1, <2>3, <2>4 DEF Next, Alloc, Join, Advance, StepsOn, Retry, Stopped
<1>2. IInv /\ [Next]_vars =>
        [Intact /\ pc = "retry" /\ held' = held =>
           \A p \in boot : ~ (p .. p + want - 1 \subseteq PagesIn(mm_list))]_vars
  BY <1>1
<1> QED
  BY <1>2, Invariance, PTL DEF Spec, FailsOnlyWhenFull
-----------------------------------------------------------------------------
\* What callers hold, as buffers of the abstract allocator.
Buffers(H) == {[base |-> h.base, size |-> h.length] : h \in H}
Live == IF BoundInside(memory_map) THEN held ELSE {}

\* An allocation is one of the abstract allocator's.
LEMMA AllocateStep ==
  ASSUME PoolInv, NEW size \in Nat, size > 0, Allocate(size),
         memory_map' = memory_map, BoundInside(memory_map)
  PROVE  Abstract!Next
<1>1. PICK g \in Block :
        /\ g.length = size /\ g \notin held /\ held' = held \cup {g}
        /\ End(g) <= MemoryEnd
        /\ \A h \in held : PagesOf(g) \cap PagesOf(h) = {}
  BY AllocateFacts
<1> DEFINE x == [base |-> g.base, size |-> size]
<1>2. /\ g.base \in Nat /\ End(g) = g.base + size
      /\ \A p : p \in PagesOf(g) <=> p \in Nat /\ g.base <= p /\ p < End(g)
  BY <1>1, InPagesOf
<1>3. g.base \in 0 .. MemoryEnd /\ size \in 1 .. MemoryEnd /\ g.base % 1 = 0
  BY <1>1, <1>2, PageAllocAssumption
<1>4. Buffers(held') = Buffers(held) \cup {x}
  BY <1>1 DEF Buffers
<1>5. ASSUME NEW h \in held
      PROVE  h.base + h.length <= g.base \/ g.base + size <= h.base
  <2>1. h \in Block /\ h.length > 0
    BY DEF PoolInv
  <2>2. /\ h.base \in Nat /\ h.length \in Nat /\ End(h) = h.base + h.length
        /\ \A p : p \in PagesOf(h) <=> p \in Nat /\ h.base <= p /\ p < End(h)
    BY <2>1, InPagesOf
  <2>3. g.base \notin PagesOf(h) \/ g.base \notin PagesOf(g)
    BY <1>1
  <2>4. h.base \notin PagesOf(h) \/ h.base \notin PagesOf(g)
    BY <1>1
  <2> QED
    BY <1>2, <2>1, <2>2, <2>3, <2>4
<1>6. \A y \in Buffers(held) : Abstract!Disjoint(y, x)
  BY <1>5 DEF Buffers, Abstract!Disjoint
<1>7. Abstract!Allocate(g.base, size)
  BY <1>1, <1>2, <1>3, <1>4, <1>6 DEF Abstract!Allocate, Buffers
<1> QED
  BY <1>3, <1>7 DEF Abstract!Next

\* page_alloc hands out only what an allocator may: pages in memory that overlap
\* nothing it has handed out before.  That is so of every memory map with the
\* lower bound inside the last usable descriptor at it, also when it gives a
\* block that stays.
THEOREM AllocatorCorrect == Spec => ImplementsAllocator
<1>1. Init => Abstract!Init
  BY DEF Init, Abstract!Init
<1>2. ASSUME IInv, [Next]_vars
      PROVE  Abstract!Next \/ Buffers(Live') = Buffers(Live)
  <2>1. memory_map' = memory_map
    BY <1>2 DEF Next, Alloc, Join, Advance, Retry, Stopped, vars
  <2>2. CASE held' = held
    BY <2>1, <2>2 DEF Live
  <2>3. CASE ~ BoundInside(memory_map)
    BY <2>1, <2>3 DEF Live
  <2>4. ASSUME BoundInside(memory_map), pc # "astray" PROVE PoolInv
    BY <1>2, <2>4 DEF IInv, Intact
  <2>5. ASSUME BoundInside(memory_map), NEW size \in Sizes, Alloc(size), Allocate(size)
        PROVE  Abstract!Next
    <3>1. PoolInv /\ size \in Nat /\ size > 0
      BY <2>4, <2>5, PageAllocAssumption DEF Alloc
    <3> QED
      BY <2>1, <2>5, <3>1, AllocateStep
  <2>6. CASE BoundInside(memory_map) /\ Retry /\ Allocate(want)
    <3>1. PoolInv /\ want \in Nat /\ want > 0
      BY <1>2, <2>4, <2>6 DEF Retry, IInv, TypeOK
    <3> QED
      BY <2>1, <2>6, <3>1, AllocateStep
  <2> QED
    BY <1>2, <2>2, <2>3, <2>5, <2>6 DEF Next, Alloc, Join, Advance, Retry, Stopped, vars
<1>3. IInv /\ [Next]_vars =>
        [Abstract!Next]_{[base |-> h.base, size |-> h.length] :
                           h \in IF BoundInside(memory_map) THEN held ELSE {}}
  BY <1>2 DEF Buffers, Live
<1> QED
  BY <1>1, <1>3, Invariance, PTL DEF Spec, ImplementsAllocator, Abstract!Spec
=============================================================================
