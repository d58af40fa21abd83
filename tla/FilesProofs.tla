---------------------------- MODULE FilesProofs ----------------------------
(***************************************************************************)
(* Open files, for any number of processes, descriptors, opens and paths:  *)
(* no object is shared or left behind, and the node tree, the contexts and *)
(* the objects implement open files.                                       *)
(***************************************************************************)
EXTENDS Files, WellFoundedInduction, TLAPS

LEMMA LeastNatural ==
  ASSUME NEW T, T \subseteq Nat, T # {}
  PROVE  \E n \in T : \A m \in T : n <= m
<1> DEFINE R == OpToRel(<, Nat)
<1>1. PICK n \in T : \A m \in T : ~ (<<m, n>> \in R)
  <2>1. IsWellFoundedOn(R, Nat)
    BY NatLessThanWellFounded
  <2> HIDE DEF R
  <2> QED
    BY <2>1, WFMin
<1>2. \A m \in T : ~ (m < n)
  BY <1>1 DEF OpToRel
<1> QED
  BY <1>2

\* A statement, given as the set of the numbers for which it holds, holds for
\* 0 .. N when it holds for 0 and never stops holding.
LEMMA Stepwise ==
  ASSUME NEW N \in Nat, NEW H,
         0 \in H,
         \A n \in 1 .. N : n - 1 \in H => n \in H
  PROVE  \A n \in 0 .. N : n \in H
<1> DEFINE T == {n \in 0 .. N : n \notin H}
<1> SUFFICES ASSUME T # {} PROVE FALSE
  OBVIOUS
<1>1. T \subseteq Nat
  OBVIOUS
<1>2. PICK n \in T : \A m \in T : n <= m
  BY <1>1, LeastNatural
<1>3. n \in 1 .. N
  BY <1>2
<1>4. n - 1 \notin T
  BY <1>2, <1>3
<1> QED
  BY <1>2, <1>3, <1>4

\* Min takes the least element of a set of numbers.
LEMMA MinFacts ==
  ASSUME NEW S, S \subseteq Nat, S # {}
  PROVE  Min(S) \in S /\ \A n \in S : Min(S) <= n
<1>1. \E x \in S : \A y \in S : x <= y
  BY LeastNatural
<1> QED
  BY <1>1 DEF Min

LEMMA LeastOfTwo ==
  ASSUME NEW m \in Int, NEW n \in Int
  PROVE  Min({m, n}) = IF m <= n THEN m ELSE n
<1>1. \E x \in {m, n} : \A y \in {m, n} : x <= y
  OBVIOUS
<1>2. Min({m, n}) \in {m, n} /\ \A y \in {m, n} : Min({m, n}) <= y
  BY <1>1 DEF Min
<1> QED
  BY <1>2
-----------------------------------------------------------------------------
(***************************************************************************)
(* The tree.                                                               *)
(***************************************************************************)
\* The nodes below the root have names of their own and no children.
Flat(t) ==
  /\ Len(t) \in Nat \ {0} /\ DOMAIN t = 1 .. Len(t)
  /\ t[1].name = "/" /\ t[1].type = "root"
  /\ t[1].children = [k \in 1 .. Len(t) - 1 |-> k + 1]
  /\ \A k \in 2 .. Len(t) : t[k].children = <<>>
  /\ \A j, k \in 1 .. Len(t) : t[j].name = t[k].name => j = k

\* Below a node without children a walk stays there or ends.
LEMMA BelowLeaf ==
  ASSUME NEW t, Flat(t), NEW k \in 2 .. Len(t), NEW name
  PROVE  Below(t, k, name) = IF t[k].name = name THEN k ELSE NoNode
<1>1. t[k].children = <<>>
  BY DEF Flat
<1>2. SelectInSeq(t[k].children, LAMBDA c : t[c].name = name) = 0
  BY <1>1 DEF SelectInSeq
<1> QED
  BY <1>1, <1>2 DEF Below

\* Below the root it goes to the child of the name, if there is one.
LEMMA BelowRoot ==
  ASSUME NEW t, Flat(t), NEW name
  PROVE  /\ \A k \in 2 .. Len(t) : t[k].name = name => Below(t, 1, name) = k
         /\ (\A k \in 1 .. Len(t) : t[k].name # name) => Below(t, 1, name) = NoNode
<1> DEFINE ch == t[1].children
           I == {i \in 1 .. Len(ch) : t[ch[i]].name = name}
           s == SelectInSeq(ch, LAMBDA c : t[c].name = name)
<1>1. /\ Len(t) \in Nat \ {0}
      /\ Len(ch) = Len(t) - 1 /\ \A i \in 1 .. Len(t) - 1 : ch[i] = i + 1
      /\ \A j, k \in 1 .. Len(t) : t[j].name = t[k].name => j = k
  BY DEF Flat
<1>2. s = IF I # {} THEN Min(I) ELSE 0
  BY DEF SelectInSeq
<1>3. Below(t, 1, name) = IF s # 0 THEN ch[s] ELSE IF t[1].name = name THEN 1 ELSE NoNode
  BY DEF Below
<1> HIDE DEF s
<1>4. ASSUME NEW k \in 2 .. Len(t), t[k].name = name
      PROVE  Below(t, 1, name) = k
  <2>1. k - 1 \in I
    BY <1>1, <1>4
  <2>2. ASSUME NEW i \in I PROVE i = k - 1
    BY <1>1, <1>4
  <2>3. Min(I) = k - 1
    <3>1. I \subseteq Nat /\ I # {}
      BY <1>1, <2>1
    <3>2. Min(I) \in I
      <4> HIDE DEF I
      <4> QED
        BY <3>1, MinFacts
    <3> QED
      BY <2>2, <3>2
  <2>4. k - 1 \in 1 .. Len(t) - 1 /\ k - 1 # 0 /\ (k - 1) + 1 = k
    BY <1>1
  <2>5. ch[k - 1] = k
    BY <1>1, <2>4
  <2>6. s = k - 1
    BY <1>2, <2>1, <2>3
  <2> QED
    BY <1>3, <2>4, <2>5, <2>6
<1>5. ASSUME \A k \in 1 .. Len(t) : t[k].name # name
      PROVE  Below(t, 1, name) = NoNode
  <2>1. I = {}
    BY <1>1, <1>5
  <2> QED
    BY <1>1, <1>2, <1>3, <1>5, <2>1
<1> QED
  BY <1>4, <1>5

\* The walk of find_node along a path.
Walk(t, path, h) ==
  [i \in 0 .. Len(path) |->
     IF i = 0 THEN Root
     ELSE IF h[i - 1] = NoNode THEN NoNode ELSE Below(t, h[i - 1], path[i])]

\* A walk is what FindNode takes it from.
LEMMA WalkIs ==
  ASSUME NEW t, NEW path, Len(path) \in Nat, NEW h, h = Walk(t, path, h)
  PROVE  FindNode(t, path) =
           LET misses == {i \in 0 .. Len(path) : h[i] = NoNode}
               last == h[Min(misses) - 1]
           IN IF misses = {} THEN h[Len(path)]
              ELSE IF t[last].type = "mount point" THEN last ELSE NoNode
<1> DEFINE at == CHOOSE g : g = Walk(t, path, g)
<1>1. at = Walk(t, path, at)
  OBVIOUS
<1>2. FindNode(t, path) =
        LET misses == {i \in DOMAIN at : at[i] = NoNode}
            last == at[Min(misses) - 1]
        IN IF misses = {} THEN at[Len(path)]
           ELSE IF t[last].type = "mount point" THEN last ELSE NoNode
  BY DEF FindNode, Walk
<1> HIDE DEF at
<1>3. at = h
  <2> DEFINE H == {i \in 0 .. Len(path) : at[i] = h[i]}
  <2>1. 0 \in H
    BY <1>1 DEF Walk
  <2>2. ASSUME NEW i \in 1 .. Len(path), i - 1 \in H PROVE i \in H
    BY <1>1, <2>2 DEF Walk
  <2>3. \A i \in 0 .. Len(path) : i \in H
    <3> HIDE DEF H
    <3> QED
      BY <2>1, <2>2, Stepwise
  <2>4. /\ at = [i \in 0 .. Len(path) |-> at[i]]
        /\ h = [i \in 0 .. Len(path) |-> h[i]]
    BY <1>1 DEF Walk
  <2> QED
    BY <2>3, <2>4
<1>4. DOMAIN h = 0 .. Len(path)
  BY DEF Walk
<1> QED
  BY <1>2, <1>3, <1>4

LEMMA FindEmpty ==
  ASSUME NEW t, NEW path, Len(path) = 0
  PROVE  FindNode(t, path) = Root
<1> DEFINE h == [i \in 0 .. 0 |-> Root]
           misses == {i \in 0 .. Len(path) : h[i] = NoNode}
           last == h[Min(misses) - 1]
<1>1. h = Walk(t, path, h)
  BY DEF Walk
<1>2. misses = {}
  BY DEF Root, NoNode
<1>3. h[Len(path)] = Root /\ Len(path) \in Nat
  OBVIOUS
<1> HIDE DEF h
<1>4. FindNode(t, path) = IF misses = {} THEN h[Len(path)]
                          ELSE IF t[last].type = "mount point" THEN last ELSE NoNode
  BY <1>1, <1>3, WalkIs
<1> HIDE DEF misses, last
<1> QED
  BY <1>2, <1>3, <1>4

\* The node of a path that begins with its name, 0 for none.
Begins(t, path, k) ==
  \/ k \in 2 .. Len(t) /\ path[1] = t[k].name
  \/ k = NoNode /\ \A j \in 1 .. Len(t) : path[1] # t[j].name

Repeats(path) == \A i \in 1 .. Len(path) : path[i] = path[1]

\* find_node ends at a node if the path repeats its name, and at a mount point
\* if the path begins with its name.
LEMMA FindFacts ==
  ASSUME NEW t, Flat(t), NEW path, Len(path) \in Nat \ {0},
         NEW k, Begins(t, path, k)
  PROVE  FindNode(t, path) =
           IF k # NoNode /\ (Repeats(path) \/ t[k].type = "mount point")
             THEN k ELSE NoNode
<1> DEFINE h == [i \in 0 .. Len(path) |->
                   IF i = 0 THEN Root
                   ELSE IF \A j \in 1 .. i : path[j] = path[1] THEN k ELSE NoNode]
           misses == {i \in 0 .. Len(path) : h[i] = NoNode}
           last == h[Min(misses) - 1]
<1>1. /\ Len(t) \in Nat \ {0} /\ t[1].type = "root"
      /\ k \in Nat /\ k # 1 /\ Root = 1 /\ NoNode = 0
  BY DEF Flat, Begins, Root, NoNode
<1>2. h = Walk(t, path, h)
  <2>1. ASSUME NEW i \in 1 .. Len(path)
        PROVE  h[i] = IF h[i - 1] = NoNode THEN NoNode ELSE Below(t, h[i - 1], path[i])
    <3>1. CASE i = 1
      <4>1. h[1] = k /\ h[0] = Root
        BY <3>1
      <4>2. Below(t, 1, path[1]) = k
        BY BelowRoot DEF Begins
      <4> QED
        BY <1>1, <3>1, <4>1, <4>2
    <3>2. CASE i # 1
      <4>1. /\ i - 1 \in 1 .. Len(path)
            /\ h[i - 1] = IF \A j \in 1 .. i - 1 : path[j] = path[1] THEN k ELSE NoNode
        BY <3>2
      <4>2. (\A j \in 1 .. i : path[j] = path[1]) <=>
              (\A j \in 1 .. i - 1 : path[j] = path[1]) /\ path[i] = path[1]
        BY <3>2
      <4>3. k # NoNode => Below(t, k, path[i]) = IF path[i] = path[1] THEN k ELSE NoNode
        BY BelowLeaf DEF Begins
      <4>4. h[i] = IF \A j \in 1 .. i : path[j] = path[1] THEN k ELSE NoNode
        BY <1>1
      <4> QED
        BY <4>1, <4>2, <4>3, <4>4
    <3> QED
      BY <3>1, <3>2
  <2>2. h[0] = Root
    OBVIOUS
  <2>3. h = [i \in 0 .. Len(path) |-> h[i]]
    OBVIOUS
  <2> HIDE DEF h
  <2>4. \A i \in 0 .. Len(path) :
          h[i] = IF i = 0 THEN Root
                 ELSE IF h[i - 1] = NoNode THEN NoNode ELSE Below(t, h[i - 1], path[i])
    BY <2>1, <2>2
  <2> QED
    BY <2>3, <2>4 DEF Walk
<1>3. FindNode(t, path) = IF misses = {} THEN h[Len(path)]
                          ELSE IF t[last].type = "mount point" THEN last ELSE NoNode
  <2> HIDE DEF h
  <2> QED
    BY <1>2, WalkIs
<1>4. CASE k = NoNode
  <2>1. 1 \in misses /\ 0 \notin misses
    BY <1>1, <1>4
  <2>2. Min(misses) = 1
    <3>1. misses \subseteq Nat /\ misses # {}
      BY <2>1
    <3>2. Min(misses) \in misses /\ Min(misses) <= 1
      <4> HIDE DEF misses
      <4> QED
        BY <2>1, <3>1, MinFacts
    <3> QED
      BY <2>1, <3>1, <3>2
  <2>3. last = 1
    BY <1>1, <2>2
  <2> HIDE DEF misses, last
  <2> QED
    BY <1>1, <1>3, <1>4, <2>1, <2>3
<1>5. CASE k # NoNode /\ Repeats(path)
  <2>1. \A i \in 0 .. Len(path) : h[i] # NoNode
    BY <1>1, <1>5 DEF Repeats
  <2>2. h[Len(path)] = k
    BY <1>1, <1>5 DEF Repeats
  <2>3. misses = {}
    BY <2>1
  <2> HIDE DEF misses, last, h
  <2> QED
    BY <1>3, <1>5, <2>2, <2>3
<1>6. CASE k # NoNode /\ ~ Repeats(path)
  <2>1. misses # {} /\ 0 \notin misses /\ 1 \notin misses /\ misses \subseteq 0 .. Len(path)
    <3>1. Len(path) \in misses
      BY <1>1, <1>6 DEF Repeats
    <3>2. h[0] = Root /\ h[1] = k
      BY <1>1
    <3>3. 0 \notin misses /\ 1 \notin misses
      BY <1>1, <1>6, <3>2
    <3> QED
      BY <3>1, <3>3
  <2>2. PICK m \in misses : m = Min(misses) /\ \A n \in misses : m <= n
    <3>1. misses \subseteq Nat
      OBVIOUS
    <3> HIDE DEF misses
    <3> QED
      BY <2>1, <3>1, MinFacts
  <2>3. m - 1 \in 1 .. Len(path) /\ m - 1 \notin misses
    <3> HIDE DEF misses
    <3> QED
      BY <2>1, <2>2
  <2>4. h[m - 1] = k
    BY <2>3
  <2>5. last = k
    BY <2>2, <2>4
  <2> HIDE DEF misses, last, h
  <2> QED
    BY <1>3, <1>6, <2>1, <2>5
<1> QED
  BY <1>4, <1>5, <1>6

-----------------------------------------------------------------------------
Registered(t, k, h, function) == [t EXCEPT ![k].hook[h] = function]

\* fs_reghook at a node that find_node finds by its name.
LEMMA ReghookFacts ==
  ASSUME NEW t, Flat(t), NEW k \in 2 .. Len(t), NEW h, NEW function
  PROVE  /\ FindNode(t, <<t[k].name>>) = k
         /\ Reghook(t, <<t[k].name>>, h, function) = Registered(t, k, h, function)
<1>1. PICK path : path = <<t[k].name>>
  OBVIOUS
<1>2. Len(path) \in Nat \ {0} /\ path[1] = t[k].name
      /\ \A i \in 1 .. Len(path) : path[i] = path[1]
  BY <1>1
<1>3. Flat(t) /\ Len(path) \in Nat \ {0} /\ Begins(t, path, k) /\ Repeats(path)
  BY <1>2 DEF Begins, Repeats
<1>4. k # NoNode
  BY DEF NoNode, Flat
<1>5. FindNode(t, path) =
        IF k # NoNode /\ (Repeats(path) \/ t[k].type = "mount point")
          THEN k ELSE NoNode
  BY ONLY <1>3, FindFacts
<1>6. FindNode(t, path) = k
  BY <1>3, <1>4, <1>5
<1> QED
  BY <1>1, <1>4, <1>6 DEF Reghook, Registered

\* fs_mknode below the root.
LEMMA MknodeFacts ==
  ASSUME NEW t, Flat(t), NEW name, NEW type
  PROVE  Mknode(t, <<name>>, type) =
           Append([t EXCEPT ![1].children = Append(@, Len(t) + 1)], Node(name, type))
<1>1. Front(<<name>>) = <<>> /\ Last(<<name>>) = name
  BY DEF Front, Last
<1>2. FindNode(t, <<>>) = 1 /\ 1 # NoNode
  BY FindEmpty DEF Root, NoNode
<1> QED
  BY <1>1, <1>2 DEF Mknode

\* The hooks of a node, after four of them are registered.
FourHooks(h) ==
  [x \in HookNames |->
     IF x = h[4][1] THEN h[4][2] ELSE IF x = h[3][1] THEN h[3][2]
     ELSE IF x = h[2][1] THEN h[2][2] ELSE IF x = h[1][1] THEN h[1][2] ELSE "none"]

LEMMA FourReghooks ==
  ASSUME NEW t, NEW path, NEW h, Len(h) = 4
  PROVE  Hooked(t, path, h) =
           Reghook(Reghook(Reghook(Reghook(t, path, h[1][1], h[1][2]),
                                   path, h[2][1], h[2][2]),
                           path, h[3][1], h[3][2]),
                   path, h[4][1], h[4][2])
<1> DEFINE t1 == Reghook(t, path, h[1][1], h[1][2])
           t2 == Reghook(t1, path, h[2][1], h[2][2])
           t3 == Reghook(t2, path, h[3][1], h[3][2])
           t4 == Reghook(t3, path, h[4][1], h[4][2])
           Regs(d) == [i \in 0 .. Len(h) |->
                         IF i = 0 THEN t
                         ELSE Reghook(d[i - 1], path, h[i][1], h[i][2])]
           made == [i \in 0 .. 4 |-> IF i = 0 THEN t ELSE IF i = 1 THEN t1
                      ELSE IF i = 2 THEN t2 ELSE IF i = 3 THEN t3 ELSE t4]
           done == CHOOSE d : d = Regs(d)
<1>1. Hooked(t, path, h) = done[4]
  BY DEF Hooked
<1>2. /\ made[0] = t /\ made[1] = t1 /\ made[2] = t2 /\ made[3] = t3 /\ made[4] = t4
      /\ made = [i \in 0 .. 4 |-> made[i]]
  OBVIOUS
<1>3. made = Regs(made)
  <2>1. \A i \in 0 .. 4 :
          made[i] = IF i = 0 THEN t ELSE Reghook(made[i - 1], path, h[i][1], h[i][2])
    <3> HIDE DEF made
    <3>1. ASSUME NEW i \in 0 .. 4
          PROVE  i = 0 \/ i = 1 \/ i = 2 \/ i = 3 \/ i = 4
      OBVIOUS
    <3> QED
      BY <1>2, <3>1
  <2> HIDE DEF made
  <2> QED
    BY <1>2, <2>1
<1> HIDE DEF made
<1>4. done = Regs(done)
  BY <1>3
<1> HIDE DEF done
<1>5. /\ done[0] = t
      /\ \A i \in 1 .. 4 : done[i] = Reghook(done[i - 1], path, h[i][1], h[i][2])
  BY <1>4
<1>6. done[1] = t1
  BY <1>5
<1>7. done[2] = t2
  BY <1>5, <1>6
<1>8. done[3] = t3
  BY <1>5, <1>7
<1>9. done[4] = t4
  BY <1>5, <1>8
<1> QED
  BY <1>1, <1>9

NodeSet == [name : Names, type : Types, children : Seq(Nat),
            hook : [HookNames -> Functions]]

\* An element of a sequence is replaced.
LEMMA ExceptSeq ==
  ASSUME NEW S, NEW s \in Seq(S), NEW i \in 1 .. Len(s), NEW e \in S,
         NEW r, r = [s EXCEPT ![i] = e]
  PROVE  /\ r \in Seq(S) /\ Len(r) = Len(s) /\ DOMAIN r = 1 .. Len(s)
         /\ r[i] = e /\ \A j \in 1 .. Len(s) : j # i => r[j] = s[j]
OBVIOUS

WithChildren(node, children) == [node EXCEPT !.children = children]
WithHook(node, h, function) == [node EXCEPT !.hook = [node.hook EXCEPT ![h] = function]]

LEMMA ChildrenFields ==
  ASSUME NEW node \in NodeSet, NEW children \in Seq(Nat), NEW e,
         e = WithChildren(node, children)
  PROVE  /\ e \in NodeSet /\ e.children = children
         /\ e.name = node.name /\ e.type = node.type /\ e.hook = node.hook
<1>1. node = [name |-> node.name, type |-> node.type, children |-> node.children,
              hook |-> node.hook]
  BY DEF NodeSet
<1>2. e = [name |-> node.name, type |-> node.type, children |-> children,
           hook |-> node.hook]
  BY <1>1 DEF WithChildren
<1>3. node.name \in Names /\ node.type \in Types /\ node.hook \in [HookNames -> Functions]
  BY DEF NodeSet
<1> QED
  BY <1>2, <1>3 DEF NodeSet

LEMMA HookFields ==
  ASSUME NEW node \in NodeSet, NEW h \in HookNames, NEW function \in Functions, NEW e,
         e = WithHook(node, h, function)
  PROVE  /\ e \in NodeSet /\ e.children = node.children
         /\ e.name = node.name /\ e.type = node.type
         /\ e.hook = [node.hook EXCEPT ![h] = function]
<1>1. node = [name |-> node.name, type |-> node.type, children |-> node.children,
              hook |-> node.hook]
  BY DEF NodeSet
<1>2. PICK hook : hook = [node.hook EXCEPT ![h] = function]
  OBVIOUS
<1>3. e = [name |-> node.name, type |-> node.type, children |-> node.children,
           hook |-> hook]
  BY <1>1, <1>2 DEF WithHook
<1>4. /\ node.name \in Names /\ node.type \in Types /\ node.children \in Seq(Nat)
      /\ node.hook \in [HookNames -> Functions]
  BY DEF NodeSet
<1>5. hook \in [HookNames -> Functions]
  BY <1>2, <1>4
<1> QED
  BY <1>2, <1>3, <1>4, <1>5 DEF NodeSet

LEMMA NodeFields ==
  ASSUME NEW name \in Names, NEW type \in Types
  PROVE  /\ Node(name, type) \in NodeSet
         /\ Node(name, type).name = name /\ Node(name, type).type = type
         /\ Node(name, type).children = <<>>
         /\ Node(name, type).hook = [h \in HookNames |-> "none"]
<1>1. PICK hook : hook = [h \in HookNames |-> "none"]
  OBVIOUS
<1>2. hook \in [HookNames -> Functions] /\ <<>> \in Seq(Nat)
  <2>1. \A h \in HookNames : hook[h] = "none" /\ "none" \in Functions
    BY <1>1 DEF Functions
  <2>2. hook = [h \in HookNames |-> hook[h]]
    BY <1>1
  <2>3. hook \in [HookNames -> Functions]
    BY ONLY <2>1, <2>2
  <2> QED
    BY <2>3
<1>3. Node(name, type) = [name |-> name, type |-> type, children |-> <<>>, hook |-> hook]
  BY <1>1 DEF Node
<1> QED
  BY <1>1, <1>2, <1>3 DEF NodeSet

\* One hook more leaves the tree as it is otherwise.
LEMMA HookStep ==
  ASSUME NEW t \in Seq(NodeSet), Flat(t), NEW k \in 2 .. Len(t),
         NEW h \in HookNames, NEW function \in Functions,
         NEW u, u = Reghook(t, <<t[k].name>>, h, function)
  PROVE  /\ u \in Seq(NodeSet) /\ Flat(u) /\ Len(u) = Len(t)
         /\ \A j \in 1 .. Len(t) : j # k => u[j] = t[j]
         /\ u[k].name = t[k].name /\ u[k].type = t[k].type
         /\ u[k].hook = [t[k].hook EXCEPT ![h] = function]
<1>0. Reghook(t, <<t[k].name>>, h, function) = Registered(t, k, h, function)
  BY ReghookFacts
<1>1. u = [t EXCEPT ![k].hook[h] = function]
  BY <1>0 DEF Registered
<1>2. t \in Seq(NodeSet) /\ Len(t) \in Nat /\ k \in 1 .. Len(t)
  BY DEF Flat
<1>3. t[k] \in NodeSet
  BY <1>2
<1>e. PICK e : e = WithHook(t[k], h, function)
  OBVIOUS
<1>4. /\ e \in NodeSet /\ e.name = t[k].name /\ e.type = t[k].type
      /\ e.children = t[k].children /\ e.hook = [t[k].hook EXCEPT ![h] = function]
  BY <1>3, <1>e, HookFields
<1>5. u = [t EXCEPT ![k] = e]
  BY <1>1, <1>e DEF WithHook
<1>6. /\ u \in Seq(NodeSet) /\ Len(u) = Len(t) /\ DOMAIN u = 1 .. Len(t)
      /\ u[k] = e /\ \A j \in 1 .. Len(t) : j # k => u[j] = t[j]
  <2>1. e \in NodeSet
    BY <1>4
  <2> QED
    BY ONLY <1>2, <1>5, <2>1, ExceptSeq
<1>7. Flat(u)
  <2>1. \A j \in 1 .. Len(t) : /\ u[j].name = t[j].name /\ u[j].type = t[j].type
                                /\ u[j].children = t[j].children
    BY <1>4, <1>6
  <2>2. 1 \in 1 .. Len(t) /\ Len(t) \in Nat \ {0} /\ \A j \in 2 .. Len(t) : j \in 1 .. Len(t)
    BY DEF Flat
  <2>3. \A i, j \in 1 .. Len(t) : u[i].name = u[j].name => i = j
    BY <2>1 DEF Flat
  <2>4. \A j \in 2 .. Len(t) : u[j].children = <<>>
    BY <2>1, <2>2 DEF Flat
  <2>5. /\ u[1].name = "/" /\ u[1].type = "root"
        /\ u[1].children = [j \in 1 .. Len(t) - 1 |-> j + 1]
    BY <2>1, <2>2 DEF Flat
  <2> QED
    BY <1>6, <2>2, <2>3, <2>4, <2>5 DEF Flat
<1> QED
  BY <1>4, <1>6, <1>7

LEMMA AppendSeq ==
  ASSUME NEW S, NEW s \in Seq(S), NEW e \in S
  PROVE  /\ Append(s, e) \in Seq(S) /\ Len(Append(s, e)) = Len(s) + 1
         /\ DOMAIN Append(s, e) = 1 .. Len(s) + 1
         /\ Append(s, e)[Len(s) + 1] = e
         /\ \A i \in 1 .. Len(s) : Append(s, e)[i] = s[i]
OBVIOUS

\* fs_mknode below the root makes the last child.
LEMMA MknodeFlat ==
  ASSUME NEW t \in Seq(NodeSet), Flat(t), NEW name \in Names, NEW type \in Types,
         \A k \in 1 .. Len(t) : t[k].name # name,
         NEW u, u = Mknode(t, <<name>>, type)
  PROVE  /\ u \in Seq(NodeSet) /\ Flat(u) /\ Len(u) = Len(t) + 1
         /\ \A j \in 2 .. Len(t) : u[j] = t[j]
         /\ u[1].hook = t[1].hook
         /\ u[Len(u)] = Node(name, type)
<1> DEFINE n == Len(t)
<1>c. PICK c : c = Append(t[1].children, n + 1)
  OBVIOUS
<1>e. PICK e : e = WithChildren(t[1], c)
  OBVIOUS
<1>v. PICK v : v = [t EXCEPT ![1] = e]
  OBVIOUS
<1>1. u = Append(v, Node(name, type))
  BY <1>c, <1>e, <1>v, MknodeFacts DEF WithChildren
<1>2. /\ n \in Nat \ {0} /\ 1 \in 1 .. n /\ t[1] \in NodeSet
      /\ t[1].children = [k \in 1 .. n - 1 |-> k + 1]
      /\ t[1].name = "/" /\ t[1].type = "root"
  BY DEF Flat
<1>3. c = [k \in 1 .. n |-> k + 1] /\ c \in Seq(Nat)
  <2>1. t[1].children \in Seq(Nat)
    BY <1>2 DEF NodeSet
  <2>2. Len(t[1].children) = n - 1
    BY <1>2, <2>1
  <2> QED
    BY <1>2, <1>c, <2>1, <2>2
<1>4. /\ e \in NodeSet /\ e.name = "/" /\ e.type = "root" /\ e.hook = t[1].hook
      /\ e.children = [k \in 1 .. n |-> k + 1]
  <2>1. t[1] \in NodeSet /\ c \in Seq(Nat)
    BY <1>2, <1>3
  <2>2. /\ e \in NodeSet /\ e.children = c
        /\ e.name = t[1].name /\ e.type = t[1].type /\ e.hook = t[1].hook
    BY ONLY <1>e, <2>1, ChildrenFields
  <2> QED
    BY <1>2, <1>3, <2>2
<1>5. /\ Node(name, type) \in NodeSet
      /\ Node(name, type).name = name /\ Node(name, type).children = <<>>
  BY NodeFields
<1>6. /\ v \in Seq(NodeSet) /\ Len(v) = n /\ v[1] = e
      /\ \A j \in 1 .. n : j # 1 => v[j] = t[j]
  BY ONLY <1>2, <1>4, <1>v, t \in Seq(NodeSet), ExceptSeq
<1>7. /\ u \in Seq(NodeSet) /\ Len(u) = n + 1 /\ DOMAIN u = 1 .. n + 1
      /\ u[n + 1] = Node(name, type)
      /\ \A j \in 1 .. n : u[j] = v[j]
  <2>1. PICK l : l = Node(name, type)
    OBVIOUS
  <2>2. v \in Seq(NodeSet) /\ l \in NodeSet
    BY <1>5, <1>6, <2>1
  <2>3. /\ Append(v, l) \in Seq(NodeSet) /\ Len(Append(v, l)) = Len(v) + 1
        /\ DOMAIN Append(v, l) = 1 .. Len(v) + 1
        /\ Append(v, l)[Len(v) + 1] = l
        /\ \A i \in 1 .. Len(v) : Append(v, l)[i] = v[i]
    BY ONLY <2>2, AppendSeq
  <2> QED
    BY ONLY <1>1, <1>6, <2>1, <2>3
<1>8. /\ u[1] = e
      /\ \A j \in 2 .. n : u[j] = t[j]
  <2>1. \A j \in 2 .. n : j \in 1 .. n /\ j # 1
    BY <1>2
  <2> QED
    BY ONLY <1>2, <1>6, <1>7, <2>1
<1>9. Flat(u)
  <2>1. Node(name, type).name = name /\ Node(name, type).children = <<>>
    BY <1>5
  <2>2. \A j \in 2 .. n + 1 : u[j].children = <<>>
    <3>0. \A j \in 2 .. n : t[j].children = <<>>
      BY DEF Flat
    <3>1. \A j \in 2 .. n : u[j].children = <<>>
      BY ONLY <1>8, <3>0
    <3>2. u[n + 1].children = <<>>
      BY ONLY <1>7, <2>1
    <3>3. \A j \in 2 .. n + 1 : j \in 2 .. n \/ j = n + 1
      BY ONLY <1>2
    <3> QED
      BY ONLY <3>1, <3>2, <3>3
  <2>3. ASSUME NEW i \in 1 .. n + 1, NEW j \in 1 .. n + 1, u[i].name = u[j].name
        PROVE  i = j
    <3>0. \A k \in 1 .. n : k = 1 \/ k \in 2 .. n
      BY <1>2
    <3>1. \A k \in 1 .. n : u[k].name = t[k].name /\ u[k].name # name
      BY <1>2, <1>4, <1>8, <3>0
    <3>2. \A k, l \in 1 .. n : t[k].name = t[l].name => k = l
      BY DEF Flat
    <3>3. CASE i \in 1 .. n /\ j \in 1 .. n
      BY <2>3, <3>1, <3>2, <3>3
    <3>4. CASE i = n + 1 /\ j \in 1 .. n
      BY <1>7, <2>1, <2>3, <3>1, <3>4
    <3>5. CASE i \in 1 .. n /\ j = n + 1
      BY <1>7, <2>1, <2>3, <3>1, <3>5
    <3> QED
      BY <1>2, <3>3, <3>4, <3>5
  <2>4. u[1].name = "/" /\ u[1].type = "root" /\ u[1].children = [k \in 1 .. n |-> k + 1]
    BY <1>4, <1>8
  <2>5. Len(u) \in Nat \ {0} /\ Len(u) - 1 = n
    BY <1>2, <1>7
  <2> QED
    BY <1>7, <2>2, <2>3, <2>4, <2>5 DEF Flat
<1> QED
  BY <1>4, <1>7, <1>8, <1>9

\* What the *_mknode functions do: a child of the root, with four hooks.
Mountable(t, name, type, h) ==
  /\ t \in Seq(NodeSet) /\ Flat(t) /\ name \in Names /\ type \in Types
  /\ \A k \in 1 .. Len(t) : t[k].name # name
  /\ Len(h) = 4
  /\ \A i \in 1 .. 4 : h[i][1] \in HookNames /\ h[i][2] \in Functions

Mounted(t, name, type, h, u) ==
  /\ u \in Seq(NodeSet) /\ Flat(u) /\ Len(u) = Len(t) + 1
  /\ \A j \in 2 .. Len(t) : u[j] = t[j]
  /\ u[1].hook = t[1].hook
  /\ u[Len(t) + 1].name = name /\ u[Len(t) + 1].type = type
  /\ u[Len(t) + 1].hook = FourHooks(h)

LEMMA MountFlat ==
  ASSUME NEW t, NEW name, NEW type, NEW h, Mountable(t, name, type, h),
         NEW u, u = Hooked(Mknode(t, <<name>>, type), <<name>>, h)
  PROVE  Mounted(t, name, type, h, u)
<1>0. /\ t \in Seq(NodeSet) /\ Flat(t) /\ name \in Names /\ type \in Types
      /\ \A k \in 1 .. Len(t) : t[k].name # name
      /\ Len(h) = 4
      /\ \A i \in 1 .. 4 : h[i][1] \in HookNames /\ h[i][2] \in Functions
  BY DEF Mountable
<1>1. PICK t0 : t0 = Mknode(t, <<name>>, type)
  OBVIOUS
<1>2. PICK t1 : t1 = Reghook(t0, <<name>>, h[1][1], h[1][2])
  OBVIOUS
<1>3. PICK t2 : t2 = Reghook(t1, <<name>>, h[2][1], h[2][2])
  OBVIOUS
<1>4. PICK t3 : t3 = Reghook(t2, <<name>>, h[3][1], h[3][2])
  OBVIOUS
<1>5. u = Reghook(t3, <<name>>, h[4][1], h[4][2])
  BY <1>0, <1>1, <1>2, <1>3, <1>4, FourReghooks
<1>6. PICK k : k = Len(t) + 1
  OBVIOUS
<1> DEFINE Same(x) == /\ x \in Seq(NodeSet) /\ Flat(x) /\ Len(x) = k
                      /\ \A j \in 2 .. Len(t) : x[j] = t[j]
                      /\ x[1].hook = t[1].hook
                      /\ x[k].name = name /\ x[k].type = type
<1>7. Len(t) \in Nat \ {0} /\ k \in 2 .. k /\ k # 1 /\ \A j \in 2 .. Len(t) : j # k
  BY <1>0, <1>6 DEF Flat
<1>8. Same(t0) /\ t0[k].hook = [x \in HookNames |-> "none"]
  <2>1. /\ t0 \in Seq(NodeSet) /\ Flat(t0) /\ Len(t0) = k
        /\ \A j \in 2 .. Len(t) : t0[j] = t[j]
        /\ t0[1].hook = t[1].hook
        /\ t0[k] = Node(name, type)
    <3>1. /\ t \in Seq(NodeSet) /\ Flat(t) /\ name \in Names /\ type \in Types
          /\ \A j \in 1 .. Len(t) : t[j].name # name
      BY <1>0
    <3>2. /\ t0 \in Seq(NodeSet) /\ Flat(t0) /\ Len(t0) = Len(t) + 1
          /\ \A j \in 2 .. Len(t) : t0[j] = t[j]
          /\ t0[1].hook = t[1].hook
          /\ t0[Len(t0)] = Node(name, type)
      BY ONLY <1>1, <3>1, MknodeFlat
    <3> QED
      BY ONLY <1>6, <3>2
  <2>2. /\ Node(name, type).name = name /\ Node(name, type).type = type
        /\ Node(name, type).hook = [x \in HookNames |-> "none"]
    BY <1>0, NodeFields
  <2> QED
    BY ONLY <2>1, <2>2
<1>9. ASSUME NEW x, Same(x), NEW i \in 1 .. 4
      PROVE  LET y == Reghook(x, <<name>>, h[i][1], h[i][2])
             IN Same(y) /\ y[k].hook = [x[k].hook EXCEPT ![h[i][1]] = h[i][2]]
  <2>0. PICK g, f : g = h[i][1] /\ f = h[i][2]
    OBVIOUS
  <2>y. PICK y : y = Reghook(x, <<name>>, g, f)
    OBVIOUS
  <2>1. /\ k \in 2 .. Len(x) /\ g \in HookNames /\ f \in Functions
        /\ x \in Seq(NodeSet) /\ Flat(x) /\ Len(x) = k /\ name = x[k].name
        /\ x[k].type = type
        /\ \A j \in 2 .. Len(t) : x[j] = t[j]
        /\ x[1].hook = t[1].hook
    BY <1>0, <1>7, <1>9, <2>0
  <2>2. /\ y \in Seq(NodeSet) /\ Flat(y) /\ Len(y) = Len(x)
        /\ \A j \in 1 .. Len(x) : j # k => y[j] = x[j]
        /\ y[k].name = x[k].name /\ y[k].type = x[k].type
        /\ y[k].hook = [x[k].hook EXCEPT ![g] = f]
    <3>1. y = Reghook(x, <<x[k].name>>, g, f)
      BY <2>y, <2>1
    <3> QED
      BY ONLY <2>1, <3>1, HookStep
  <2>3. y[1] = x[1] /\ \A j \in 2 .. Len(t) : y[j] = x[j]
    BY <1>6, <1>7, <2>1, <2>2
  <2> QED
    BY <2>0, <2>y, <2>1, <2>2, <2>3
<1> HIDE DEF Same
<1>10. 1 \in 1 .. 4 /\ 2 \in 1 .. 4 /\ 3 \in 1 .. 4 /\ 4 \in 1 .. 4
  OBVIOUS
<1>11. Same(t1) /\ t1[k].hook = [t0[k].hook EXCEPT ![h[1][1]] = h[1][2]]
  BY ONLY <1>2, <1>8, <1>9, <1>10
<1>12. Same(t2) /\ t2[k].hook = [t1[k].hook EXCEPT ![h[2][1]] = h[2][2]]
  BY ONLY <1>3, <1>9, <1>10, <1>11
<1>13. Same(t3) /\ t3[k].hook = [t2[k].hook EXCEPT ![h[3][1]] = h[3][2]]
  BY ONLY <1>4, <1>9, <1>10, <1>12
<1>14. Same(u) /\ u[k].hook = [t3[k].hook EXCEPT ![h[4][1]] = h[4][2]]
  BY ONLY <1>5, <1>9, <1>10, <1>13
<1>15. u[k].hook = FourHooks(h)
  <2>1. PICK g1, g2, g3, g4 : g1 = h[1][1] /\ g2 = h[2][1] /\ g3 = h[3][1] /\ g4 = h[4][1]
    OBVIOUS
  <2>2. t1[k].hook = [x \in HookNames |-> IF x = g1 THEN h[1][2] ELSE "none"]
    BY ONLY <1>8, <1>11, <2>1
  <2>3. t2[k].hook = [x \in HookNames |-> IF x = g2 THEN h[2][2] ELSE
                        IF x = g1 THEN h[1][2] ELSE "none"]
    BY ONLY <1>12, <2>1, <2>2
  <2>4. t3[k].hook = [x \in HookNames |-> IF x = g3 THEN h[3][2] ELSE
                        IF x = g2 THEN h[2][2] ELSE IF x = g1 THEN h[1][2] ELSE "none"]
    BY ONLY <1>13, <2>1, <2>3
  <2> QED
    BY ONLY <1>14, <2>1, <2>4 DEF FourHooks
<1> QED
  BY <1>6, <1>7, <1>14, <1>15 DEF Same, Mounted

\* The nodes that fs_init makes, by their places.
StdioNode == 2
DiskNode == 3
PipeNode == 4

\* The tree that fs_init makes: the types of its nodes, and their hooks.
FsTree(t) ==
  /\ t \in Seq(NodeSet) /\ Flat(t) /\ Len(t) = 4
  /\ t[Root].hook["open"] = "none"
  /\ t[StdioNode].name = "stdio" /\ t[StdioNode].type = "special"
  /\ t[StdioNode].hook = [h \in HookNames |->
       CASE h = "open" -> "stdio_open" [] h = "close" -> "stdio_close"
         [] h = "read" -> "stdio_read" [] h = "write" -> "stdio_write"
         [] OTHER -> "none"]
  /\ t[DiskNode].name = "disk" /\ t[DiskNode].type = "mount point"
  /\ t[DiskNode].hook = [h \in HookNames |->
       CASE h = "open" -> "fat_open" [] h = "close" -> "fat_close"
         [] h = "read" -> "fat_read" [] h = "lseek" -> "fat_lseek"
         [] OTHER -> "none"]
  /\ t[PipeNode].name = "pipe" /\ t[PipeNode].type = "special"
  /\ t[PipeNode].hook = [h \in HookNames |->
       CASE h = "open" -> "pipe_open" [] h = "close" -> "pipe_close"
         [] h = "read" -> "pipe_read" [] h = "write" -> "pipe_write"
         [] OTHER -> "none"]

LEMMA TreeBuilt == FsTree(fs_init)
<1>1. PICK t0 : t0 = <<Node("/", "root")>>
  OBVIOUS
<1>2. PICK t1 : t1 = stdio_mknode(t0, <<"stdio">>)
  OBVIOUS
<1>3. PICK t2 : t2 = fat_mknode(t1, <<"disk">>)
  OBVIOUS
<1>4. PICK t3 : t3 = pipe_mknode(t2, <<"pipe">>)
  OBVIOUS
<1>5. fs_init = t3
  BY ONLY <1>1, <1>2, <1>3, <1>4 DEF fs_init
<1>6. /\ t0 \in Seq(NodeSet) /\ Flat(t0) /\ Len(t0) = 1
      /\ t0[1].name = "/" /\ t0[1].hook["open"] = "none"
  <2>1. /\ Node("/", "root") \in NodeSet
        /\ Node("/", "root").name = "/" /\ Node("/", "root").type = "root"
        /\ Node("/", "root").children = <<>>
        /\ Node("/", "root").hook = [h \in HookNames |-> "none"]
    <3>1. "/" \in Names /\ "root" \in Types
      BY DEF Names, Types
    <3> QED
      BY ONLY <3>1, NodeFields
  <2>2. /\ t0 \in Seq(NodeSet) /\ Len(t0) = 1 /\ DOMAIN t0 = 1 .. 1
        /\ t0[1] = Node("/", "root")
    BY <1>1, <2>1
  <2>3. Flat(t0)
    BY <2>1, <2>2 DEF Flat
  <2>4. "open" \in HookNames
    BY DEF HookNames
  <2> QED
    BY <2>1, <2>2, <2>3, <2>4
<1>h. PICK h1, h2, h3 :
        /\ h1 = << <<"open", "stdio_open">>, <<"close", "stdio_close">>,
                   <<"read", "stdio_read">>, <<"write", "stdio_write">> >>
        /\ h2 = << <<"open", "fat_open">>, <<"close", "fat_close">>,
                   <<"read", "fat_read">>, <<"lseek", "fat_lseek">> >>
        /\ h3 = << <<"open", "pipe_open">>, <<"close", "pipe_close">>,
                   <<"read", "pipe_read">>, <<"write", "pipe_write">> >>
  OBVIOUS
<1>7a. Len(h1) = 4 /\ \A i \in 1 .. 4 : h1[i][1] \in HookNames /\ h1[i][2] \in Functions
  BY <1>h DEF HookNames, Functions
<1>7b. Len(h2) = 4 /\ \A i \in 1 .. 4 : h2[i][1] \in HookNames /\ h2[i][2] \in Functions
  BY <1>h DEF HookNames, Functions
<1>7c. Len(h3) = 4 /\ \A i \in 1 .. 4 : h3[i][1] \in HookNames /\ h3[i][2] \in Functions
  BY <1>h DEF HookNames, Functions
<1>8. /\ t1 \in Seq(NodeSet) /\ Flat(t1) /\ Len(t1) = 2
      /\ t1[1].hook["open"] = "none"
      /\ t1[2].name = "stdio" /\ t1[2].type = "special" /\ t1[2].hook = FourHooks(h1)
  <2>1. t1 = Hooked(Mknode(t0, <<"stdio">>, "special"), <<"stdio">>, h1)
    BY ONLY <1>2, <1>h DEF stdio_mknode
  <2>a. t0[1].name # "stdio"
    BY <1>6 DEF Flat
  <2>2. \A k \in 1 .. Len(t0) : t0[k].name # "stdio"
    BY <1>6, <2>a
  <2>3. Mountable(t0, "stdio", "special", h1)
    BY <1>7a, <1>6, <2>2 DEF Mountable, Names, Types
  <2>4. Mounted(t0, "stdio", "special", h1, t1)
    BY <2>1, <2>3, MountFlat
  <2>5. Len(t0) = 1 /\ Len(t0) + 1 = 2
    BY <1>6
  <2> QED
    BY <1>6, <2>4, <2>5 DEF Mounted
<1>9. /\ t2 \in Seq(NodeSet) /\ Flat(t2) /\ Len(t2) = 3
      /\ t2[1].hook["open"] = "none" /\ t2[2] = t1[2]
      /\ t2[3].name = "disk" /\ t2[3].type = "mount point" /\ t2[3].hook = FourHooks(h2)
  <2>1. t2 = Hooked(Mknode(t1, <<"disk">>, "mount point"), <<"disk">>, h2)
    BY ONLY <1>3, <1>h DEF fat_mknode
  <2>a. t1[1].name # "disk"
    BY <1>8 DEF Flat
  <2>b. t1[2].name # "disk"
    BY <1>8
  <2>2. \A k \in 1 .. Len(t1) : t1[k].name # "disk"
    BY <1>8, <2>a, <2>b
  <2>3. Mountable(t1, "disk", "mount point", h2)
    BY <1>7b, <1>8, <2>2 DEF Mountable, Names, Types
  <2>4. Mounted(t1, "disk", "mount point", h2, t2)
    BY <2>1, <2>3, MountFlat
  <2>5. Len(t1) = 2 /\ Len(t1) + 1 = 3
    BY <1>8
  <2>6. /\ t2 \in Seq(NodeSet) /\ Flat(t2) /\ Len(t2) = Len(t1) + 1
        /\ \A j \in 2 .. Len(t1) : t2[j] = t1[j]
        /\ t2[1].hook = t1[1].hook
        /\ t2[Len(t1) + 1].name = "disk" /\ t2[Len(t1) + 1].type = "mount point"
        /\ t2[Len(t1) + 1].hook = FourHooks(h2)
    BY ONLY <2>4 DEF Mounted
  <2>7. t2[2] = t1[2]
    <3>1. 2 \in 2 .. Len(t1)
      BY ONLY <2>5
    <3>2. \A j \in 2 .. Len(t1) : t2[j] = t1[j]
      BY ONLY <2>6, Zenon
    <3> QED
      BY ONLY <3>1, <3>2, Zenon
  <2>8. t1[1].hook["open"] = "none"
    BY <1>8
  <2> QED
    BY ONLY <2>5, <2>6, <2>7, <2>8
<1>10. /\ t3 \in Seq(NodeSet) /\ Flat(t3) /\ Len(t3) = 4
      /\ t3[1].hook["open"] = "none" /\ t3[2] = t2[2] /\ t3[3] = t2[3]
      /\ t3[4].name = "pipe" /\ t3[4].type = "special" /\ t3[4].hook = FourHooks(h3)
  <2>1. t3 = Hooked(Mknode(t2, <<"pipe">>, "special"), <<"pipe">>, h3)
    BY ONLY <1>4, <1>h DEF pipe_mknode
  <2>a. t2[1].name # "pipe"
    BY <1>9 DEF Flat
  <2>b. t2[2].name # "pipe"
    BY <1>8, <1>9
  <2>c. t2[3].name # "pipe"
    BY <1>9
  <2>2. \A k \in 1 .. Len(t2) : t2[k].name # "pipe"
    <3>1. Len(t2) = 3
      BY <1>9
    <3> QED
      BY ONLY <2>a, <2>b, <2>c, <3>1
  <2>3. Mountable(t2, "pipe", "special", h3)
    BY <1>7c, <1>9, <2>2 DEF Mountable, Names, Types
  <2>4. Mounted(t2, "pipe", "special", h3, t3)
    BY <2>1, <2>3, MountFlat
  <2>5. Len(t2) = 3 /\ Len(t2) + 1 = 4
    <3>1. Len(t2) = 3
      BY ONLY <1>9, Zenon
    <3> QED
      BY ONLY <3>1
  <2>6. /\ t3 \in Seq(NodeSet) /\ Flat(t3) /\ Len(t3) = Len(t2) + 1
        /\ \A j \in 2 .. Len(t2) : t3[j] = t2[j]
        /\ t3[1].hook = t2[1].hook
        /\ t3[Len(t2) + 1].name = "pipe" /\ t3[Len(t2) + 1].type = "special"
        /\ t3[Len(t2) + 1].hook = FourHooks(h3)
    BY ONLY <2>4 DEF Mounted
  <2>7. t3[2] = t2[2] /\ t3[3] = t2[3]
    BY ONLY <2>5, <2>6
  <2>8. t2[1].hook["open"] = "none"
    BY <1>9
  <2> QED
    BY ONLY <2>5, <2>6, <2>7, <2>8
<1>11. FourHooks(h1) = [h \in HookNames |->
         CASE h = "open" -> "stdio_open" [] h = "close" -> "stdio_close"
           [] h = "read" -> "stdio_read" [] h = "write" -> "stdio_write"
           [] OTHER -> "none"]
  BY ONLY <1>h DEF FourHooks, HookNames
<1>12. FourHooks(h2) = [h \in HookNames |->
         CASE h = "open" -> "fat_open" [] h = "close" -> "fat_close"
           [] h = "read" -> "fat_read" [] h = "lseek" -> "fat_lseek"
           [] OTHER -> "none"]
  BY ONLY <1>h DEF FourHooks, HookNames
<1>13. FourHooks(h3) = [h \in HookNames |->
         CASE h = "open" -> "pipe_open" [] h = "close" -> "pipe_close"
           [] h = "read" -> "pipe_read" [] h = "write" -> "pipe_write"
           [] OTHER -> "none"]
  BY ONLY <1>h DEF FourHooks, HookNames
<1>14. t3[2] = t1[2] /\ t3[3] = t2[3]
  BY ONLY <1>9, <1>10
<1>15. t3 \in Seq(NodeSet) /\ Flat(t3) /\ Len(t3) = 4 /\ t3[1].hook["open"] = "none"
  BY ONLY <1>10, Zenon
<1>16. t3[2].name = "stdio" /\ t3[2].type = "special" /\ t3[2].hook = FourHooks(h1)
  BY ONLY <1>8, <1>14
<1>17. t3[3].name = "disk" /\ t3[3].type = "mount point" /\ t3[3].hook = FourHooks(h2)
  BY ONLY <1>9, <1>14
<1>18. t3[4].name = "pipe" /\ t3[4].type = "special" /\ t3[4].hook = FourHooks(h3)
  BY ONLY <1>10, Zenon
<1> QED
  BY ONLY <1>5, <1>11, <1>12, <1>13, <1>15, <1>16, <1>17, <1>18, Zenon
     DEF FsTree, Root, StdioNode, DiskNode, PipeNode

\* Where find_node ends in that tree.
LEMMA Finds ==
  ASSUME FsTree(nodes), NEW path, Len(path) \in Nat,
         \A i \in 1 .. Len(path) : path[i] # "/"
  PROVE  FindNode(nodes, path) =
           CASE Len(path) = 0 -> Root
             [] Len(path) # 0 /\ Repeats(path) /\ path[1] = "stdio" -> StdioNode
             [] Len(path) # 0 /\ path[1] = "disk" -> DiskNode
             [] Len(path) # 0 /\ Repeats(path) /\ path[1] = "pipe" -> PipeNode
             [] OTHER -> NoNode
<1>1. /\ Flat(nodes) /\ Len(nodes) = 4 /\ nodes[1].name = "/"
      /\ nodes[2].name = "stdio" /\ nodes[2].type = "special"
      /\ nodes[3].name = "disk" /\ nodes[3].type = "mount point"
      /\ nodes[4].name = "pipe" /\ nodes[4].type = "special"
  BY DEF FsTree, Flat, StdioNode, DiskNode, PipeNode
<1>2. CASE Len(path) = 0
  BY <1>2, FindEmpty
<1>3. ASSUME Len(path) # 0
      PROVE  \E k \in {0, 2, 3, 4} :
               /\ k = 2 <=> path[1] = "stdio"
               /\ k = 3 <=> path[1] = "disk"
               /\ k = 4 <=> path[1] = "pipe"
               /\ FindNode(nodes, path) =
                    IF k # NoNode /\ (Repeats(path) \/ nodes[k].type = "mount point")
                      THEN k ELSE NoNode
  <2>0. path[1] # "/" /\ Len(path) \in Nat \ {0}
    BY <1>3
  <2>1. PICK k : k = IF path[1] = "stdio" THEN 2 ELSE IF path[1] = "disk" THEN 3
                     ELSE IF path[1] = "pipe" THEN 4 ELSE 0
    OBVIOUS
  <2>2. Begins(nodes, path, k)
    <3>0. Len(nodes) = 4
      BY ONLY <1>1
    <3>1. \A j \in 1 .. Len(nodes) : j = 1 \/ j = 2 \/ j = 3 \/ j = 4
      BY ONLY <3>0
    <3>2. k = 0 => \A j \in 1 .. Len(nodes) : path[1] # nodes[j].name
      <4>1. SUFFICES ASSUME k = 0, NEW j \in 1 .. Len(nodes) PROVE path[1] # nodes[j].name
        OBVIOUS
      <4>2. path[1] \notin {"/", "stdio", "disk", "pipe"}
        BY ONLY <2>0, <2>1, <4>1
      <4>3. nodes[j].name \in {"/", "stdio", "disk", "pipe"}
        <5>1. /\ nodes[1].name = "/" /\ nodes[2].name = "stdio"
              /\ nodes[3].name = "disk" /\ nodes[4].name = "pipe"
          BY ONLY <1>1, Zenon
        <5> QED
          BY ONLY <3>1, <5>1, j \in 1 .. Len(nodes)
      <4> QED
        BY ONLY <4>2, <4>3
    <3>3. 2 \in 2 .. Len(nodes) /\ 3 \in 2 .. Len(nodes) /\ 4 \in 2 .. Len(nodes)
      BY ONLY <3>0
    <3> QED
      BY ONLY <1>1, <2>1, <3>2, <3>3 DEF Begins, NoNode
  <2>3. FindNode(nodes, path) =
          IF k # NoNode /\ (Repeats(path) \/ nodes[k].type = "mount point")
            THEN k ELSE NoNode
    BY ONLY <1>1, <2>0, <2>2, FindFacts
  <2>4. k \in {0, 2, 3, 4} /\ (k = 2 <=> path[1] = "stdio")
        /\ (k = 3 <=> path[1] = "disk") /\ (k = 4 <=> path[1] = "pipe")
    BY ONLY <2>1
  <2> QED
    BY ONLY <2>3, <2>4
<1>4. CASE Len(path) # 0
  BY <1>1, <1>3, <1>4 DEF StdioNode, DiskNode, PipeNode, NoNode, Root
<1> QED
  BY <1>2, <1>4

\* The hooks of the nodes that can be opened.
LEMMA HookValues ==
  ASSUME FsTree(nodes), NEW c, contexts[c].node \in {StdioNode, DiskNode, PipeNode}
  PROVE  /\ contexts[c].node = StdioNode =>
              /\ Hook(c, "open") = "stdio_open" /\ Hook(c, "close") = "stdio_close"
              /\ Hook(c, "read") = "stdio_read" /\ Hook(c, "write") = "stdio_write"
              /\ Hook(c, "lseek") = "none" /\ nodes[contexts[c].node].name = "stdio"
         /\ contexts[c].node = DiskNode =>
              /\ Hook(c, "open") = "fat_open" /\ Hook(c, "close") = "fat_close"
              /\ Hook(c, "read") = "fat_read" /\ Hook(c, "write") = "none"
              /\ Hook(c, "lseek") = "fat_lseek" /\ nodes[contexts[c].node].name = "disk"
         /\ contexts[c].node = PipeNode =>
              /\ Hook(c, "open") = "pipe_open" /\ Hook(c, "close") = "pipe_close"
              /\ Hook(c, "read") = "pipe_read" /\ Hook(c, "write") = "pipe_write"
              /\ Hook(c, "lseek") = "none" /\ nodes[contexts[c].node].name = "pipe"
         /\ Hook(c, "ioctl") = "none" /\ Hook(c, "fstat") = "none"
<1>1. /\ "open" \in HookNames /\ "close" \in HookNames /\ "read" \in HookNames
      /\ "write" \in HookNames /\ "lseek" \in HookNames /\ "ioctl" \in HookNames
      /\ "fstat" \in HookNames
  BY DEF HookNames
<1>2. StdioNode # DiskNode /\ StdioNode # PipeNode /\ DiskNode # PipeNode
  BY DEF StdioNode, DiskNode, PipeNode
<1>3. PICK n : n = contexts[c].node
  OBVIOUS
<1>4. \A h : Hook(c, h) = nodes[n].hook[h]
  BY <1>3 DEF Hook
<1>5. CASE n = StdioNode
  <2>1. /\ nodes[n].name = "stdio"
        /\ nodes[n].hook = [h \in HookNames |->
             CASE h = "open" -> "stdio_open" [] h = "close" -> "stdio_close"
               [] h = "read" -> "stdio_read" [] h = "write" -> "stdio_write"
               [] OTHER -> "none"]
    BY <1>5 DEF FsTree
  <2> QED
    BY ONLY <1>1, <1>2, <1>3, <1>4, <1>5, <2>1
<1>6. CASE n = DiskNode
  <2>1. /\ nodes[n].name = "disk"
        /\ nodes[n].hook = [h \in HookNames |->
             CASE h = "open" -> "fat_open" [] h = "close" -> "fat_close"
               [] h = "read" -> "fat_read" [] h = "lseek" -> "fat_lseek"
               [] OTHER -> "none"]
    BY <1>6 DEF FsTree
  <2> QED
    BY ONLY <1>1, <1>2, <1>3, <1>4, <1>6, <2>1
<1>7. CASE n = PipeNode
  <2>1. /\ nodes[n].name = "pipe"
        /\ nodes[n].hook = [h \in HookNames |->
             CASE h = "open" -> "pipe_open" [] h = "close" -> "pipe_close"
               [] h = "read" -> "pipe_read" [] h = "write" -> "pipe_write"
               [] OTHER -> "none"]
    BY <1>7 DEF FsTree
  <2> QED
    BY ONLY <1>1, <1>2, <1>3, <1>4, <1>7, <2>1
<1> QED
  BY <1>3, <1>5, <1>6, <1>7
-----------------------------------------------------------------------------
(***************************************************************************)
(* The invariant.                                                          *)
(***************************************************************************)
Typed ==
  /\ running \in BOOLEAN
  /\ FirstProc \in procs /\ procs \subseteq Procs
  /\ fd_table \in [Procs -> [Fds -> {NULL} \cup DOMAIN contexts]]
  /\ contexts \in Seq([node : {StdioNode, DiskNode, PipeNode},
                       object : Addresses \cup {NULL}])
  /\ freed \subseteq DOMAIN contexts
  /\ used \subseteq Addresses
  /\ memory \in [Addresses -> [bytes : Seq(Bytes), offset : Int]]

\* Whether the object of a context is on the heap: a close frees that of a pipe.
Keeps(c) == Object(c) # NULL /\ (c \in freed => contexts[c].node = DiskNode)

\* The contexts that keep an object share none and leave none out.
Separate ==
  /\ \A c \in DOMAIN contexts : Keeps(c) => Object(c) \in used
  /\ \A c, d \in DOMAIN contexts :
       Keeps(c) /\ Keeps(d) /\ Object(c) = Object(d) => c = d
  /\ \A a \in used : \E c \in DOMAIN contexts : Keeps(c) /\ Object(c) = a

\* stdio has no object; a pipe has one, whose offset nothing moves; what is
\* closed had one.
Placed ==
  \A c \in DOMAIN contexts :
    /\ c \in freed => Object(c) # NULL
    /\ contexts[c].node = StdioNode => Object(c) = NULL
    /\ contexts[c].node = PipeNode => Object(c) # NULL
    /\ contexts[c].node = PipeNode /\ HasObject(c) => memory[Object(c)].offset = 0

Inv == nodes = fs_init /\ Typed /\ Separate /\ Placed

LEMMA TreeTyped ==
  fs_init \in Seq([name : Names, type : Types, children : Seq(DOMAIN fs_init),
                   hook : [HookNames -> Functions]])
<1>1. PICK t : t = fs_init
  OBVIOUS
<1>2. t \in Seq(NodeSet) /\ Flat(t) /\ Len(t) = 4 /\ DOMAIN t = 1 .. 4
  <2>1. FsTree(t)
    BY <1>1, TreeBuilt
  <2>2. t \in Seq(NodeSet) /\ Flat(t) /\ Len(t) = 4
    BY ONLY <2>1, Zenon DEF FsTree
  <2>3. DOMAIN t = 1 .. Len(t)
    BY ONLY <2>2, Zenon DEF Flat
  <2> QED
    BY ONLY <2>2, <2>3, Zenon
<1> DEFINE S == [name : Names, type : Types, children : Seq(1 .. 4),
                 hook : [HookNames -> Functions]]
<1>3. ASSUME NEW k \in 1 .. 4 PROVE t[k] \in S
  <2>1. t[k] \in NodeSet
    <3>1. t \in Seq(NodeSet) /\ k \in 1 .. Len(t)
      BY ONLY <1>2, <1>3
    <3> QED
      BY ONLY <3>1
  <2>2. t[k].children \in Seq(1 .. 4)
    <3>1. CASE k = 1
      <4>1. t[1].children = [j \in 1 .. 3 |-> j + 1]
        BY <1>2 DEF Flat
      <4>2. [j \in 1 .. 3 |-> j + 1] \in [1 .. 3 -> 1 .. 4]
        OBVIOUS
      <4> QED
        BY <3>1, <4>1, <4>2
    <3>2. CASE k \in 2 .. 4
      <4>1. t[k].children = <<>>
        BY <1>2, <3>2 DEF Flat
      <4> QED
        BY ONLY <4>1
    <3> QED
      BY <3>1, <3>2
  <2> QED
    BY <2>1, <2>2 DEF NodeSet
<1>4. t = [k \in 1 .. 4 |-> t[k]]
  BY <1>2
<1> HIDE DEF S
<1>5. t \in Seq(S)
  BY <1>3, <1>4
<1> QED
  BY <1>1, <1>2, <1>5 DEF S

LEMMA InvImplies == Inv => TypeOK /\ Owned
<1> SUFFICES ASSUME Inv PROVE TypeOK /\ Owned
  OBVIOUS
<1>1. TypeOK
  <2>1. nodes \in Seq([name : Names, type : Types, children : Seq(DOMAIN nodes),
                       hook : [HookNames -> Functions]])
    BY TreeTyped DEF Inv
  <2>2. {StdioNode, DiskNode, PipeNode} \subseteq DOMAIN nodes
    <3>1. DOMAIN nodes = 1 .. 4
      <4>1. PICK t : t = nodes
        OBVIOUS
      <4>2. FsTree(t)
        BY <4>1, TreeBuilt DEF Inv
      <4>3. DOMAIN t = 1 .. Len(t) /\ Len(t) = 4
        BY ONLY <4>2, Zenon DEF FsTree, Flat
      <4> QED
        BY ONLY <4>1, <4>3
    <3> QED
      BY ONLY <3>1 DEF StdioNode, DiskNode, PipeNode
  <2>3. contexts \in Seq([node : DOMAIN nodes, object : Addresses \cup {NULL}])
    <3>1. contexts \in Seq([node : {StdioNode, DiskNode, PipeNode},
                            object : Addresses \cup {NULL}])
      BY DEF Inv, Typed
    <3>2. [node : {StdioNode, DiskNode, PipeNode}, object : Addresses \cup {NULL}]
            \subseteq [node : DOMAIN nodes, object : Addresses \cup {NULL}]
      BY <2>2
    <3>3. ASSUME NEW S, NEW T, S \subseteq T, contexts \in Seq(S) PROVE contexts \in Seq(T)
      BY ONLY <3>3
    <3> HIDE DEF Inv
    <3> QED
      BY ONLY <3>1, <3>2, <3>3, Zenon
  <2> QED
    BY <2>1, <2>3 DEF Inv, Typed, TypeOK
<1>2. Owned
  <2>1. /\ \A c \in DOMAIN contexts : Keeps(c) => Object(c) \in used
        /\ \A c, d \in DOMAIN contexts :
             Keeps(c) /\ Keeps(d) /\ Object(c) = Object(d) => c = d
        /\ \A a \in used : \E c \in DOMAIN contexts : Keeps(c) /\ Object(c) = a
        /\ \A c \in freed : Object(c) # NULL
        /\ freed \subseteq DOMAIN contexts
    BY DEF Inv, Typed, Separate, Placed
  <2>2. ASSUME NEW c \in DOMAIN contexts
        PROVE  (Hook(c, "open") = "fat_open") <=> (contexts[c].node = DiskNode)
    <3>1. contexts[c].node \in {StdioNode, DiskNode, PipeNode}
      <4>1. contexts \in Seq([node : {StdioNode, DiskNode, PipeNode},
                              object : Addresses \cup {NULL}])
        BY DEF Inv, Typed
      <4>2. ASSUME NEW S, contexts \in Seq(S) PROVE contexts[c] \in S
        BY ONLY <4>2, c \in DOMAIN contexts
      <4>3. contexts[c] \in [node : {StdioNode, DiskNode, PipeNode},
                             object : Addresses \cup {NULL}]
        BY ONLY <4>1, <4>2, Zenon
      <4> QED
        BY ONLY <4>3
    <3>2. FsTree(nodes)
      BY TreeBuilt DEF Inv
    <3>3. /\ contexts[c].node = StdioNode => Hook(c, "open") = "stdio_open"
          /\ contexts[c].node = DiskNode => Hook(c, "open") = "fat_open"
          /\ contexts[c].node = PipeNode => Hook(c, "open") = "pipe_open"
      BY <3>2, HookValues
    <3> QED
      BY ONLY <3>1, <3>3
  <2>3. NULL \notin Addresses
    BY FilesAssumption
  <2>4. \A a : a \in LeftBehind <=>
          \E c \in freed : contexts[c].node = DiskNode /\ Object(c) = a
    BY ONLY <2>1, <2>2 DEF LeftBehind
  <2>5. LeftBehind \subseteq used
    BY ONLY <2>1, <2>4 DEF Keeps
  <2>6. ASSUME NEW a \in Addresses, NEW c \in DOMAIN contexts
        PROVE  (Object(c) = a /\ c \notin freed) <=>
                 (Keeps(c) /\ Object(c) = a /\ a \notin LeftBehind)
    <3>1. CASE Object(c) = a /\ c \notin freed
      <4>1. Keeps(c)
        BY ONLY <2>3, <2>6, <3>1 DEF Keeps
      <4>2. ASSUME NEW d \in freed, contexts[d].node = DiskNode, Object(d) = a PROVE FALSE
        <5>1. Keeps(d) /\ d \in DOMAIN contexts
          BY ONLY <2>1, <4>2 DEF Keeps
        <5>2. c = d
          BY ONLY <2>1, <2>6, <3>1, <4>1, <4>2, <5>1
        <5> QED
          BY ONLY <3>1, <4>2, <5>2
      <4> QED
        BY ONLY <2>4, <3>1, <4>1, <4>2
    <3>2. CASE Keeps(c) /\ Object(c) = a /\ a \notin LeftBehind
      BY ONLY <2>4, <3>2 DEF Keeps
    <3> QED
      BY ONLY <3>1, <3>2
  <2> QED
    BY <2>1, <2>5, <2>6 DEF Owned
<1> QED
  BY <1>1, <1>2

LEMMA InitInv == Init => Inv
<1> SUFFICES ASSUME Init PROVE Inv
  OBVIOUS
<1>1. contexts = <<>> /\ DOMAIN contexts = {} /\ freed = {} /\ used = {}
  BY DEF Init
<1>2. fd_table \in [Procs -> [Fds -> {NULL} \cup DOMAIN contexts]]
  BY DEF Init
<1>3. memory \in [Addresses -> [bytes : Seq(Bytes), offset : Int]]
  <2>1. \A a \in Addresses : memory[a] = [bytes |-> <<>>, offset |-> 0]
    BY DEF Init
  <2>2. [bytes |-> <<>>, offset |-> 0] \in [bytes : Seq(Bytes), offset : Int]
    OBVIOUS
  <2>3. memory = [a \in Addresses |-> memory[a]]
    BY DEF Init
  <2> QED
    BY ONLY <2>1, <2>2, <2>3
<1>4. contexts \in Seq([node : {StdioNode, DiskNode, PipeNode},
                        object : Addresses \cup {NULL}])
  BY <1>1
<1>5. running \in BOOLEAN /\ FirstProc \in procs /\ procs \subseteq Procs
  BY FilesAssumption DEF Init
<1>6. Typed
  BY <1>1, <1>2, <1>3, <1>4, <1>5 DEF Typed
<1> QED
  BY <1>1, <1>6 DEF Inv, Separate, Placed, Init
-----------------------------------------------------------------------------
(***************************************************************************)
(* What calls do to processes, contexts and objects.                       *)
(***************************************************************************)
Kind(node) ==
  IF node = StdioNode THEN "stdio" ELSE IF node = DiskNode THEN "file" ELSE "pipe"

\* The open file of a context, by the place of its node.
Stands(c) ==
  [kind |-> Kind(contexts[c].node),
   usable |-> HasObject(c) \/ contexts[c].node = StdioNode,
   contents |-> IF HasObject(c) THEN memory[Object(c)].bytes ELSE <<>>,
   at |-> IF HasObject(c) THEN memory[Object(c)].offset ELSE 0]

LEMMA FileIs ==
  ASSUME nodes = fs_init, NEW c, contexts[c].node \in {StdioNode, DiskNode, PipeNode}
  PROVE  File(c) = Stands(c)
<1>1. FsTree(nodes)
  BY TreeBuilt
<1>2. /\ StdioNode # DiskNode /\ StdioNode # PipeNode /\ DiskNode # PipeNode
  BY DEF StdioNode, DiskNode, PipeNode
<1>3. /\ contexts[c].node = StdioNode =>
           Hook(c, "open") = "stdio_open" /\ nodes[contexts[c].node].name = "stdio"
      /\ contexts[c].node = DiskNode =>
           Hook(c, "open") = "fat_open" /\ nodes[contexts[c].node].name = "disk"
      /\ contexts[c].node = PipeNode =>
           Hook(c, "open") = "pipe_open" /\ nodes[contexts[c].node].name = "pipe"
  BY <1>1, HookValues
<1>4. (Hook(c, "open") = "stdio_open") <=> (contexts[c].node = StdioNode)
  BY ONLY <1>2, <1>3, contexts[c].node \in {StdioNode, DiskNode, PipeNode}
<1>5. Kind(contexts[c].node) = IF nodes[contexts[c].node].name = "disk" THEN "file"
                               ELSE nodes[contexts[c].node].name
  BY ONLY <1>2, <1>3, contexts[c].node \in {StdioNode, DiskNode, PipeNode} DEF Kind
<1> QED
  BY ONLY <1>4, <1>5, Zenon DEF File, Stands

\* Nothing.
Quiet == UNCHANGED <<procs, fd_table, contexts, freed, used, memory>>

LEMMA QuietStep ==
  ASSUME Inv, Quiet, nodes' = nodes, running' \in BOOLEAN
  PROVE  Inv' /\ \A c : Stands(c)' = Stands(c)
BY DEF Inv, Typed, Separate, Placed, Quiet, Keeps, HasObject, Object, Stands

\* The bytes or the offset of one object.
Changes(c, bytes, offset) ==
  /\ HasObject(c)
  /\ memory' = [memory EXCEPT ![Object(c)] = [bytes |-> bytes, offset |-> offset]]
  /\ UNCHANGED <<procs, fd_table, contexts, freed, used>>

LEMMA ChangesStep ==
  ASSUME Inv, NEW c \in DOMAIN contexts, NEW bytes \in Seq(Bytes), NEW offset \in Int,
         contexts[c].node = PipeNode => offset = 0,
         Changes(c, bytes, offset), nodes' = nodes, running' \in BOOLEAN
  PROVE  /\ Inv'
         /\ \A d \in DOMAIN contexts :
              Stands(d)' = IF d = c THEN [Stands(c) EXCEPT !.contents = bytes, !.at = offset]
                           ELSE Stands(d)
<1>1. Object(c) \in Addresses
  BY DEF Inv, Typed, Separate, Changes, HasObject, Keeps
<1>2. /\ memory'[Object(c)] = [bytes |-> bytes, offset |-> offset]
      /\ \A a \in Addresses : a # Object(c) => memory'[a] = memory[a]
      /\ memory' = [a \in Addresses |-> memory'[a]]
  BY <1>1 DEF Inv, Typed, Changes
<1>3. [bytes |-> bytes, offset |-> offset] \in [bytes : Seq(Bytes), offset : Int]
  OBVIOUS
<1>4. memory' \in [Addresses -> [bytes : Seq(Bytes), offset : Int]]
  <2>1. \A a \in Addresses : memory[a] \in [bytes : Seq(Bytes), offset : Int]
    BY DEF Inv, Typed
  <2> QED
    BY ONLY <1>2, <1>3, <2>1
<1>5. /\ \A d : HasObject(d)' = HasObject(d) /\ Object(d)' = Object(d)
      /\ \A d : Keeps(d)' = Keeps(d) /\ (HasObject(d) => Keeps(d))
      /\ contexts' = contexts /\ used' = used /\ freed' = freed /\ HasObject(c)
  BY DEF Changes, HasObject, Object, Keeps
<1>6. ASSUME NEW d \in DOMAIN contexts, HasObject(d), d # c
      PROVE  Object(d) \in Addresses /\ Object(d) # Object(c)
  BY <1>5, <1>6 DEF Inv, Typed, Separate
<1>7. Typed'
  BY <1>4 DEF Inv, Typed, Changes
<1>8. Separate'
  BY <1>5 DEF Inv, Separate
<1>9. Placed'
  <2>1. ASSUME NEW d \in DOMAIN contexts
        PROVE  /\ d \in freed => Object(d) # NULL
               /\ contexts[d].node = StdioNode => Object(d) = NULL
               /\ contexts[d].node = PipeNode => Object(d) # NULL
               /\ contexts[d].node = PipeNode /\ HasObject(d) => memory[Object(d)].offset = 0
    BY DEF Inv, Placed
  <2>2. ASSUME NEW d \in DOMAIN contexts, contexts[d].node = PipeNode, HasObject(d)
        PROVE  memory'[Object(d)].offset = 0
    <3>1. CASE d = c
      BY <1>2, <2>2, <3>1
    <3>2. CASE d # c
      BY <1>2, <1>6, <2>1, <2>2, <3>2
    <3> QED
      BY <3>1, <3>2
  <2> QED
    BY <1>5, <2>1, <2>2 DEF Placed
<1>10. ASSUME NEW d \in DOMAIN contexts
       PROVE  Stands(d)' = IF d = c THEN [Stands(c) EXCEPT !.contents = bytes, !.at = offset]
                           ELSE Stands(d)
  <2>1. CASE d = c
    <3>1. Stands(c)' = [kind |-> Kind(contexts[c].node),
                        usable |-> HasObject(c) \/ contexts[c].node = StdioNode,
                        contents |-> bytes, at |-> offset]
      BY <1>2, <1>5 DEF Stands
    <3> QED
      BY <2>1, <3>1 DEF Stands
  <2>2. CASE d # c
    <3>1. HasObject(d) => memory'[Object(d)] = memory[Object(d)]
      BY <1>2, <1>6, <2>2
    <3> QED
      BY <1>5, <2>2, <3>1 DEF Stands
  <2> QED
    BY <2>1, <2>2
<1> QED
  BY <1>7, <1>8, <1>9, <1>10 DEF Inv

\* A close: the object of a pipe goes, the copy of a file stays.
Frees(c) ==
  /\ HasObject(c)
  /\ used' = used \ (IF contexts[c].node = DiskNode THEN {} ELSE {Object(c)})
  /\ freed' = freed \cup {c}
  /\ UNCHANGED <<procs, fd_table, contexts, memory>>

LEMMA FreesStep ==
  ASSUME Inv, NEW c \in DOMAIN contexts, Frees(c), nodes' = nodes, running' \in BOOLEAN
  PROVE  /\ Inv'
         /\ \A d \in DOMAIN contexts :
              Stands(d)' = IF d = c THEN [Stands(c) EXCEPT !.usable = FALSE,
                                                           !.contents = <<>>, !.at = 0]
                           ELSE Stands(d)
<1>1. /\ contexts' = contexts /\ memory' = memory /\ HasObject(c)
      /\ freed' = freed \cup {c}
      /\ \A d : Object(d)' = Object(d)
      /\ \A d : HasObject(d)' <=> HasObject(d) /\ d # c
  BY DEF Frees, HasObject, Object
<1>2. Object(c) # NULL /\ contexts[c].node # StdioNode /\ Keeps(c)
  BY <1>1 DEF Inv, Placed, HasObject, Keeps
<1>3. Typed'
  BY <1>1 DEF Inv, Typed, Frees
<1>4. Separate'
  <2>1. /\ \A d \in DOMAIN contexts : Keeps(d) => Object(d) \in used
        /\ \A d, e \in DOMAIN contexts :
             Keeps(d) /\ Keeps(e) /\ Object(d) = Object(e) => d = e
        /\ \A a \in used : \E d \in DOMAIN contexts : Keeps(d) /\ Object(d) = a
    BY DEF Inv, Separate
  <2>2. \A d : d # c => (Keeps(d)' <=> Keeps(d))
    BY <1>1 DEF Keeps
  <2>3. CASE contexts[c].node = DiskNode
    <3>1. used' = used /\ Keeps(c)'
      BY <1>1, <1>2, <2>3 DEF Frees, Keeps
    <3>2. \A d : Keeps(d)' <=> Keeps(d)
      BY ONLY <1>2, <2>2, <3>1
    <3> QED
      BY <1>1, <2>1, <3>1, <3>2 DEF Separate
  <2>4. CASE contexts[c].node # DiskNode
    <3>1. used' = used \ {Object(c)} /\ ~ Keeps(c)'
      BY <1>1, <2>4 DEF Frees, Keeps
    <3>2. \A d : Keeps(d)' <=> Keeps(d) /\ d # c
      BY ONLY <2>2, <3>1
    <3>3. \A d \in DOMAIN contexts : Keeps(d)' => Object(d)' \in used'
      BY ONLY <1>1, <1>2, <2>1, <3>1, <3>2, c \in DOMAIN contexts
    <3>4. \A d, e \in DOMAIN contexts :
            Keeps(d)' /\ Keeps(e)' /\ Object(d)' = Object(e)' => d = e
      BY ONLY <1>1, <2>1, <3>2
    <3>5. \A a \in used' : \E d \in DOMAIN contexts : Keeps(d)' /\ Object(d)' = a
      BY ONLY <1>1, <2>1, <3>1, <3>2
    <3> QED
      BY <1>1, <3>3, <3>4, <3>5 DEF Separate
  <2> QED
    BY <2>3, <2>4
<1>5. Placed'
  BY <1>1, <1>2 DEF Inv, Placed
<1>6. ASSUME NEW d \in DOMAIN contexts
      PROVE  Stands(d)' = IF d = c THEN [Stands(c) EXCEPT !.usable = FALSE,
                                                          !.contents = <<>>, !.at = 0]
                          ELSE Stands(d)
  <2>1. CASE d = c
    <3>1. Stands(c)' = [kind |-> Kind(contexts[c].node), usable |-> FALSE,
                        contents |-> <<>>, at |-> 0]
      BY <1>1, <1>2 DEF Stands
    <3> QED
      BY <2>1, <3>1 DEF Stands
  <2>2. CASE d # c
    BY <1>1, <2>2 DEF Stands
  <2> QED
    BY <2>1, <2>2
<1> QED
  BY <1>3, <1>4, <1>5, <1>6 DEF Inv

\* A context more, with an object in free memory or none.
Adds(node, object, bytes) ==
  /\ contexts' = Append(contexts, [node |-> node, object |-> object])
  /\ \/ object = NULL /\ UNCHANGED <<used, memory>>
     \/ object \in Addresses /\ Allocate(object, bytes)
  /\ UNCHANGED <<procs, freed>>

LEMMA AddsStep ==
  ASSUME Inv, NEW node \in {StdioNode, DiskNode, PipeNode}, NEW object,
         NEW bytes \in Seq(Bytes), Adds(node, object, bytes),
         NEW n, n = Len(contexts) + 1,
         node = StdioNode => object = NULL,
         node = PipeNode => object # NULL,
         fd_table' \in [Procs -> [Fds -> {NULL} \cup DOMAIN contexts']],
         nodes' = nodes, running' \in BOOLEAN
  PROVE  /\ Inv'
         /\ DOMAIN contexts' = 1 .. n /\ Len(contexts) \in Nat
         /\ DOMAIN contexts = 1 .. Len(contexts)
         /\ \A d \in DOMAIN contexts : Stands(d)' = Stands(d)
         /\ Stands(n)' =
              [kind |-> Kind(node), usable |-> object # NULL \/ node = StdioNode,
               contents |-> IF object # NULL THEN bytes ELSE <<>>, at |-> 0]
<1>1. n = Len(contexts) + 1
  OBVIOUS
<1> DEFINE S == [node : {StdioNode, DiskNode, PipeNode}, object : Addresses \cup {NULL}]
<1>2. /\ contexts \in Seq(S) /\ freed \subseteq DOMAIN contexts /\ used \subseteq Addresses
      /\ memory \in [Addresses -> [bytes : Seq(Bytes), offset : Int]]
      /\ FirstProc \in procs /\ procs \subseteq Procs
  BY DEF Inv, Typed
<1>3. object \in Addresses \cup {NULL} /\ [node |-> node, object |-> object] \in S
  BY DEF Adds
<1>4. PICK x : x = [node |-> node, object |-> object]
  OBVIOUS
<1>5. contexts' = Append(contexts, x)
  BY <1>4 DEF Adds
<1>6. /\ contexts' \in Seq(S) /\ DOMAIN contexts' = 1 .. n /\ n \in Nat
      /\ Len(contexts) \in Nat /\ DOMAIN contexts = 1 .. Len(contexts)
      /\ contexts'[n] = x
      /\ \A d \in DOMAIN contexts : contexts'[d] = contexts[d]
  <2>1. contexts \in Seq(S) /\ x \in S
    BY <1>2, <1>3, <1>4
  <2> HIDE DEF S
  <2>2. /\ Append(contexts, x) \in Seq(S) /\ DOMAIN Append(contexts, x) = 1 .. Len(contexts) + 1
        /\ Append(contexts, x)[Len(contexts) + 1] = x
        /\ \A i \in 1 .. Len(contexts) : Append(contexts, x)[i] = contexts[i]
    BY ONLY <2>1, AppendSeq
  <2>3. Len(contexts) \in Nat /\ DOMAIN contexts = 1 .. Len(contexts)
    BY ONLY <2>1
  <2> QED
    BY ONLY <1>1, <1>5, <2>2, <2>3
<1>7. /\ n \notin DOMAIN contexts /\ n \notin freed /\ freed' = freed
      /\ DOMAIN contexts' = DOMAIN contexts \cup {n}
  <2>1. n \notin DOMAIN contexts /\ DOMAIN contexts' = DOMAIN contexts \cup {n}
    BY ONLY <1>1, <1>6
  <2> QED
    BY <1>2, <2>1 DEF Adds
<1>8. /\ \A d \in DOMAIN contexts : Object(d)' = Object(d) /\ (HasObject(d)' <=> HasObject(d))
      /\ \A d \in DOMAIN contexts : (Keeps(d)' <=> Keeps(d)) /\ (HasObject(d) => Keeps(d))
      /\ Object(n)' = object /\ (HasObject(n)' <=> object # NULL)
      /\ Keeps(n)' <=> object # NULL
  BY <1>4, <1>6, <1>7 DEF Object, HasObject, Keeps
<1>9. object # NULL => /\ object \in Addresses /\ object \notin used
                       /\ used' = used \cup {object}
                       /\ memory' = [memory EXCEPT ![object] = Cleared(bytes, object)]
  BY FilesAssumption DEF Adds, Allocate
<1>10. object = NULL => used' = used /\ memory' = memory
  BY FilesAssumption DEF Adds
<1>11. /\ object # NULL => memory'[object] = [bytes |-> bytes, offset |-> 0]
       /\ \A a \in used : memory'[a] = memory[a]
       /\ memory' \in [Addresses -> [bytes : Seq(Bytes), offset : Int]]
  <2>1. [bytes |-> bytes, offset |-> 0] \in [bytes : Seq(Bytes), offset : Int]
    OBVIOUS
  <2>2. PICK cleared : cleared = [bytes |-> bytes, offset |-> 0]
    OBVIOUS
  <2>3. object # NULL => memory' = [memory EXCEPT ![object] = cleared]
    BY <1>9, <2>2 DEF Cleared
  <2> QED
    BY ONLY <1>2, <1>9, <1>10, <2>1, <2>2, <2>3
<1>12. Typed'
  <2>1. used' \subseteq Addresses
    BY ONLY <1>2, <1>9, <1>10
  <2>2. freed' \subseteq DOMAIN contexts'
    BY ONLY <1>2, <1>7
  <2>3. procs' = procs
    BY DEF Adds
  <2> QED
    BY <1>2, <1>6, <1>11, <2>1, <2>2, <2>3 DEF Typed
<1>13. Separate'
  <2>1. /\ \A d \in DOMAIN contexts : Keeps(d) => Object(d) \in used
        /\ \A d, e \in DOMAIN contexts :
             Keeps(d) /\ Keeps(e) /\ Object(d) = Object(e) => d = e
        /\ \A a \in used : \E d \in DOMAIN contexts : Keeps(d) /\ Object(d) = a
    BY DEF Inv, Separate
  <2>2. \A d \in DOMAIN contexts' : Keeps(d)' => Object(d)' \in used'
    BY ONLY <1>7, <1>8, <1>9, <1>10, <2>1
  <2>3. \A d, e \in DOMAIN contexts' :
          Keeps(d)' /\ Keeps(e)' /\ Object(d)' = Object(e)' => d = e
    BY ONLY <1>7, <1>8, <1>9, <1>10, <2>1
  <2>4. \A a \in used' : \E d \in DOMAIN contexts' : Keeps(d)' /\ Object(d)' = a
    BY ONLY <1>7, <1>8, <1>9, <1>10, <2>1
  <2> QED
    BY <2>2, <2>3, <2>4 DEF Separate
<1>14. Placed'
  <2>1. ASSUME NEW d \in DOMAIN contexts'
        PROVE  /\ d \in freed' => Object(d)' # NULL
               /\ contexts'[d].node = StdioNode => Object(d)' = NULL
               /\ contexts'[d].node = PipeNode => Object(d)' # NULL
               /\ contexts'[d].node = PipeNode /\ HasObject(d)' => memory'[Object(d)'].offset = 0
    <3>1. CASE d = n
      BY <1>4, <1>6, <1>7, <1>8, <1>11, <3>1
    <3>2. CASE d \in DOMAIN contexts
      <4>1. HasObject(d) => Object(d) \in used
        BY <1>8, <3>2 DEF Inv, Separate
      <4> QED
        BY <1>6, <1>7, <1>8, <1>11, <3>2, <4>1 DEF Inv, Placed
    <3> QED
      BY <1>7, <3>1, <3>2
  <2> QED
    BY <2>1 DEF Placed
<1>15. ASSUME NEW d \in DOMAIN contexts PROVE Stands(d)' = Stands(d)
  <2>1. HasObject(d) => Object(d) \in used
    BY <1>8 DEF Inv, Separate
  <2> QED
    BY <1>6, <1>8, <1>11, <2>1 DEF Stands
<1>16. Stands(n)' = [kind |-> Kind(node), usable |-> object # NULL \/ node = StdioNode,
                     contents |-> IF object # NULL THEN bytes ELSE <<>>, at |-> 0]
  BY <1>4, <1>6, <1>8, <1>11 DEF Stands
<1>17. Inv'
  BY <1>12, <1>13, <1>14 DEF Inv
<1> QED
  BY ONLY <1>1, <1>6, <1>15, <1>16, <1>17
-----------------------------------------------------------------------------
(***************************************************************************)
(* Opening.                                                                *)
(***************************************************************************)
\* A part of a sequence.
LEMMA SubSeqFacts ==
  ASSUME NEW S, NEW s \in Seq(S), NEW m \in Nat \ {0}, NEW n \in Int, n <= Len(s)
  PROVE  /\ SubSeq(s, m, n) \in Seq(S)
         /\ Len(SubSeq(s, m, n)) = IF m <= n THEN n - m + 1 ELSE 0
         /\ DOMAIN SubSeq(s, m, n) = 1 .. n - m + 1
         /\ \A i \in 1 .. n - m + 1 : SubSeq(s, m, n)[i] = s[i + m - 1]
OBVIOUS

\* Sequences with the same elements are the same.
LEMMA SameSeq ==
  ASSUME NEW S, NEW s \in Seq(S), NEW T, NEW t \in Seq(T), Len(s) = Len(t),
         \A i \in 1 .. Len(s) : s[i] = t[i]
  PROVE  s = t
OBVIOUS

\* What follows /disk in a path.
LEMMA VolumePath ==
  ASSUME FsTree(nodes), NEW path \in Seq(STRING), Len(path) # 0, path[1] = "disk",
         NEW real, real = RealPath(DiskNode, path)
  PROVE  /\ real = Tail(path) /\ Len(real) = Len(path) - 1
         /\ Len(path) > 2 => Front(real) = SubSeq(path, 2, Len(path) - 1)
<1> DEFINE I == {i \in 1 .. Len(path) : path[i] = "disk"}
           s == SelectInSeq(path, LAMBDA name : name = "disk")
<1>1. Len(path) \in Nat \ {0}
  OBVIOUS
<1>2. real = SubSeq(path, s + 1, Len(path))
  <2>1. nodes[DiskNode].name = "disk"
    BY DEF FsTree
  <2> QED
    BY <2>1 DEF RealPath
<1>3. 1 \in I /\ I \subseteq Nat
  BY <1>1
<1>4. s = Min(I)
  BY <1>3 DEF SelectInSeq
<1>5. \A i \in I : 1 <= i
  OBVIOUS
<1> HIDE DEF I
<1>6. Min(I) = 1
  <2>1. PICK k : k = Min(I)
    OBVIOUS
  <2>2. k \in I /\ k <= 1
    BY ONLY <1>3, <2>1, MinFacts
  <2>3. k \in Nat /\ 1 <= k
    BY ONLY <1>3, <1>5, <2>2
  <2> QED
    BY ONLY <2>1, <2>2, <2>3
<1> HIDE DEF s
<1>7. real = SubSeq(path, 2, Len(path))
  BY ONLY <1>2, <1>4, <1>6
<1>8. /\ real \in Seq(STRING) /\ Len(real) = Len(path) - 1
      /\ \A i \in 1 .. Len(path) - 1 : real[i] = path[i + 1]
  <2>1. Len(path) <= Len(path) /\ Len(path) \in Int /\ 2 \in Nat \ {0} /\ path \in Seq(STRING)
    BY <1>1
  <2>2. /\ SubSeq(path, 2, Len(path)) \in Seq(STRING)
        /\ Len(SubSeq(path, 2, Len(path))) =
             IF 2 <= Len(path) THEN Len(path) - 2 + 1 ELSE 0
        /\ \A i \in 1 .. Len(path) - 2 + 1 : SubSeq(path, 2, Len(path))[i] = path[i + 2 - 1]
    BY ONLY <2>1, SubSeqFacts
  <2>3. /\ Len(path) - 2 + 1 = Len(path) - 1
        /\ \A i \in 1 .. Len(path) - 1 : i + 2 - 1 = i + 1
    BY <1>1
  <2> QED
    BY ONLY <1>1, <1>7, <2>2, <2>3
<1>9. real = Tail(path)
  <2>1. /\ Tail(path) \in Seq(STRING) /\ Len(Tail(path)) = Len(path) - 1
        /\ \A i \in 1 .. Len(path) - 1 : Tail(path)[i] = path[i + 1]
    BY <1>1
  <2> QED
    BY ONLY <1>8, <2>1, SameSeq
<1>10. ASSUME Len(path) > 2 PROVE Front(real) = SubSeq(path, 2, Len(path) - 1)
  <2>1. Front(real) = SubSeq(real, 1, Len(real) - 1)
    BY DEF Front
  <2>2. /\ SubSeq(real, 1, Len(real) - 1) \in Seq(STRING)
        /\ Len(SubSeq(real, 1, Len(real) - 1)) = Len(path) - 2
        /\ \A i \in 1 .. Len(path) - 2 : SubSeq(real, 1, Len(real) - 1)[i] = path[i + 1]
    BY <1>1, <1>8, <1>10
  <2>3. /\ SubSeq(path, 2, Len(path) - 1) \in Seq(STRING)
        /\ Len(SubSeq(path, 2, Len(path) - 1)) = Len(path) - 2
        /\ \A i \in 1 .. Len(path) - 2 : SubSeq(path, 2, Len(path) - 1)[i] = path[i + 1]
    BY <1>1, <1>10
  <2> QED
    BY ONLY <2>1, <2>2, <2>3, SameSeq
<1> QED
  BY <1>8, <1>9, <1>10

\* fd_alloc enters the context at the first free descriptor.
LEMMA FdAlloc ==
  ASSUME Inv, NEW p \in Procs, NEW n, fd_alloc(p, n),
         DOMAIN contexts' = DOMAIN contexts \cup {n}
  PROVE  /\ fd_table' \in [Procs -> [Fds -> {NULL} \cup DOMAIN contexts']]
         /\ \/ Unused(p) = {} /\ ret' = -1 /\ fd_table' = fd_table
            \/ \E fd \in Unused(p) :
                 /\ \A other \in Unused(p) : fd <= other
                 /\ fd_table' = [fd_table EXCEPT ![p][fd] = n]
                 /\ ret' = fd
<1>1. fd_table \in [Procs -> [Fds -> {NULL} \cup DOMAIN contexts]]
  BY DEF Inv, Typed
<1>2. CASE Unused(p) = {}
  BY <1>1, <1>2 DEF fd_alloc
<1>3. CASE Unused(p) # {}
  <2>1. PICK fd : fd = Min(Unused(p))
    OBVIOUS
  <2>2. Unused(p) \subseteq Nat /\ Unused(p) \subseteq Fds
    BY DEF Unused, Fds
  <2>3. fd \in Unused(p) /\ \A other \in Unused(p) : fd <= other
    BY ONLY <1>3, <2>1, <2>2, MinFacts
  <2>4. ret' = fd /\ fd_table' = [fd_table EXCEPT ![p] = Entered(@, fd, n)]
    BY <1>3, <2>1 DEF fd_alloc
  <2>5. Entered(fd_table[p], fd, n) = [fd_table[p] EXCEPT ![fd] = n]
    BY <1>1, <2>2, <2>3 DEF Entered
  <2>6. fd_table' = [fd_table EXCEPT ![p][fd] = n]
    BY <2>4, <2>5
  <2>7. fd_table' \in [Procs -> [Fds -> {NULL} \cup DOMAIN contexts']]
    BY <1>1, <2>2, <2>3, <2>6
  <2> QED
    BY <2>3, <2>4, <2>6, <2>7
<1> QED
  BY <1>2, <1>3

\* The files that the contexts stand for.
Standing == [c \in DOMAIN contexts |-> File(c)]

LEMMA StandingIs ==
  ASSUME Inv
  PROVE  /\ Standing = [c \in DOMAIN contexts |-> Stands(c)]
         /\ DOMAIN contexts = 1 .. Len(contexts) /\ Len(contexts) \in Nat
         /\ \A c \in DOMAIN contexts :
              contexts[c] \in [node : {StdioNode, DiskNode, PipeNode},
                               object : Addresses \cup {NULL}]
<1> DEFINE S == [node : {StdioNode, DiskNode, PipeNode}, object : Addresses \cup {NULL}]
<1>1. nodes = fs_init /\ contexts \in Seq(S)
  BY DEF Inv, Typed
<1> HIDE DEF S
<1>2. DOMAIN contexts = 1 .. Len(contexts) /\ Len(contexts) \in Nat
  BY ONLY <1>1
<1>3. \A c \in DOMAIN contexts : contexts[c] \in S
  BY ONLY <1>1
<1>4. \A c \in DOMAIN contexts : File(c) = Stands(c)
  <2>1. TAKE c \in DOMAIN contexts
  <2>2. contexts[c].node \in {StdioNode, DiskNode, PipeNode}
    BY <1>3 DEF S
  <2> QED
    BY <1>1, <2>2, FileIs
<1> QED
  BY <1>2, <1>3, <1>4 DEF Standing, S

StandingStands == Standing = [c \in DOMAIN contexts |-> Stands(c)]

LEMMA StandingNext == Inv' => Standing' = [c \in DOMAIN contexts' |-> Stands(c)']
<1>1. Inv => StandingStands
  BY StandingIs DEF StandingStands
<1>2. Inv' => StandingStands'
  BY <1>1, PTL
<1> QED
  BY <1>2 DEF StandingStands

\* Where nothing but one file changes.
LEMMA OneChanges ==
  ASSUME Inv, Inv', contexts' = contexts, NEW c \in DOMAIN contexts, NEW file,
         \A d \in DOMAIN contexts : Stands(d)' = IF d = c THEN file ELSE Stands(d)
  PROVE  Standing' = [Standing EXCEPT ![c] = file]
<1>1. Standing = [d \in DOMAIN contexts |-> Stands(d)]
  BY StandingIs
<1>2. Standing' = [d \in DOMAIN contexts' |-> Stands(d)']
  BY StandingNext
<1> QED
  BY <1>1, <1>2

\* A file more.
LEMMA OneMore ==
  ASSUME Inv, Inv', NEW n, n = Len(contexts) + 1, DOMAIN contexts' = 1 .. n, NEW file,
         \A c \in DOMAIN contexts : Stands(c)' = Stands(c),
         Stands(n)' = file
  PROVE  Standing' = Append(Standing, file) /\ Len(Standing) = Len(contexts)
<1>1. /\ Standing = [c \in 1 .. Len(contexts) |-> Stands(c)]
      /\ DOMAIN contexts = 1 .. Len(contexts) /\ Len(contexts) \in Nat
  BY StandingIs
<1>2. Standing' = [c \in 1 .. n |-> Stands(c)']
  BY StandingNext
<1>3. Len(Standing) = Len(contexts)
  BY ONLY <1>1
<1>4. Append(Standing, file) =
        [c \in 1 .. n |-> IF c = n THEN file ELSE Standing[c]]
  <2>1. Append(Standing, file) =
          [c \in 1 .. Len(Standing) + 1 |-> IF c = Len(Standing) + 1 THEN file ELSE Standing[c]]
    BY ONLY <1>1, <1>3
  <2> QED
    BY <1>3, <2>1
<1>5. \A c \in 1 .. n : Stands(c)' = IF c = n THEN file ELSE Standing[c]
  <2>1. \A c \in 1 .. n : c = n \/ c \in DOMAIN contexts
    BY <1>1
  <2>2. \A c \in DOMAIN contexts : Standing[c] = Stands(c) /\ c # n
    BY <1>1
  <2> QED
    BY <2>1, <2>2
<1> QED
  BY <1>2, <1>3, <1>4, <1>5

\* The end of an open, when the node gives the file that the path stands for.
LEMMA GivesStep ==
  ASSUME Inv, NEW p \in procs, NEW path, NEW node \in {StdioNode, DiskNode, PipeNode},
         NEW object, NEW bytes \in Seq(Bytes),
         node = StdioNode => object = NULL, node = PipeNode => object # NULL,
         \/ object = NULL /\ UNCHANGED <<used, memory>>
         \/ object \in Addresses /\ Allocate(object, bytes),
         Gives(p, node, object),
         call' = <<"open", p, path>>, Len(contexts) < Contexts, nodes' = nodes,
         Abstract!Openable(path),
         Abstract!Opened(path) =
           [kind |-> Kind(node), usable |-> object # NULL \/ node = StdioNode,
            contents |-> IF object # NULL THEN bytes ELSE <<>>, at |-> 0]
  PROVE  Inv' /\ Abstract!Open(p, path)
<1>1. PICK n : n = Len(contexts) + 1
  OBVIOUS
<1>2. p \in Procs /\ running \in BOOLEAN /\ running' = running /\ procs' = procs /\ got' = got
  BY DEF Inv, Typed, Gives
<1>4. contexts' = Append(contexts, [node |-> node, object |-> object]) /\ fd_alloc(p, n)
      /\ freed' = freed
  BY <1>1 DEF Gives
<1>5. DOMAIN contexts' = DOMAIN contexts \cup {n}
  <2>1. Len(contexts) \in Nat /\ DOMAIN contexts = 1 .. Len(contexts)
    BY StandingIs
  <2>2. DOMAIN contexts' = 1 .. Len(contexts) + 1
    BY ONLY <1>4, <2>1
  <2> QED
    BY <1>1, <2>1, <2>2
<1>6. /\ fd_table' \in [Procs -> [Fds -> {NULL} \cup DOMAIN contexts']]
      /\ \/ Unused(p) = {} /\ ret' = -1 /\ fd_table' = fd_table
         \/ \E fd \in Unused(p) :
              /\ \A other \in Unused(p) : fd <= other
              /\ fd_table' = [fd_table EXCEPT ![p][fd] = n]
              /\ ret' = fd
  BY <1>2, <1>4, <1>5, FdAlloc
<1>7. Adds(node, object, bytes)
  BY <1>2, <1>4 DEF Adds
<1>8. /\ Inv'
      /\ DOMAIN contexts' = 1 .. n /\ Len(contexts) \in Nat
      /\ DOMAIN contexts = 1 .. Len(contexts)
      /\ \A d \in DOMAIN contexts : Stands(d)' = Stands(d)
      /\ Stands(n)' = Abstract!Opened(path)
  BY <1>1, <1>2, <1>6, <1>7, AddsStep
<1>9. Standing' = Append(Standing, Abstract!Opened(path)) /\ Len(Standing) = Len(contexts)
  BY <1>1, <1>8, OneMore
<1> QED
  BY <1>1, <1>2, <1>6, <1>8, <1>9 DEF Abstract!Open, Abstract!Fds, Standing, Unused, Fds, NULL

LEMMA PathFacts ==
  ASSUME NEW path \in Paths
  PROVE  /\ path \in Seq(STRING) /\ Len(path) \in Nat /\ (path # <<>> <=> Len(path) # 0)
         /\ \A i \in 1 .. Len(path) : path[i] # "/"
<1>1. path \in Seq(STRING) /\ "/" \notin Range(path)
  BY FilesAssumption
<1>2. DOMAIN path = 1 .. Len(path) /\ Len(path) \in Nat /\ (path # <<>> <=> Len(path) # 0)
  BY ONLY <1>1
<1> QED
  BY <1>1, <1>2 DEF Range

\* The paths that can be opened are those at whose node there is an open hook,
\* but for those below /disk that lead to a missing directory.
LEMMA OpenableIs ==
  ASSUME nodes = fs_init, NEW path \in Paths, NEW node, node = FindNode(nodes, path)
  PROVE  /\ node \in {NoNode, Root, StdioNode, DiskNode, PipeNode}
         /\ Abstract!Special(path, "stdio") <=> node = StdioNode
         /\ Abstract!Special(path, "pipe") <=> node = PipeNode
         /\ Abstract!OnVolume(path) <=> node = DiskNode
         /\ node \in {StdioNode, DiskNode, PipeNode} => Len(path) # 0
         /\ node = StdioNode => path[1] = "stdio"
         /\ node = PipeNode => path[1] = "pipe"
<1>1. /\ path \in Seq(STRING) /\ Len(path) \in Nat /\ (path # <<>> <=> Len(path) # 0)
      /\ \A i \in 1 .. Len(path) : path[i] # "/"
  BY PathFacts
<1>2. FsTree(nodes)
  BY TreeBuilt
<1>3. node = CASE Len(path) = 0 -> Root
               [] Len(path) # 0 /\ Repeats(path) /\ path[1] = "stdio" -> StdioNode
               [] Len(path) # 0 /\ path[1] = "disk" -> DiskNode
               [] Len(path) # 0 /\ Repeats(path) /\ path[1] = "pipe" -> PipeNode
               [] OTHER -> NoNode
  BY ONLY <1>1, <1>2, Finds, node = FindNode(nodes, path)
<1>4. \A name : Abstract!Special(path, name) <=>
                  Len(path) # 0 /\ Repeats(path) /\ path[1] = name
  BY ONLY <1>1 DEF Abstract!Special, Repeats
<1>5. Abstract!OnVolume(path) <=> Len(path) # 0 /\ path[1] = "disk"
  BY ONLY <1>1 DEF Abstract!OnVolume
<1>6. /\ NoNode = 0 /\ Root = 1 /\ StdioNode = 2 /\ DiskNode = 3 /\ PipeNode = 4
  BY DEF NoNode, Root, StdioNode, DiskNode, PipeNode
<1>7. \/ /\ node = Root /\ Len(path) = 0
      \/ /\ node = StdioNode /\ Len(path) # 0 /\ Repeats(path) /\ path[1] = "stdio"
      \/ /\ node = DiskNode /\ Len(path) # 0 /\ path[1] = "disk"
      \/ /\ node = PipeNode /\ Len(path) # 0 /\ Repeats(path) /\ path[1] = "pipe"
      \/ /\ node = NoNode
         /\ ~ (Len(path) # 0 /\ Repeats(path) /\ path[1] \in {"stdio", "pipe"})
         /\ ~ (Len(path) # 0 /\ path[1] = "disk")
  BY ONLY <1>3
<1> QED
  BY ONLY <1>4, <1>5, <1>6, <1>7

\* An open adds a file, or has no meaning.
LEMMA OpenStep ==
  ASSUME Inv, running, NEW p \in procs, NEW path \in Paths, sys_open(p, path),
         nodes' = nodes
  PROVE  Inv' /\ (Abstract!Open(p, path) \/ Abstract!OpensNothing(p, path))
<1>1. PICK node : node = FindNode(nodes, path)
  OBVIOUS
<1>2. nodes = fs_init /\ FsTree(nodes)
  BY TreeBuilt DEF Inv
<1>3. /\ node \in {NoNode, Root, StdioNode, DiskNode, PipeNode}
      /\ Abstract!Special(path, "stdio") <=> node = StdioNode
      /\ Abstract!Special(path, "pipe") <=> node = PipeNode
      /\ Abstract!OnVolume(path) <=> node = DiskNode
      /\ node \in {StdioNode, DiskNode, PipeNode} => Len(path) # 0
      /\ node = StdioNode => path[1] = "stdio"
      /\ node = PipeNode => path[1] = "pipe"
  BY ONLY <1>1, <1>2, path \in Paths, OpenableIs
<1>4. /\ path \in Seq(STRING) /\ Len(path) \in Nat /\ (path # <<>> <=> Len(path) # 0)
  BY PathFacts
<1>5. /\ NoNode = 0 /\ Root = 1 /\ StdioNode = 2 /\ DiskNode = 3 /\ PipeNode = 4
  BY DEF NoNode, Root, StdioNode, DiskNode, PipeNode
<1>6. PICK open : open = IF node = NoNode THEN "none" ELSE nodes[node].hook["open"]
  OBVIOUS
<1>7. /\ call' = <<"open", p, path>> /\ Len(contexts) < Contexts
      /\ \/ open = "none" /\ Astray
         \/ open = "stdio_open" /\ stdio_open(p, node)
         \/ open = "fat_open" /\ fat_open(p, node, path)
         \/ /\ open = "pipe_open"
            /\ \E a \in Addresses : Allocate(a, <<>>) /\ Gives(p, node, a)
  BY <1>1, <1>6 DEF sys_open
<1>8. open = IF node = StdioNode THEN "stdio_open" ELSE IF node = DiskNode THEN "fat_open"
             ELSE IF node = PipeNode THEN "pipe_open" ELSE "none"
  <2>1. "open" \in HookNames
    BY DEF HookNames
  <2>2. /\ nodes[Root].hook["open"] = "none"
        /\ nodes[StdioNode].hook["open"] = "stdio_open"
        /\ nodes[DiskNode].hook["open"] = "fat_open"
        /\ nodes[PipeNode].hook["open"] = "pipe_open"
    <3>1. nodes[Root].hook["open"] = "none"
      BY ONLY <1>2, Zenon DEF FsTree
    <3>2. nodes[StdioNode].hook = [h \in HookNames |->
            CASE h = "open" -> "stdio_open" [] h = "close" -> "stdio_close"
              [] h = "read" -> "stdio_read" [] h = "write" -> "stdio_write"
              [] OTHER -> "none"]
      BY ONLY <1>2, Zenon DEF FsTree
    <3>3. nodes[DiskNode].hook = [h \in HookNames |->
            CASE h = "open" -> "fat_open" [] h = "close" -> "fat_close"
              [] h = "read" -> "fat_read" [] h = "lseek" -> "fat_lseek"
              [] OTHER -> "none"]
      BY ONLY <1>2, Zenon DEF FsTree
    <3>4. nodes[PipeNode].hook = [h \in HookNames |->
            CASE h = "open" -> "pipe_open" [] h = "close" -> "pipe_close"
              [] h = "read" -> "pipe_read" [] h = "write" -> "pipe_write"
              [] OTHER -> "none"]
      BY ONLY <1>2, Zenon DEF FsTree
    <3> QED
      BY ONLY <2>1, <3>1, <3>2, <3>3, <3>4
  <2> QED
    BY ONLY <1>3, <1>5, <1>6, <2>2
<1>9. Abstract!Openable(path) <=>
        \/ node = StdioNode \/ node = PipeNode
        \/ node = DiskNode /\ (Len(path) <= 2 \/ SubSeq(path, 2, Len(path) - 1) \in Directories)
  BY ONLY <1>3 DEF Abstract!Openable
<1>10. Astray => Inv'
  BY QuietStep DEF Astray, Quiet, heap
<1>11. ASSUME Astray, ~ Abstract!Openable(path) PROVE Abstract!OpensNothing(p, path)
  <2>1. Standing' = Standing
    <3>1. Stands(1)' = Stands(1) /\ \A c : Stands(c)' = Stands(c)
      BY <1>11, QuietStep DEF Astray, Quiet, heap
    <3>2. /\ Standing = [c \in DOMAIN contexts |-> Stands(c)]
          /\ Standing' = [c \in DOMAIN contexts' |-> Stands(c)']
      BY <1>10, <1>11, StandingIs, StandingNext
    <3> QED
      BY <1>11, <3>1, <3>2 DEF Astray
  <2> QED
    BY <1>7, <1>11, <2>1 DEF Astray, Abstract!OpensNothing, Standing, heap
<1>12. ASSUME node \in {StdioNode, DiskNode, PipeNode},
              NEW object, NEW bytes \in Seq(Bytes),
              node = StdioNode => object = NULL, node = PipeNode => object # NULL,
              \/ object = NULL /\ UNCHANGED <<used, memory>>
              \/ object \in Addresses /\ Allocate(object, bytes),
              Gives(p, node, object), Abstract!Openable(path),
              Abstract!Opened(path) =
                [kind |-> Kind(node), usable |-> object # NULL \/ node = StdioNode,
                 contents |-> IF object # NULL THEN bytes ELSE <<>>, at |-> 0]
       PROVE  Inv' /\ Abstract!Open(p, path)
  BY <1>7, <1>12, GivesStep
<1>13. CASE node = StdioNode
  <2>1. Gives(p, node, NULL) /\ UNCHANGED <<used, memory>>
    BY ONLY <1>5, <1>7, <1>8, <1>13 DEF stdio_open
  <2>2. Abstract!Openable(path)
    BY <1>9, <1>13
  <2>3. Abstract!Opened(path) =
          [kind |-> Kind(node), usable |-> NULL # NULL \/ node = StdioNode,
           contents |-> IF NULL # NULL THEN <<>> ELSE <<>>, at |-> 0]
    BY ONLY <1>3, <1>5, <1>13 DEF Abstract!Opened, Kind
  <2>4. <<>> \in Seq(Bytes)
    OBVIOUS
  <2>5. /\ node \in {StdioNode, DiskNode, PipeNode}
        /\ node = StdioNode => NULL = NULL
        /\ node = PipeNode => NULL # NULL
    BY ONLY <1>5, <1>13
  <2> QED
    BY ONLY <1>12, <2>1, <2>2, <2>3, <2>4, <2>5, Zenon
<1>14. CASE node = PipeNode
  <2>1. PICK a \in Addresses : Allocate(a, <<>>) /\ Gives(p, node, a)
    BY ONLY <1>5, <1>7, <1>8, <1>14
  <2>2. Abstract!Openable(path)
    BY <1>9, <1>14
  <2>3. a # NULL
    BY FilesAssumption
  <2>4. Abstract!Opened(path) =
          [kind |-> Kind(node), usable |-> a # NULL \/ node = StdioNode,
           contents |-> IF a # NULL THEN <<>> ELSE <<>>, at |-> 0]
    BY ONLY <1>3, <1>5, <1>14, <2>3 DEF Abstract!Opened, Kind
  <2>5. <<>> \in Seq(Bytes)
    OBVIOUS
  <2>6. /\ node \in {StdioNode, DiskNode, PipeNode}
        /\ node = StdioNode => a = NULL
        /\ node = PipeNode => a # NULL
    BY ONLY <1>5, <1>14, <2>3
  <2> QED
    BY ONLY <1>12, <2>1, <2>2, <2>4, <2>5, <2>6, a \in Addresses, Zenon
<1>15. CASE node = DiskNode
  <2>1. PICK real : real = RealPath(DiskNode, path)
    OBVIOUS
  <2>2. path[1] = "disk" /\ Len(path) # 0
    BY <1>3, <1>15 DEF Abstract!OnVolume
  <2>3. /\ real = Tail(path) /\ Len(real) = Len(path) - 1
        /\ Len(path) > 2 => Front(real) = SubSeq(path, 2, Len(path) - 1)
    BY ONLY <1>2, <1>4, <2>1, <2>2, VolumePath
  <2>4. Abstract!Openable(path) <=> Len(real) <= 1 \/ Front(real) \in Directories
    <3>1. (Len(path) <= 2 <=> Len(real) <= 1) /\ (~ Len(path) <= 2 => Len(path) > 2)
      BY ONLY <1>4, <2>3
    <3>2. Abstract!Openable(path) <=>
            Len(path) <= 2 \/ SubSeq(path, 2, Len(path) - 1) \in Directories
      BY ONLY <1>5, <1>9, <1>15
    <3>3. PICK front : front = SubSeq(path, 2, Len(path) - 1)
      OBVIOUS
    <3> QED
      BY ONLY <2>3, <3>1, <3>2, <3>3
  <2>5. fat_open(p, node, path)
    BY ONLY <1>5, <1>7, <1>8, <1>15
  <2>6. \/ Len(real) > 1 /\ Front(real) \notin Directories /\ Astray
        \/ /\ Len(real) <= 1 \/ Front(real) \in Directories
           /\ real \notin DOMAIN Disk
           /\ Gives(p, node, NULL)
           /\ UNCHANGED <<used, memory>>
        \/ /\ real \in DOMAIN Disk
           /\ \E a \in Addresses : Allocate(a, Disk[real]) /\ Gives(p, node, a)
    BY <1>15, <2>1, <2>5 DEF fat_open
  <2>7. Abstract!Opened(path) =
          [kind |-> "file", usable |-> real \in DOMAIN Disk,
           contents |-> IF real \in DOMAIN Disk THEN Disk[real] ELSE <<>>, at |-> 0]
    BY <1>3, <1>15, <2>3 DEF Abstract!Opened
  <2>8. Kind(node) = "file" /\ node # StdioNode
    BY <1>5, <1>15 DEF Kind
  <2>9. CASE Len(real) > 1 /\ Front(real) \notin Directories /\ Astray
    <3>1. ~ (Len(real) <= 1)
      BY <1>4, <2>3, <2>9
    <3> QED
      BY <1>10, <1>11, <2>4, <2>9, <3>1
  <2>10. CASE /\ Len(real) <= 1 \/ Front(real) \in Directories
              /\ real \notin DOMAIN Disk
              /\ Gives(p, node, NULL)
              /\ UNCHANGED <<used, memory>>
    <3>1. Abstract!Opened(path) =
            [kind |-> Kind(node), usable |-> NULL # NULL \/ node = StdioNode,
             contents |-> IF NULL # NULL THEN <<>> ELSE <<>>, at |-> 0]
      BY <2>7, <2>8, <2>10
    <3>2. <<>> \in Seq(Bytes) /\ Abstract!Openable(path) /\ node # PipeNode
      BY <1>5, <1>15, <2>4, <2>10
    <3> QED
      BY <1>12, <1>15, <2>8, <2>10, <3>1, <3>2
  <2>11. ASSUME NEW a \in Addresses, real \in DOMAIN Disk, Allocate(a, Disk[real]),
                Gives(p, node, a)
         PROVE  Inv' /\ Abstract!Open(p, path)
    <3>1. a # NULL /\ Disk[real] \in Seq(Bytes)
      BY <2>11, FilesAssumption DEF Range
    <3>2. Abstract!Openable(path)
      <4>1. Len(real) > 1 => Front(real) \in Directories
        BY <2>11, FilesAssumption
      <4>2. Len(real) > 1 \/ Len(real) <= 1
        BY <1>4, <2>3
      <4> QED
        BY <2>4, <4>1, <4>2
    <3>3. Abstract!Opened(path) =
            [kind |-> Kind(node), usable |-> a # NULL \/ node = StdioNode,
             contents |-> IF a # NULL THEN Disk[real] ELSE <<>>, at |-> 0]
      BY <2>7, <2>8, <2>11, <3>1
    <3> QED
      BY <1>5, <1>12, <1>15, <2>8, <2>11, <3>1, <3>2, <3>3
  <2> QED
    BY <2>6, <2>9, <2>10, <2>11
<1>16. CASE node \notin {StdioNode, DiskNode, PipeNode}
  <2>1. Astray
    BY ONLY <1>7, <1>8, <1>16
  <2>2. ~ Abstract!Openable(path)
    BY <1>9, <1>16
  <2> QED
    BY <1>10, <1>11, <2>1, <2>2
<1> QED
  BY <1>13, <1>14, <1>15, <1>16
-----------------------------------------------------------------------------
(***************************************************************************)
(* Fork, and the calls on descriptors.                                     *)
(***************************************************************************)
\* A fork shares the parent's files with the child.
LEMMA ForkStep ==
  ASSUME Inv, NEW p \in procs, NEW q \in Procs, Fork(p, q), nodes' = nodes
  PROVE  Inv' /\ Abstract!Fork(p, q)
<1>1. /\ fd_table' = [fd_table EXCEPT ![q] = fd_table[p]]
      /\ contexts' = contexts /\ used' = used /\ freed' = freed /\ memory' = memory
      /\ procs' = procs \cup {q} /\ running' = running /\ got' = got
      /\ call' = <<"fork", p, q>> /\ q \notin procs /\ ret' = 0
  BY DEF Fork, Inherited, heap
<1>2. p \in Procs /\ fd_table \in [Procs -> [Fds -> {NULL} \cup DOMAIN contexts]]
  BY DEF Inv, Typed
<1>3. fd_table' \in [Procs -> [Fds -> {NULL} \cup DOMAIN contexts]]
  BY <1>1, <1>2
<1>4. Typed'
  BY <1>1, <1>3 DEF Inv, Typed
<1>5. \A c : /\ HasObject(c)' = HasObject(c) /\ Object(c)' = Object(c)
            /\ Keeps(c)' = Keeps(c) /\ Stands(c)' = Stands(c)
  BY <1>1 DEF HasObject, Object, Keeps, Stands
<1>6. Separate'
  BY <1>1, <1>5 DEF Inv, Separate
<1>7. Placed'
  BY <1>1, <1>5 DEF Inv, Placed
<1>8. Inv'
  BY <1>4, <1>6, <1>7 DEF Inv
<1>9. Standing' = Standing
  BY <1>1, <1>5, <1>8, StandingIs, StandingNext
<1> QED
  BY <1>1, <1>8, <1>9 DEF Abstract!Fork, Standing

\* What an open descriptor leads to.
LEMMA OpenFd ==
  ASSUME Inv, NEW p \in procs, NEW fd, IsOpen(p, fd), NEW c, c = get_fd_ptr(p, fd)
  PROVE  /\ fd \in Fds /\ c = fd_table[p][fd] /\ c # NULL /\ c \in DOMAIN contexts
         /\ contexts[c].node \in {StdioNode, DiskNode, PipeNode}
         /\ Standing[c] = Stands(c)
<1>1. fd_table \in [Procs -> [Fds -> {NULL} \cup DOMAIN contexts]] /\ p \in Procs
  BY DEF Inv, Typed
<1>2. fd \in Fds /\ c = fd_table[p][fd] /\ c # NULL /\ c \in DOMAIN contexts
  BY <1>1 DEF IsOpen, get_fd_ptr
<1> QED
  BY <1>2, StandingIs

\* What is known of the file of a context.
LEMMA FileFields ==
  ASSUME Inv, NEW c \in DOMAIN contexts
  PROVE  /\ Stands(c).kind = Kind(contexts[c].node)
         /\ Stands(c).usable <=> HasObject(c) \/ contexts[c].node = StdioNode
         /\ HasObject(c) => /\ Object(c) \in Addresses
                            /\ memory[Object(c)] \in [bytes : Seq(Bytes), offset : Int]
                            /\ Stands(c).contents = memory[Object(c)].bytes
                            /\ Stands(c).at = memory[Object(c)].offset
                            /\ contexts[c].node # StdioNode
         /\ ~ HasObject(c) => Stands(c).contents = <<>> /\ Stands(c).at = 0
         /\ contexts[c].node = PipeNode => Stands(c).at = 0
         /\ contexts[c].node = StdioNode =>
              Kind(contexts[c].node) = "stdio" /\ ~ HasObject(c)
         /\ contexts[c].node = DiskNode => Kind(contexts[c].node) = "file"
         /\ contexts[c].node = PipeNode => Kind(contexts[c].node) = "pipe"
<1>1. /\ HasObject(c) => Object(c) \in Addresses /\ Object(c) # NULL
      /\ HasObject(c) => memory[Object(c)] \in [bytes : Seq(Bytes), offset : Int]
  BY DEF Inv, Typed, Separate, HasObject, Keeps
<1>2. /\ contexts[c].node = StdioNode => Object(c) = NULL
      /\ contexts[c].node = PipeNode /\ HasObject(c) => memory[Object(c)].offset = 0
  BY DEF Inv, Placed
<1>3. /\ Stands(c).kind = Kind(contexts[c].node)
      /\ Stands(c).usable <=> HasObject(c) \/ contexts[c].node = StdioNode
      /\ Stands(c).contents = IF HasObject(c) THEN memory[Object(c)].bytes ELSE <<>>
      /\ Stands(c).at = IF HasObject(c) THEN memory[Object(c)].offset ELSE 0
  BY DEF Stands
<1>4. /\ contexts[c].node = StdioNode => Kind(contexts[c].node) = "stdio"
      /\ contexts[c].node = DiskNode => Kind(contexts[c].node) = "file"
      /\ contexts[c].node = PipeNode => Kind(contexts[c].node) = "pipe"
  BY DEF Kind, StdioNode, DiskNode, PipeNode
<1>5. contexts[c].node = StdioNode => ~ HasObject(c)
  BY <1>1, <1>2
<1> QED
  BY ONLY <1>1, <1>2, <1>3, <1>4, <1>5

\* A call after which every file is the same.
LEMMA StandingSame ==
  ASSUME Inv, Quiet, nodes' = nodes, running' \in BOOLEAN
  PROVE  Inv' /\ Standing' = Standing
<1>1. Inv' /\ \A c : Stands(c)' = Stands(c)
  BY QuietStep
<1>2. /\ Standing = [c \in DOMAIN contexts |-> Stands(c)]
      /\ Standing' = [c \in DOMAIN contexts' |-> Stands(c)']
  BY <1>1, StandingIs, StandingNext
<1> QED
  BY <1>1, <1>2 DEF Quiet

LEMMA UnopenedStep ==
  ASSUME Inv, NEW p \in procs, NEW fd, NEW what, NEW arg, Unopened(p, fd),
         call' = <<what, p, fd, arg>>, nodes' = nodes
  PROVE  /\ Inv'
         /\ Abstract!Refused(p, fd, what, arg) \/ Abstract!Undefined(p, fd, what, arg)
<1>1. CASE fd \notin Fds /\ Astray
  <2>1. Inv' /\ Standing' = Standing
    BY <1>1, StandingSame DEF Astray, Quiet, heap
  <2> QED
    BY <1>1, <2>1 DEF Astray, heap, Abstract!Undefined, Abstract!Fds, Fds, Standing
<1>2. CASE fd \in Fds /\ get_fd_ptr(p, fd) = NULL /\ Minus1
  <2>1. running' \in BOOLEAN /\ Quiet
    BY <1>2 DEF Minus1, heap, Quiet, Inv, Typed
  <2>2. Inv' /\ Standing' = Standing
    BY <2>1, StandingSame
  <2> QED
    BY <1>2, <2>2
       DEF Minus1, heap, get_fd_ptr, NULL, Abstract!Refused, Abstract!Fds, Fds, Standing
<1> QED
  BY <1>1, <1>2 DEF Unopened

LEMMA AstrayStep ==
  ASSUME Inv, NEW p \in procs, NEW fd, IsOpen(p, fd), NEW c, c = get_fd_ptr(p, fd),
         NEW what, NEW arg, Abstract!Meaningless(Stands(c), what), Astray,
         call' = <<what, p, fd, arg>>, nodes' = nodes
  PROVE  Inv' /\ Abstract!Undefined(p, fd, what, arg)
<1>1. Inv' /\ Standing' = Standing
  BY StandingSame DEF Astray, Quiet, heap
<1>2. /\ fd \in Fds /\ c = fd_table[p][fd] /\ c # NULL /\ Standing[c] = Stands(c)
  BY OpenFd
<1>3. Abstract!Meaningless(Standing[fd_table[p][fd]], what)
  BY <1>2
<1>4. /\ running' = FALSE /\ procs' = procs /\ fd_table' = fd_table
      /\ got' = got /\ ret' = ret
  BY DEF Astray
<1> QED
  BY ONLY <1>1, <1>2, <1>3, <1>4, call' = <<what, p, fd, arg>>
     DEF Abstract!Undefined, Abstract!Fds, Fds, NULL, Standing

LEMMA Minus1Step ==
  ASSUME Inv, NEW p \in procs, NEW fd, IsOpen(p, fd), NEW c, c = get_fd_ptr(p, fd),
         NEW what, NEW arg, ~ Abstract!Supports(Stands(c).kind, what), Minus1,
         call' = <<what, p, fd, arg>>, nodes' = nodes
  PROVE  Inv' /\ Abstract!Refused(p, fd, what, arg)
<1>1. running' \in BOOLEAN /\ Quiet
  BY DEF Minus1, heap, Quiet, Inv, Typed
<1>2. Inv' /\ Standing' = Standing
  BY <1>1, StandingSame
<1>3. /\ fd \in Fds /\ c = fd_table[p][fd] /\ Standing[c] = Stands(c)
  BY OpenFd
<1>4. ~ Abstract!Supports(Standing[fd_table[p][fd]].kind, what)
  BY <1>3
<1>5. /\ running' = running /\ procs' = procs /\ fd_table' = fd_table
      /\ got' = got /\ ret' = -1
  BY DEF Minus1
<1> QED
  BY ONLY <1>2, <1>3, <1>4, <1>5, call' = <<what, p, fd, arg>>
     DEF Abstract!Refused, Abstract!Fds, Fds, NULL, Standing

\* A call that the file of the descriptor answers, and no other file notices.
LEMMA Answered ==
  ASSUME Inv, NEW p \in procs, NEW fd, IsOpen(p, fd), NEW c, c = get_fd_ptr(p, fd),
         NEW what, NEW arg, NEW file,
         call' = <<what, p, fd, arg>>,
         Abstract!Supports(Stands(c).kind, what), ~ Abstract!Meaningless(Stands(c), what),
         Abstract!Answer(Stands(c), what, arg).file = file,
         ret' \in Abstract!Answer(Stands(c), what, arg).ret,
         IF what = "read"
           THEN got' = SubSeq(Stands(c).contents, Stands(c).at + 1, Stands(c).at + ret')
           ELSE got' = got,
         Inv', UNCHANGED <<running, procs, fd_table, contexts>>,
         \A d \in DOMAIN contexts : Stands(d)' = IF d = c THEN file ELSE Stands(d)
  PROVE  Abstract!Request(p, fd, what, arg)
<1>1. /\ fd \in Fds /\ c = fd_table[p][fd] /\ c # NULL /\ c \in DOMAIN contexts
      /\ Standing[c] = Stands(c)
  BY OpenFd
<1>2. Standing' = [Standing EXCEPT ![c] = file]
  BY <1>1, OneChanges
<1>3. PICK f : f = Standing[fd_table[p][fd]]
  OBVIOUS
<1>4. f = Stands(c)
  BY <1>1, <1>3
<1>5. /\ Abstract!Supports(f.kind, what) /\ ~ Abstract!Meaningless(f, what)
      /\ Standing' = [Standing EXCEPT ![fd_table[p][fd]] = Abstract!Answer(f, what, arg).file]
      /\ ret' \in Abstract!Answer(f, what, arg).ret
      /\ IF what = "read" THEN got' = SubSeq(f.contents, f.at + 1, f.at + ret')
                          ELSE got' = got
  BY <1>1, <1>2, <1>4
<1>6. call' = <<what, p, fd, arg>> /\ running' = running /\ procs' = procs
      /\ fd_table' = fd_table
  OBVIOUS
<1> QED
  BY ONLY <1>1, <1>3, <1>5, <1>6 DEF Abstract!Request, Abstract!Fds, Fds, NULL, Standing

\* The nodes are three; their files and hooks are told apart.
LEMMA Called ==
  ASSUME Inv, NEW p \in procs, NEW fd, IsOpen(p, fd), NEW c, c = get_fd_ptr(p, fd),
         NEW node, node = contexts[c].node, NEW file, file = Stands(c)
  PROVE  /\ c \in DOMAIN contexts
         /\ Hook(c, "ioctl") = "none" /\ Hook(c, "fstat") = "none"
         /\ \/ /\ node = StdioNode /\ file.kind = "stdio"
               /\ Hook(c, "read") = "stdio_read" /\ Hook(c, "write") = "stdio_write"
               /\ Hook(c, "lseek") = "none" /\ Hook(c, "close") = "stdio_close"
               /\ ~ HasObject(c) /\ file.usable
            \/ /\ node = DiskNode /\ file.kind = "file"
               /\ Hook(c, "read") = "fat_read" /\ Hook(c, "write") = "none"
               /\ Hook(c, "lseek") = "fat_lseek" /\ Hook(c, "close") = "fat_close"
               /\ file.usable <=> HasObject(c)
            \/ /\ node = PipeNode /\ file.kind = "pipe"
               /\ Hook(c, "read") = "pipe_read" /\ Hook(c, "write") = "pipe_write"
               /\ Hook(c, "lseek") = "none" /\ Hook(c, "close") = "pipe_close"
               /\ file.usable <=> HasObject(c)
<1>1. c \in DOMAIN contexts /\ node \in {StdioNode, DiskNode, PipeNode}
  BY OpenFd
<1>2. FsTree(nodes)
  BY TreeBuilt DEF Inv
<1>3. /\ StdioNode # DiskNode /\ StdioNode # PipeNode
  BY DEF StdioNode, DiskNode, PipeNode
<1>4. /\ node = StdioNode =>
           /\ Hook(c, "read") = "stdio_read" /\ Hook(c, "write") = "stdio_write"
           /\ Hook(c, "lseek") = "none" /\ Hook(c, "close") = "stdio_close"
      /\ node = DiskNode =>
           /\ Hook(c, "read") = "fat_read" /\ Hook(c, "write") = "none"
           /\ Hook(c, "lseek") = "fat_lseek" /\ Hook(c, "close") = "fat_close"
      /\ node = PipeNode =>
           /\ Hook(c, "read") = "pipe_read" /\ Hook(c, "write") = "pipe_write"
           /\ Hook(c, "lseek") = "none" /\ Hook(c, "close") = "pipe_close"
      /\ Hook(c, "ioctl") = "none" /\ Hook(c, "fstat") = "none"
  BY <1>1, <1>2, HookValues
<1>5. /\ file.kind = Kind(node)
      /\ file.usable <=> HasObject(c) \/ node = StdioNode
      /\ node = StdioNode => Kind(node) = "stdio" /\ ~ HasObject(c)
      /\ node = DiskNode => Kind(node) = "file"
      /\ node = PipeNode => Kind(node) = "pipe"
  BY <1>1, FileFields
<1> QED
  BY ONLY <1>1, <1>3, <1>4, <1>5

\* What a call on a descriptor comes to, between the two.
Comes(p, fd, what, arg) ==
  \/ Abstract!Request(p, fd, what, arg)
  \/ Abstract!Refused(p, fd, what, arg)
  \/ Abstract!Undefined(p, fd, what, arg)

LEMMA StatusStep ==
  ASSUME Inv, NEW p \in procs, NEW fd, IsOpen(p, fd), NEW what \in {"whence", "ioctl", "fstat"},
         Minus1, call' = <<what, p, fd, 0>>, nodes' = nodes
  PROVE  Inv' /\ Comes(p, fd, what, 0)
<1>1. PICK c : c = get_fd_ptr(p, fd)
  OBVIOUS
<1>2. ~ Abstract!Supports(Stands(c).kind, what)
  BY DEF Abstract!Supports
<1> QED
  BY <1>1, <1>2, Minus1Step DEF Comes

LEMMA CloseStep ==
  ASSUME Inv, running, NEW p \in procs, NEW fd, IsOpen(p, fd),
         fs_close(get_fd_ptr(p, fd)), call' = <<"close", p, fd, 0>>, nodes' = nodes
  PROVE  Inv' /\ Comes(p, fd, "close", 0)
<1>1. PICK c : c = get_fd_ptr(p, fd)
  OBVIOUS
<1>2. PICK file : file = Stands(c)
  OBVIOUS
<1>3. PICK node : node = contexts[c].node
  OBVIOUS
<1>4. /\ c \in DOMAIN contexts
      /\ \/ /\ node = StdioNode /\ file.kind = "stdio"
            /\ Hook(c, "close") = "stdio_close" /\ ~ HasObject(c) /\ file.usable
         \/ /\ node = DiskNode /\ file.kind = "file"
            /\ Hook(c, "close") = "fat_close" /\ (file.usable <=> HasObject(c))
         \/ /\ node = PipeNode /\ file.kind = "pipe"
            /\ Hook(c, "close") = "pipe_close" /\ (file.usable <=> HasObject(c))
  BY <1>1, <1>2, <1>3, Called
<1>5. Abstract!Supports(file.kind, "close")
  BY DEF Abstract!Supports
<1>6. CASE ~ HasObject(c) /\ Astray
  <2>1. Abstract!Meaningless(file, "close")
    BY <1>4, <1>5, <1>6 DEF Abstract!Meaningless
  <2> QED
    BY <1>1, <1>2, <1>6, <2>1, AstrayStep DEF Comes
<1>7. CASE /\ HasObject(c)
           /\ used' = used \ Released(c)
           /\ freed' = freed \cup {c}
           /\ ret' \in IF Hook(c, "close") = "pipe_close" THEN {0, -1} ELSE {0}
           /\ UNCHANGED <<running, procs, fd_table, contexts, memory, got>>
  <2>1. Frees(c)
    <3>1. (Hook(c, "close") = "fat_close") <=> (node = DiskNode)
      <4>1. StdioNode # DiskNode /\ PipeNode # DiskNode
        BY DEF StdioNode, DiskNode, PipeNode
      <4> QED
        BY ONLY <1>4, <4>1
    <3> QED
      BY <1>3, <1>7, <3>1 DEF Frees, Released
  <2>2. PICK closed : closed = [file EXCEPT !.usable = FALSE, !.contents = <<>>, !.at = 0]
    OBVIOUS
  <2>3. running' \in BOOLEAN
    BY <1>7 DEF Inv, Typed
  <2>4. Inv' /\ \A d \in DOMAIN contexts : Stands(d)' = IF d = c THEN closed ELSE Stands(d)
    BY <1>2, <1>4, <2>1, <2>2, <2>3, FreesStep
  <2>5. ~ Abstract!Meaningless(file, "close")
    BY <1>4, <1>7 DEF Abstract!Meaningless
  <2>6. Abstract!Answer(file, "close", 0) =
          [file |-> closed, ret |-> IF file.kind = "pipe" THEN {0, -1} ELSE {0}]
    BY <2>2 DEF Abstract!Answer
  <2>7. /\ Abstract!Answer(file, "close", 0).file = closed
        /\ ret' \in Abstract!Answer(file, "close", 0).ret
    BY <1>4, <1>7, <2>6
  <2>8. got' = got /\ UNCHANGED <<running, procs, fd_table, contexts>>
    BY <1>7
  <2> QED
    BY <1>1, <1>2, <1>5, <2>4, <2>5, <2>7, <2>8, Answered DEF Comes
<1> QED
  BY <1>1, <1>6, <1>7 DEF fs_close

\* The file after its object changes.
Moved(file, bytes, offset) == [file EXCEPT !.contents = bytes, !.at = offset]

LEMMA MovedIs ==
  ASSUME NEW k, NEW u, NEW b, NEW a, NEW bytes, NEW offset, NEW file,
         file = [kind |-> k, usable |-> u, contents |-> b, at |-> a]
  PROVE  Moved(file, bytes, offset) =
           [kind |-> k, usable |-> u, contents |-> bytes, at |-> offset]
<1>1. PICK g : g = [file EXCEPT !.contents = bytes]
  OBVIOUS
<1>2. g = [kind |-> k, usable |-> u, contents |-> bytes, at |-> a]
  BY <1>1
<1>3. Moved(file, bytes, offset) = [g EXCEPT !.at = offset]
  BY <1>1 DEF Moved
<1> QED
  BY <1>2, <1>3

LEMMA ObjectStep ==
  ASSUME Inv, running, NEW c \in DOMAIN contexts, NEW bytes \in Seq(Bytes),
         NEW offset \in Int, contexts[c].node = PipeNode => offset = 0,
         Changes(c, bytes, offset), running' = running, nodes' = nodes
  PROVE  /\ Inv'
         /\ \A d \in DOMAIN contexts :
              Stands(d)' = IF d = c THEN Moved(Stands(c), bytes, offset) ELSE Stands(d)
BY ChangesStep DEF Moved

LEMMA LseekStep ==
  ASSUME Inv, running, NEW p \in procs, NEW fd, IsOpen(p, fd), NEW offset \in Offsets,
         fs_lseek(get_fd_ptr(p, fd), offset), call' = <<"lseek", p, fd, offset>>,
         nodes' = nodes
  PROVE  Inv' /\ Comes(p, fd, "lseek", offset)
<1>1. PICK c : c = get_fd_ptr(p, fd)
  OBVIOUS
<1>2. PICK file : file = Stands(c)
  OBVIOUS
<1>3. PICK node : node = contexts[c].node
  OBVIOUS
<1>4. /\ c \in DOMAIN contexts
      /\ \/ /\ node = StdioNode /\ file.kind = "stdio" /\ Hook(c, "lseek") = "none"
         \/ /\ node = DiskNode /\ file.kind = "file"
            /\ Hook(c, "lseek") = "fat_lseek" /\ (file.usable <=> HasObject(c))
         \/ /\ node = PipeNode /\ file.kind = "pipe" /\ Hook(c, "lseek") = "none"
  BY <1>1, <1>2, <1>3, Called
<1>5. CASE Hook(c, "lseek") = "none" /\ Minus1
  <2>1. ~ Abstract!Supports(file.kind, "lseek")
    BY <1>4, <1>5 DEF Abstract!Supports
  <2> QED
    BY <1>1, <1>2, <1>5, <2>1, Minus1Step DEF Comes
<1>6. CASE Hook(c, "lseek") = "fat_lseek" /\ ~ HasObject(c) /\ Astray
  <2>1. Abstract!Meaningless(file, "lseek")
    BY <1>4, <1>6 DEF Abstract!Meaningless, Abstract!Supports
  <2> QED
    BY <1>1, <1>2, <1>6, <2>1, AstrayStep DEF Comes
<1>7. CASE /\ Hook(c, "lseek") = "fat_lseek" /\ HasObject(c)
           /\ memory' = [memory EXCEPT ![Object(c)].offset = offset]
           /\ ret' = offset
           /\ UNCHANGED <<running, procs, fd_table, contexts, freed, used, got>>
  <2>1. /\ Object(c) \in Addresses
        /\ memory[Object(c)] \in [bytes : Seq(Bytes), offset : Int]
        /\ file.contents = memory[Object(c)].bytes
    BY <1>2, <1>4, <1>7, FileFields
  <2>2. PICK bytes : bytes = memory[Object(c)].bytes
    OBVIOUS
  <2>3. [memory[Object(c)] EXCEPT !.offset = offset] = [bytes |-> bytes, offset |-> offset]
    BY <2>1, <2>2
  <2>4. memory' = [memory EXCEPT ![Object(c)] = [bytes |-> bytes, offset |-> offset]]
    BY <1>7, <2>3
  <2>5. bytes \in Seq(Bytes) /\ offset \in Int
    BY <2>1, <2>2, FilesAssumption
  <2>6. node # PipeNode
    BY ONLY <1>4, <1>7 DEF DiskNode, PipeNode
  <2>7. PICK after : after = [file EXCEPT !.at = offset]
    OBVIOUS
  <2>8. after = Moved(file, bytes, offset)
    <3>1. file.contents = bytes
      BY <2>1, <2>2
    <3>2. PICK k, u, b, a : file = [kind |-> k, usable |-> u, contents |-> b, at |-> a]
      BY ONLY <1>2 DEF Stands
    <3>3. b = bytes
      BY ONLY <3>1, <3>2
    <3>4. after = [kind |-> k, usable |-> u, contents |-> bytes, at |-> offset]
      BY ONLY <2>7, <3>2, <3>3
    <3>5. Moved(file, bytes, offset) =
            [kind |-> k, usable |-> u, contents |-> bytes, at |-> offset]
      BY ONLY <3>2, MovedIs
    <3> QED
      BY ONLY <3>4, <3>5
  <2>9. Inv' /\ \A d \in DOMAIN contexts : Stands(d)' = IF d = c THEN after ELSE Stands(d)
    <3>1. Changes(c, bytes, offset)
      BY <1>7, <2>4 DEF Changes
    <3>2. contexts[c].node = PipeNode => offset = 0
      BY <1>3, <2>6
    <3>3. /\ Inv'
          /\ \A d \in DOMAIN contexts :
               Stands(d)' = IF d = c THEN Moved(Stands(c), bytes, offset) ELSE Stands(d)
      BY <1>4, <1>7, <2>5, <3>1, <3>2, ObjectStep
    <3> QED
      BY ONLY <1>2, <2>8, <3>3
  <2>10. Abstract!Supports(file.kind, "lseek") /\ ~ Abstract!Meaningless(file, "lseek")
    BY <1>4, <1>7 DEF Abstract!Supports, Abstract!Meaningless
  <2>11. Abstract!Answer(file, "lseek", offset) = [file |-> after, ret |-> {offset}]
    BY <2>7 DEF Abstract!Answer
  <2>12. /\ Abstract!Answer(file, "lseek", offset).file = after
         /\ ret' \in Abstract!Answer(file, "lseek", offset).ret
    BY <1>7, <2>11
  <2>13. got' = got /\ UNCHANGED <<running, procs, fd_table, contexts>>
    BY <1>7
  <2> QED
    BY <1>1, <1>2, <2>9, <2>10, <2>12, <2>13, Answered DEF Comes
<1> QED
  BY <1>1, <1>5, <1>6, <1>7 DEF fs_lseek

\* A file is a record of its four fields.
LEMMA FileRecord ==
  ASSUME NEW c
  PROVE  \E k, u, b, a : Stands(c) = [kind |-> k, usable |-> u, contents |-> b, at |-> a]
BY DEF Stands

LEMMA WriteStep ==
  ASSUME Inv, running, NEW p \in procs, NEW fd, IsOpen(p, fd), NEW data \in Data,
         fs_write(get_fd_ptr(p, fd), data), call' = <<"write", p, fd, data>>,
         nodes' = nodes
  PROVE  Inv' /\ Comes(p, fd, "write", data)
<1>1. PICK c : c = get_fd_ptr(p, fd)
  OBVIOUS
<1>2. PICK file : file = Stands(c)
  OBVIOUS
<1>3. PICK node : node = contexts[c].node
  OBVIOUS
<1>4. /\ c \in DOMAIN contexts
      /\ \/ /\ node = StdioNode /\ file.kind = "stdio"
            /\ Hook(c, "write") = "stdio_write" /\ ~ HasObject(c) /\ file.usable
         \/ /\ node = DiskNode /\ file.kind = "file" /\ Hook(c, "write") = "none"
         \/ /\ node = PipeNode /\ file.kind = "pipe"
            /\ Hook(c, "write") = "pipe_write" /\ (file.usable <=> HasObject(c))
  BY <1>1, <1>2, <1>3, Called
<1>5. CASE Hook(c, "write") = "none" /\ Minus1
  <2>1. ~ Abstract!Supports(file.kind, "write")
    BY <1>4, <1>5 DEF Abstract!Supports
  <2> QED
    BY <1>1, <1>2, <1>5, <2>1, Minus1Step DEF Comes
<1>6. CASE Hook(c, "write") = "pipe_write" /\ ~ HasObject(c) /\ Astray
  <2>1. Abstract!Meaningless(file, "write")
    BY <1>4, <1>6 DEF Abstract!Meaningless, Abstract!Supports
  <2> QED
    BY <1>1, <1>2, <1>6, <2>1, AstrayStep DEF Comes
<1>7. CASE Hook(c, "write") = "stdio_write" /\ stdio_write(data)
  <2>1. Quiet /\ running' = running /\ ret' = Len(data) /\ got' = got
    BY <1>7 DEF stdio_write, Quiet, heap
  <2>2. running' \in BOOLEAN
    BY <2>1 DEF Inv, Typed
  <2>3. Inv' /\ \A d \in DOMAIN contexts : Stands(d)' = IF d = c THEN file ELSE Stands(d)
    BY <1>2, <2>1, <2>2, QuietStep
  <2>4. file.kind = "stdio" /\ ~ HasObject(c) /\ file.usable
    BY <1>4, <1>7
  <2>5. file.at = 0 /\ file.contents = <<>>
    BY <1>2, <1>4, <2>4, FileFields
  <2>6. Abstract!Supports(file.kind, "write") /\ ~ Abstract!Meaningless(file, "write")
    BY ONLY <2>4, <2>5 DEF Abstract!Supports, Abstract!Meaningless
  <2>7. Abstract!Answer(file, "write", data) = [file |-> file, ret |-> {Len(data)}]
    BY ONLY <2>4 DEF Abstract!Answer
  <2>8. /\ Abstract!Answer(file, "write", data).file = file
        /\ ret' \in Abstract!Answer(file, "write", data).ret
    BY ONLY <2>1, <2>7
  <2>9. UNCHANGED <<running, procs, fd_table, contexts>>
    BY <2>1 DEF Quiet
  <2> QED
    BY <1>1, <1>2, <2>1, <2>3, <2>6, <2>8, <2>9, Answered DEF Comes
<1>8. ASSUME Hook(c, "write") = "pipe_write", HasObject(c),
             NEW n, n = Min({Len(data), PipeSize - Len(memory[Object(c)].bytes)}),
             memory' = [memory EXCEPT ![Object(c)].bytes = @ \o SubSeq(data, 1, n)],
             ret' = n,
             UNCHANGED <<running, procs, fd_table, contexts, freed, used, got>>
      PROVE  Inv' /\ Comes(p, fd, "write", data)
  <2>1. /\ Object(c) \in Addresses
        /\ memory[Object(c)] \in [bytes : Seq(Bytes), offset : Int]
        /\ file.contents = memory[Object(c)].bytes /\ file.at = memory[Object(c)].offset
    BY <1>2, <1>4, <1>8, FileFields
  <2>2. PICK old : old = memory[Object(c)].bytes
    OBVIOUS
  <2>3. node = PipeNode /\ file.kind = "pipe" /\ file.usable /\ file.contents = old
    BY <1>4, <1>8, <2>1, <2>2
  <2>4. file.at = 0 /\ memory[Object(c)].offset = 0
    BY <1>2, <1>3, <1>4, <2>1, <2>3, FileFields
  <2>5. data \in Seq(Bytes) /\ old \in Seq(Bytes) /\ Len(data) \in Nat /\ Len(old) \in Nat
        /\ PipeSize \in Nat
    BY FilesAssumption, <2>1, <2>2
  <2>6. n = Abstract!Least(Len(data), PipeSize - Len(old)) /\ n \in Int /\ n <= Len(data)
    <3>1. PICK l, k : l = Len(data) /\ k = PipeSize - Len(old)
      OBVIOUS
    <3>2. l \in Int /\ k \in Int /\ n = Min({l, k})
      BY ONLY <1>8, <2>2, <2>5, <3>1
    <3>3. n = IF l <= k THEN l ELSE k
      BY ONLY <3>2, LeastOfTwo
    <3> QED
      BY ONLY <3>1, <3>2, <3>3 DEF Abstract!Least
  <2>7. PICK more : more = SubSeq(data, 1, n)
    OBVIOUS
  <2>8. more \in Seq(Bytes)
    BY ONLY <2>5, <2>6, <2>7, SubSeqFacts
  <2>9. PICK bytes : bytes = old \o more
    OBVIOUS
  <2>10. bytes \in Seq(Bytes)
    BY ONLY <2>5, <2>8, <2>9
  <2>11. Changes(c, bytes, 0)
    <3>1. [memory[Object(c)] EXCEPT !.bytes = bytes] = [bytes |-> bytes, offset |-> 0]
      BY <2>1, <2>4
    <3>2. memory' = [memory EXCEPT ![Object(c)] = [bytes |-> bytes, offset |-> 0]]
      BY <1>8, <2>2, <2>7, <2>9, <3>1
    <3> QED
      BY <1>8, <3>2 DEF Changes
  <2>12. PICK after : after = Moved(file, bytes, 0)
    OBVIOUS
  <2>13. Inv' /\ \A d \in DOMAIN contexts : Stands(d)' = IF d = c THEN after ELSE Stands(d)
    <3>1. contexts[c].node = PipeNode => 0 = 0
      OBVIOUS
    <3>2. /\ Inv'
          /\ \A d \in DOMAIN contexts :
               Stands(d)' = IF d = c THEN Moved(Stands(c), bytes, 0) ELSE Stands(d)
      BY <1>4, <1>8, <2>10, <2>11, ObjectStep
    <3> QED
      BY ONLY <1>2, <2>12, <3>2
  <2>14. Abstract!Supports(file.kind, "write") /\ ~ Abstract!Meaningless(file, "write")
    BY ONLY <2>3 DEF Abstract!Supports, Abstract!Meaningless
  <2>15. [file EXCEPT !.contents = file.contents \o SubSeq(data, 1, n)] = after
    <3>1. PICK k, u, b, a : file = [kind |-> k, usable |-> u, contents |-> b, at |-> a]
      BY ONLY <1>2, FileRecord
    <3>2. after = [kind |-> k, usable |-> u, contents |-> bytes, at |-> 0]
      BY ONLY <2>12, <3>1, MovedIs
    <3>3. a = 0 /\ file.contents \o SubSeq(data, 1, n) = bytes
      BY ONLY <2>3, <2>4, <2>7, <2>9, <3>1
    <3>4. [file EXCEPT !.contents = bytes] = [kind |-> k, usable |-> u, contents |-> bytes, at |-> 0]
      BY ONLY <3>1, <3>3
    <3> QED
      BY ONLY <3>2, <3>3, <3>4
  <2>16. Abstract!Answer(file, "write", data) = [file |-> after, ret |-> {n}]
    <3>1. Abstract!Least(Len(data), PipeSize - Len(file.contents)) = n
      BY ONLY <2>3, <2>6
    <3> QED
      BY ONLY <2>3, <2>15, <3>1 DEF Abstract!Answer
  <2>17. /\ Abstract!Answer(file, "write", data).file = after
         /\ ret' \in Abstract!Answer(file, "write", data).ret
    <3>1. ret' = n
      BY <1>8
    <3> QED
      BY ONLY <2>16, <3>1
  <2>18. got' = got /\ UNCHANGED <<running, procs, fd_table, contexts>>
    BY <1>8
  <2> QED
    BY <1>1, <1>2, <2>13, <2>14, <2>17, <2>18, Answered DEF Comes
<1> QED
  BY <1>1, <1>5, <1>6, <1>7, <1>8 DEF fs_write

\* The common way of two reads of an object.
LEMMA ReadObject ==
  ASSUME Inv, running, NEW p \in procs, NEW fd, IsOpen(p, fd), NEW size \in Sizes,
         NEW c, c = get_fd_ptr(p, fd), HasObject(c),
         NEW n \in Nat, NEW bytes \in Seq(Bytes), NEW offset \in Int,
         contexts[c].node = PipeNode => offset = 0,
         Changes(c, bytes, offset), running' = running, nodes' = nodes,
         call' = <<"read", p, fd, size>>,
         ret' = n, got' = SubSeq(Stands(c).contents, Stands(c).at + 1, Stands(c).at + n),
         ~ Abstract!Meaningless(Stands(c), "read"),
         Abstract!Answer(Stands(c), "read", size).file = Moved(Stands(c), bytes, offset),
         Abstract!Answer(Stands(c), "read", size).ret = {n}
  PROVE  Inv' /\ Comes(p, fd, "read", size)
<1>1. PICK after : after = Moved(Stands(c), bytes, offset)
  OBVIOUS
<1>2. c \in DOMAIN contexts
  BY OpenFd
<1>3. Inv' /\ \A d \in DOMAIN contexts : Stands(d)' = IF d = c THEN after ELSE Stands(d)
  BY <1>1, <1>2, ObjectStep
<1>4. Abstract!Supports(Stands(c).kind, "read")
  BY DEF Abstract!Supports
<1>5. UNCHANGED <<running, procs, fd_table, contexts>>
  BY DEF Changes
<1>6. /\ Abstract!Answer(Stands(c), "read", size).file = after
      /\ ret' \in Abstract!Answer(Stands(c), "read", size).ret
      /\ IF "read" = "read"
           THEN got' = SubSeq(Stands(c).contents, Stands(c).at + 1, Stands(c).at + ret')
           ELSE got' = got
  BY <1>1
<1>7. /\ Inv /\ IsOpen(p, fd) /\ c = get_fd_ptr(p, fd) /\ call' = <<"read", p, fd, size>>
      /\ p \in procs /\ ~ Abstract!Meaningless(Stands(c), "read")
  OBVIOUS
<1>8. Abstract!Request(p, fd, "read", size)
  BY ONLY <1>3, <1>4, <1>5, <1>6, <1>7, Answered
<1> QED
  BY <1>3, <1>8 DEF Comes

LEMMA ReadStep ==
  ASSUME Inv, running, NEW p \in procs, NEW fd, IsOpen(p, fd), NEW size \in Sizes,
         fs_read(get_fd_ptr(p, fd), size), call' = <<"read", p, fd, size>>, nodes' = nodes
  PROVE  Inv' /\ Comes(p, fd, "read", size)
<1>1. PICK c : c = get_fd_ptr(p, fd)
  OBVIOUS
<1>2. PICK file : file = Stands(c)
  OBVIOUS
<1>3. PICK node : node = contexts[c].node
  OBVIOUS
<1>o. PICK o : o = Object(c)
  OBVIOUS
<1>4. /\ c \in DOMAIN contexts
      /\ \/ /\ node = StdioNode /\ file.kind = "stdio"
            /\ Hook(c, "read") = "stdio_read" /\ ~ HasObject(c) /\ file.usable
         \/ /\ node = DiskNode /\ file.kind = "file"
            /\ Hook(c, "read") = "fat_read" /\ (file.usable <=> HasObject(c))
         \/ /\ node = PipeNode /\ file.kind = "pipe"
            /\ Hook(c, "read") = "pipe_read" /\ (file.usable <=> HasObject(c))
  BY <1>1, <1>2, <1>3, Called
<1>5. PICK old : old = memory[o].bytes
  OBVIOUS
<1>6. PICK at : at = memory[o].offset
  OBVIOUS
<1>7. /\ HasObject(c) => /\ o \in Addresses
                         /\ memory[o] = [bytes |-> old, offset |-> at]
                         /\ old \in Seq(Bytes) /\ Len(old) \in Nat /\ at \in Int
                         /\ file.contents = old /\ file.at = at
      /\ ~ HasObject(c) => file.contents = <<>> /\ file.at = 0
      /\ node = PipeNode => file.at = 0
  <2>1. /\ HasObject(c) => /\ Object(c) \in Addresses
                           /\ memory[Object(c)] \in [bytes : Seq(Bytes), offset : Int]
                           /\ Stands(c).contents = memory[Object(c)].bytes
                           /\ Stands(c).at = memory[Object(c)].offset
        /\ ~ HasObject(c) => Stands(c).contents = <<>> /\ Stands(c).at = 0
        /\ contexts[c].node = PipeNode => Stands(c).at = 0
    BY <1>4, FileFields
  <2>2. memory[o] \in [bytes : Seq(Bytes), offset : Int] =>
          /\ memory[o] = [bytes |-> old, offset |-> at]
          /\ old \in Seq(Bytes) /\ Len(old) \in Nat /\ at \in Int
    BY ONLY <1>5, <1>6
  <2> QED
    BY ONLY <1>2, <1>3, <1>o, <1>5, <1>6, <2>1, <2>2
<1>8. PICK k, u, b, a : file = [kind |-> k, usable |-> u, contents |-> b, at |-> a]
  BY ONLY <1>2, FileRecord
<1>9. size \in Nat
  BY FilesAssumption
<1>10. PICK n : n = Abstract!Least(size, Len(file.contents) - file.at)
  OBVIOUS
<1>11. Abstract!Supports(file.kind, "read")
  BY DEF Abstract!Supports
<1>12. CASE Hook(c, "read") = "stdio_read" /\ stdio_read
  <2>1. Quiet /\ running' = running /\ ret' = 0 /\ got' = <<>>
    <3>1. Len(<<>>) = 0
      OBVIOUS
    <3> QED
      BY <1>12, <3>1 DEF stdio_read, Stores, Quiet
  <2>2. running' \in BOOLEAN
    BY <2>1 DEF Inv, Typed
  <2>3. Inv' /\ \A d \in DOMAIN contexts : Stands(d)' = IF d = c THEN file ELSE Stands(d)
    BY <1>2, <2>1, <2>2, QuietStep
  <2>4. file.kind = "stdio" /\ ~ HasObject(c) /\ file.usable
    BY <1>4, <1>12
  <2>5. file.at = 0 /\ file.contents = <<>>
    BY ONLY <1>7, <2>4
  <2>6. ~ Abstract!Meaningless(file, "read")
    BY ONLY <2>4, <2>5 DEF Abstract!Meaningless
  <2>7. n = 0
    BY ONLY <1>9, <1>10, <2>5 DEF Abstract!Least
  <2>8. SubSeq(<<>>, 1, 0) = <<>>
    OBVIOUS
  <2>9. [file EXCEPT !.contents = SubSeq(file.contents, n + 1, Len(file.contents))] = file
    <3>1. SubSeq(file.contents, n + 1, Len(file.contents)) = <<>>
      BY ONLY <2>5, <2>7, <2>8
    <3> QED
      BY ONLY <1>8, <2>5, <3>1
  <2>10. Abstract!Answer(file, "read", size) = [file |-> file, ret |-> {n}]
    BY ONLY <1>10, <2>4, <2>9 DEF Abstract!Answer
  <2>11. /\ Abstract!Answer(file, "read", size).file = file
         /\ ret' \in Abstract!Answer(file, "read", size).ret
    BY ONLY <2>1, <2>7, <2>10
  <2>12. IF "read" = "read" THEN got' = SubSeq(file.contents, file.at + 1, file.at + ret')
                            ELSE got' = got
    BY ONLY <2>1, <2>5, <2>8
  <2>13. UNCHANGED <<running, procs, fd_table, contexts>>
    BY <2>1 DEF Quiet
  <2>14. /\ Inv /\ IsOpen(p, fd) /\ c = get_fd_ptr(p, fd) /\ call' = <<"read", p, fd, size>>
         /\ p \in procs
    BY <1>1
  <2>15. Abstract!Request(p, fd, "read", size)
    BY ONLY <1>2, <1>11, <2>3, <2>6, <2>11, <2>12, <2>13, <2>14, Answered
  <2> QED
    BY <2>3, <2>15 DEF Comes
<1>13. CASE /\ Hook(c, "read") # "stdio_read"
            /\ HasObject(c) => /\ Hook(c, "read") = "fat_read"
                               /\ memory[o].offset \notin 0 .. Len(memory[o].bytes)
            /\ Astray
  <2>1. Abstract!Meaningless(file, "read")
    BY ONLY <1>4, <1>5, <1>6, <1>7, <1>11, <1>13 DEF Abstract!Meaningless
  <2> QED
    BY <1>1, <1>2, <1>13, <2>1, AstrayStep DEF Comes
<1>14. ASSUME Hook(c, "read") = "pipe_read", HasObject(c),
              NEW m, m = Min({size, Len(old)}),
              Stores(SubSeq(old, 1, m)),
              memory' = [memory EXCEPT ![o].bytes = SubSeq(@, m + 1, Len(@))]
       PROVE  Inv' /\ Comes(p, fd, "read", size)
  <2>1. /\ o \in Addresses /\ memory[o] = [bytes |-> old, offset |-> at]
        /\ old \in Seq(Bytes) /\ Len(old) \in Nat
        /\ file.contents = old /\ file.at = at
    BY <1>7, <1>14
  <2>2. file.kind = "pipe" /\ node = PipeNode /\ file.usable /\ at = 0
    BY <1>4, <1>7, <1>14, <2>1
  <2>3. m = n /\ n \in Nat /\ n <= Len(old)
    <3>1. PICK l : l = Len(old)
      OBVIOUS
    <3>2. l \in Int /\ size \in Int /\ m = Min({size, l}) /\ l \in Nat /\ l - 0 = l
      BY <1>9, <1>14, <2>1, <3>1
    <3>3. m = IF size <= l THEN size ELSE l
      BY ONLY <3>2, LeastOfTwo
    <3>4. n = IF size <= l THEN size ELSE l
      BY ONLY <1>10, <2>1, <2>2, <3>1, <3>2 DEF Abstract!Least
    <3> QED
      BY ONLY <1>9, <3>1, <3>2, <3>3, <3>4
  <2>4. PICK bytes : bytes = SubSeq(old, n + 1, Len(old))
    OBVIOUS
  <2>5. bytes \in Seq(Bytes)
    <3>1. n + 1 \in Nat \ {0} /\ Len(old) \in Int /\ Len(old) <= Len(old)
      BY ONLY <2>1, <2>3
    <3> QED
      BY ONLY <2>1, <2>4, <3>1, SubSeqFacts
  <2>6. ret' = n /\ got' = SubSeq(old, 1, n)
    <3>1. Len(SubSeq(old, 1, n)) = n
      BY ONLY <2>1, <2>3, SubSeqFacts
    <3> QED
      BY <1>14, <2>3, <3>1 DEF Stores
  <2>7. Changes(c, bytes, 0)
    <3>1. [memory[o] EXCEPT !.bytes = bytes] = [bytes |-> bytes, offset |-> 0]
      BY ONLY <2>1, <2>2
    <3>2. memory' = [memory EXCEPT ![o] = [bytes |-> bytes, offset |-> 0]]
      BY <1>5, <1>14, <2>3, <2>4, <3>1
    <3> QED
      BY <1>o, <1>14, <3>2 DEF Changes, Stores
  <2>8. ~ Abstract!Meaningless(file, "read")
    <3>1. file.at \in 0 .. Len(file.contents)
      BY ONLY <2>1, <2>2
    <3> QED
      BY ONLY <2>2, <3>1 DEF Abstract!Meaningless
  <2>9. [file EXCEPT !.contents = SubSeq(file.contents, n + 1, Len(file.contents))] =
          Moved(file, bytes, 0)
    <3>1. Moved(file, bytes, 0) = [kind |-> k, usable |-> u, contents |-> bytes, at |-> 0]
      BY ONLY <1>8, MovedIs
    <3>2. a = 0 /\ SubSeq(file.contents, n + 1, Len(file.contents)) = bytes
      BY ONLY <1>8, <2>1, <2>2, <2>4
    <3>3. [file EXCEPT !.contents = bytes] = [kind |-> k, usable |-> u, contents |-> bytes, at |-> 0]
      BY ONLY <1>8, <3>2
    <3> QED
      BY ONLY <3>1, <3>2, <3>3
  <2>10. Abstract!Answer(file, "read", size) = [file |-> Moved(file, bytes, 0), ret |-> {n}]
    BY ONLY <1>10, <2>2, <2>9 DEF Abstract!Answer
  <2>11. /\ Abstract!Answer(file, "read", size).file = Moved(file, bytes, 0)
         /\ Abstract!Answer(file, "read", size).ret = {n}
    BY ONLY <2>10
  <2>12. got' = SubSeq(file.contents, file.at + 1, file.at + n)
    <3>1. 0 + 1 = 1 /\ 0 + n = n
      BY ONLY <2>3
    <3> QED
      BY ONLY <2>1, <2>2, <2>6, <3>1
  <2>13. running' = running
    BY <1>14 DEF Stores
  <2>14. 0 \in Int
    OBVIOUS
  <2> QED
    BY <1>1, <1>2, <1>14, <2>3, <2>5, <2>6, <2>7, <2>8, <2>11, <2>12, <2>13, <2>14, ReadObject
<1>15. ASSUME Hook(c, "read") = "fat_read", HasObject(c),
              at \in 0 .. Len(old),
              NEW end, end = Min({at + size, Len(old)}),
              Stores(SubSeq(old, at + 1, end)),
              memory' = [memory EXCEPT ![o].offset = end]
       PROVE  Inv' /\ Comes(p, fd, "read", size)
  <2>1. /\ o \in Addresses /\ memory[o] = [bytes |-> old, offset |-> at]
        /\ old \in Seq(Bytes) /\ Len(old) \in Nat /\ at \in Nat
        /\ file.contents = old /\ file.at = at
    BY <1>7, <1>15
  <2>2. file.kind = "file" /\ node = DiskNode /\ file.usable
    BY <1>4, <1>15
  <2>3. end = at + n /\ n \in Nat /\ end \in Nat /\ end <= Len(old)
    <3>1. PICK l : l = Len(old)
      OBVIOUS
    <3>2. l \in Nat /\ at \in Nat /\ at <= l /\ size \in Nat
      BY <1>9, <1>15, <2>1, <3>1
    <3>3. end = IF at + size <= l THEN at + size ELSE l
      <4>1. PICK w : w = at + size
        OBVIOUS
      <4>2. w \in Int /\ l \in Int /\ end = Min({w, l})
        BY <1>15, <3>1, <3>2, <4>1
      <4> QED
        BY ONLY <4>1, <4>2, LeastOfTwo
    <3>4. n = IF size <= l - at THEN size ELSE l - at
      BY ONLY <1>10, <2>1, <3>1 DEF Abstract!Least
    <3> QED
      BY ONLY <3>1, <3>2, <3>3, <3>4
  <2>4. ret' = n /\ got' = SubSeq(old, at + 1, end)
    <3>1. at + 1 \in Nat \ {0} /\ end \in Int /\ end <= Len(old)
      BY ONLY <2>1, <2>3
    <3>2. Len(SubSeq(old, at + 1, end)) = IF at + 1 <= end THEN end - (at + 1) + 1 ELSE 0
      BY ONLY <2>1, <3>1, SubSeqFacts
    <3>3. Len(SubSeq(old, at + 1, end)) = n
      BY ONLY <2>1, <2>3, <3>2
    <3> QED
      BY <1>15, <3>3 DEF Stores
  <2>5. Changes(c, old, end)
    <3>1. [memory[o] EXCEPT !.offset = end] = [bytes |-> old, offset |-> end]
      BY ONLY <2>1
    <3>2. memory' = [memory EXCEPT ![o] = [bytes |-> old, offset |-> end]]
      BY <1>15, <3>1
    <3> QED
      BY <1>o, <1>15, <3>2 DEF Changes, Stores
  <2>6. ~ Abstract!Meaningless(file, "read")
    <3>1. file.at \in 0 .. Len(file.contents)
      BY ONLY <1>15, <2>1
    <3> QED
      BY ONLY <2>2, <3>1 DEF Abstract!Meaningless
  <2>7. [file EXCEPT !.at = file.at + n] = Moved(file, old, end)
    <3>1. Moved(file, old, end) = [kind |-> k, usable |-> u, contents |-> old, at |-> end]
      BY ONLY <1>8, MovedIs
    <3>2. b = old /\ file.at + n = end
      BY ONLY <1>8, <2>1, <2>3
    <3>3. [file EXCEPT !.at = end] = [kind |-> k, usable |-> u, contents |-> old, at |-> end]
      BY ONLY <1>8, <3>2
    <3> QED
      BY ONLY <3>1, <3>2, <3>3
  <2>8. Abstract!Answer(file, "read", size) = [file |-> Moved(file, old, end), ret |-> {n}]
    BY ONLY <1>10, <2>2, <2>7 DEF Abstract!Answer
  <2>9. /\ Abstract!Answer(file, "read", size).file = Moved(file, old, end)
        /\ Abstract!Answer(file, "read", size).ret = {n}
    BY ONLY <2>8
  <2>10. got' = SubSeq(file.contents, file.at + 1, file.at + n)
    BY ONLY <2>1, <2>3, <2>4
  <2>11. running' = running /\ contexts[c].node # PipeNode
    <3>1. DiskNode # PipeNode
      BY DEF DiskNode, PipeNode
    <3> QED
      BY <1>3, <1>15, <2>2, <3>1 DEF Stores
  <2>12. end \in Int
    BY ONLY <2>3
  <2> QED
    BY <1>1, <1>2, <1>15, <2>1, <2>3, <2>4, <2>5, <2>6, <2>9, <2>10, <2>11, <2>12, ReadObject
<1> QED
  BY <1>1, <1>o, <1>5, <1>6, <1>12, <1>13, <1>14, <1>15 DEF fs_read
-----------------------------------------------------------------------------
(***************************************************************************)
(* Every step.                                                             *)
(***************************************************************************)
LEMMA Requested ==
  ASSUME running, NEW p \in procs, NEW fd \in Descriptors, NEW r \in Abstract!Requests,
         Comes(p, fd, r[1], r[2])
  PROVE  Abstract!Next
BY DEF Comes, Abstract!Next

LEMMA RequestsAre ==
  /\ \A size \in Sizes : <<"read", size>> \in Abstract!Requests
  /\ \A data \in Data : <<"write", data>> \in Abstract!Requests
  /\ \A offset \in Offsets : <<"lseek", offset>> \in Abstract!Requests
  /\ \A what \in {"whence", "close", "ioctl", "fstat"} : <<what, 0>> \in Abstract!Requests
BY DEF Abstract!Requests

\* What a call on a descriptor does, by whether it is open.
LEMMA CallStep ==
  ASSUME Inv, running, nodes' = nodes, NEW p \in procs, NEW fd \in Descriptors,
         NEW what, NEW arg, <<what, arg>> \in Abstract!Requests,
         call' = <<what, p, fd, arg>>,
         Unopened(p, fd) \/ (Inv' /\ Comes(p, fd, what, arg))
  PROVE  Inv' /\ Abstract!Next
<1>1. Inv' /\ Comes(p, fd, what, arg)
  <2>1. CASE Unopened(p, fd)
    BY <2>1, UnopenedStep DEF Comes
  <2> QED
    BY <2>1
<1>2. PICK r : r = <<what, arg>>
  OBVIOUS
<1>3. r \in Abstract!Requests /\ Comes(p, fd, r[1], r[2])
  BY <1>1, <1>2
<1>4. Abstract!Next
  BY <1>3, Requested
<1> QED
  BY <1>1, <1>4

LEMMA StepStep ==
  ASSUME Inv, running, nodes' = nodes, NEW p \in procs, Step(p)
  PROVE  Inv' /\ Abstract!Next
<1>1. ASSUME NEW path \in Paths, sys_open(p, path) PROVE Inv' /\ Abstract!Next
  <2>1. Inv' /\ (Abstract!Open(p, path) \/ Abstract!OpensNothing(p, path))
    BY <1>1, OpenStep
  <2> QED
    BY <2>1 DEF Abstract!Next
<1>2. ASSUME NEW q \in Procs, Fork(p, q) PROVE Inv' /\ Abstract!Next
  <2>1. Inv' /\ Abstract!Fork(p, q)
    BY <1>2, ForkStep
  <2> QED
    BY <2>1 DEF Abstract!Next
<1>3. ASSUME NEW fd \in Descriptors, NEW size \in Sizes, sys_read(p, fd, size)
      PROVE  Inv' /\ Abstract!Next
  <2>1. call' = <<"read", p, fd, size>>
    BY <1>3 DEF sys_read
  <2>2. Unopened(p, fd) \/ (IsOpen(p, fd) /\ fs_read(get_fd_ptr(p, fd), size))
    BY <1>3 DEF sys_read
  <2>3. IsOpen(p, fd) /\ fs_read(get_fd_ptr(p, fd), size) => Inv' /\ Comes(p, fd, "read", size)
    BY <2>1, ReadStep
  <2> QED
    BY <2>1, <2>2, <2>3, RequestsAre, CallStep
<1>4. ASSUME NEW fd \in Descriptors, NEW data \in Data, sys_write(p, fd, data)
      PROVE  Inv' /\ Abstract!Next
  <2>1. call' = <<"write", p, fd, data>>
    BY <1>4 DEF sys_write
  <2>2. Unopened(p, fd) \/ (IsOpen(p, fd) /\ fs_write(get_fd_ptr(p, fd), data))
    BY <1>4 DEF sys_write
  <2>3. IsOpen(p, fd) /\ fs_write(get_fd_ptr(p, fd), data) => Inv' /\ Comes(p, fd, "write", data)
    BY <2>1, WriteStep
  <2> QED
    BY <2>1, <2>2, <2>3, RequestsAre, CallStep
<1>5. ASSUME NEW fd \in Descriptors, NEW offset \in Offsets, sys_lseek(p, fd, offset)
      PROVE  Inv' /\ Abstract!Next
  <2>1. call' = <<"lseek", p, fd, offset>>
    BY <1>5 DEF sys_lseek
  <2>2. Unopened(p, fd) \/ (IsOpen(p, fd) /\ fs_lseek(get_fd_ptr(p, fd), offset))
    BY <1>5 DEF sys_lseek
  <2>3. IsOpen(p, fd) /\ fs_lseek(get_fd_ptr(p, fd), offset) => Inv' /\ Comes(p, fd, "lseek", offset)
    BY <2>1, LseekStep
  <2> QED
    BY <2>1, <2>2, <2>3, RequestsAre, CallStep
<1>6. ASSUME NEW fd \in Descriptors, sys_close(p, fd) PROVE Inv' /\ Abstract!Next
  <2>1. call' = <<"close", p, fd, 0>>
    BY <1>6 DEF sys_close
  <2>2. Unopened(p, fd) \/ (IsOpen(p, fd) /\ fs_close(get_fd_ptr(p, fd)))
    BY <1>6 DEF sys_close
  <2>3. IsOpen(p, fd) /\ fs_close(get_fd_ptr(p, fd)) => Inv' /\ Comes(p, fd, "close", 0)
    BY <2>1, CloseStep
  <2> QED
    BY <2>1, <2>2, <2>3, RequestsAre, CallStep
<1>7. ASSUME NEW fd \in Descriptors, sys_ioctl(p, fd) PROVE Inv' /\ Abstract!Next
  <2>1. call' = <<"ioctl", p, fd, 0>>
    BY <1>7 DEF sys_ioctl
  <2>2. Unopened(p, fd) \/ (IsOpen(p, fd) /\ fs_status(get_fd_ptr(p, fd), "ioctl"))
    BY <1>7 DEF sys_ioctl
  <2>3. IsOpen(p, fd) /\ fs_status(get_fd_ptr(p, fd), "ioctl") => Inv' /\ Comes(p, fd, "ioctl", 0)
    BY <2>1, StatusStep DEF fs_status
  <2> QED
    BY <2>1, <2>2, <2>3, RequestsAre, CallStep
<1>8. ASSUME NEW fd \in Descriptors, sys_fstat(p, fd) PROVE Inv' /\ Abstract!Next
  <2>1. call' = <<"fstat", p, fd, 0>>
    BY <1>8 DEF sys_fstat
  <2>2. Unopened(p, fd) \/ (IsOpen(p, fd) /\ fs_status(get_fd_ptr(p, fd), "fstat"))
    BY <1>8 DEF sys_fstat
  <2>3. IsOpen(p, fd) /\ fs_status(get_fd_ptr(p, fd), "fstat") => Inv' /\ Comes(p, fd, "fstat", 0)
    BY <2>1, StatusStep DEF fs_status
  <2> QED
    BY <2>1, <2>2, <2>3, RequestsAre, CallStep
<1>9. ASSUME NEW fd \in Descriptors, sys_lseek_astray(p, fd) PROVE Inv' /\ Abstract!Next
  <2>1. call' = <<"whence", p, fd, 0>>
    BY <1>9 DEF sys_lseek_astray
  <2>2. Unopened(p, fd) \/ (IsOpen(p, fd) /\ Minus1)
    BY <1>9 DEF sys_lseek_astray
  <2>3. IsOpen(p, fd) /\ Minus1 => Inv' /\ Comes(p, fd, "whence", 0)
    BY <2>1, StatusStep
  <2> QED
    BY <2>1, <2>2, <2>3, RequestsAre, CallStep
<1> QED
  BY <1>1, <1>2, <1>3, <1>4, <1>5, <1>6, <1>7, <1>8, <1>9 DEF Step

LEMMA NextStep == Inv /\ [Next]_vars => Inv' /\ [Abstract!Next]_(Abstract!vars)
<1> SUFFICES ASSUME Inv, [Next]_vars PROVE Inv' /\ [Abstract!Next]_(Abstract!vars)
  OBVIOUS
<1>1. CASE UNCHANGED vars
  <2>1. Quiet /\ nodes' = nodes /\ running' \in BOOLEAN
    BY <1>1 DEF vars, heap, Quiet, Inv, Typed
  <2>2. Inv' /\ Standing' = Standing
    BY <2>1, StandingSame
  <2> QED
    BY <1>1, <2>2 DEF vars, Abstract!vars, Standing
<1>2. ASSUME running, NEW p \in procs, Step(p), UNCHANGED nodes
      PROVE  Inv' /\ [Abstract!Next]_(Abstract!vars)
  BY <1>2, StepStep
<1> QED
  BY <1>1, <1>2 DEF Next, Stopped

LEMMA InvInvariant == Spec => []Inv
<1>1. Inv /\ [Next]_vars => Inv'
  BY NextStep
<1> QED
  BY <1>1, InitInv, PTL DEF Spec

\* Every variable keeps its type, whatever is opened, inherited and closed: no
\* descriptor is written behind a table (fd_alloc, src/proc/proc.c), and none
\* leads to anything but a context that fs_open has returned.
THEOREM TypeCorrect == Spec => []TypeOK
<1>1. Inv => TypeOK
  BY InvImplies
<1> QED
  BY <1>1, InvInvariant, PTL

\* The open hooks allocate an object of its own for every context, pipe_close
\* frees it once and fat_close never (src/fs): no two opens share an object, and
\* nothing but the copies of closed files is left behind, though contexts are
\* inherited and addresses used again.
THEOREM OwnedCorrect == Spec => []Owned
<1>1. Inv => Owned
  BY InvImplies
<1> QED
  BY <1>1, InvInvariant, PTL

\* find_node, the hooks, fs_open, the descriptor tables and the calls on them
\* implement open files: what a call on a descriptor does to the file opened
\* under it, and that it does nothing to any other.
THEOREM OpenFilesCorrect == Spec => ImplementsOpenFiles
<1>1. Init => Abstract!Init
  <2> SUFFICES ASSUME Init PROVE Abstract!Init
    OBVIOUS
  <2>1. contexts = <<>> /\ DOMAIN contexts = {}
    BY DEF Init
  <2>2. [c \in DOMAIN contexts |-> File(c)] = <<>>
    BY <2>1
  <2> QED
    BY <2>2 DEF Init, Abstract!Init, Abstract!Fds, Fds, NULL
<1>2. Inv /\ [Next]_vars => [Abstract!Next]_(Abstract!vars)
  BY NextStep
<1> QED
  BY <1>1, <1>2, InvInvariant, PTL DEF Spec, Abstract!Spec, ImplementsOpenFiles
=============================================================================
