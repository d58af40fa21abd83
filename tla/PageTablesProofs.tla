-------------------------- MODULE PageTablesProofs --------------------------
(***************************************************************************)
(* Theorems about PageTables, for tables of any size and any requests.     *)
(***************************************************************************)
EXTENDS PageTables, TLAPS

-----------------------------------------------------------------------------
\* Division by the size of a table, of which addresses are made.
LEMMA Division ==
  ASSUME NEW a \in Nat, NEW f \in Nat \ {0}
  PROVE  /\ a \div f \in Nat
         /\ a % f \in 0 .. f - 1
         /\ a = f * (a \div f) + (a % f)
  BY SMTT(30)

LEMMA QuotientBound ==
  ASSUME NEW a \in Nat, NEW f \in Nat \ {0}, NEW b \in Nat, a < f * b
  PROVE  a \div f < b
<1> DEFINE q == a \div f
<1>1. q \in Nat /\ f * q <= a
  BY Division, f * q \in Nat, a % f \in Nat, SMT
<1>2. ASSUME q >= b PROVE FALSE
  <2>1. f * q >= f * b
    BY <1>1, <1>2, SMTT(30)
  <2> QED
    BY <1>1, <2>1, f * q \in Nat, f * b \in Nat
<1> QED
  BY <1>1, <1>2

LEMMA SmallRemainder ==
  ASSUME NEW a \in Nat, NEW f \in Nat \ {0}, a < f
  PROVE  a % f = a
<1>1. f * 1 = f
  BY SMT
<1>2. a \div f = 0
  BY <1>1, Division, QuotientBound
<1>3. f * 0 = 0
  BY SMT
<1> QED
  BY <1>2, <1>3, Division

LEMMA IndexInTable ==
  ASSUME PageTablesAssumption, NEW v \in Virtual, NEW k \in 1 .. 4
  PROVE  Index(k, v) \in Entries
<1>1. Fan \in Nat \ {0} /\ v \in Nat
  BY DEF PageTablesAssumption, Virtual
<1> DEFINE q1 == v \div Fan
           q2 == q1 \div Fan
           q3 == q2 \div Fan
<1>2. q1 \in Nat
  BY <1>1, Division
<1>3. q2 \in Nat
  BY <1>1, <1>2, Division
<1>4. q3 \in Nat
  BY <1>1, <1>3, Division
<1>5. \A a \in Nat : a % Fan \in Entries
  BY <1>1, Division DEF Entries
<1>6. Index(1, v) = q3 % Fan /\ Index(2, v) = q2 % Fan /\ Index(3, v) = q1 % Fan /\ Index(4, v) = v % Fan
  BY DEF Index
<1>7. k = 1 \/ k = 2 \/ k = 3 \/ k = 4
  OBVIOUS
<1> HIDE DEF q1, q2, q3
<1> QED
  BY <1>1, <1>2, <1>3, <1>4, <1>5, <1>6, <1>7

\* Two pages with the same index at every level are the same page.
LEMMA IndicesDecide ==
  ASSUME PageTablesAssumption, NEW v \in Virtual, NEW w \in Virtual,
         \A k \in 1 .. 4 : Index(k, v) = Index(k, w)
  PROVE  v = w
<1>1. Fan \in Nat \ {0} /\ v \in Nat /\ w \in Nat
  BY DEF PageTablesAssumption, Virtual
<1> DEFINE Q1(x) == x \div Fan
           Q2(x) == Q1(x) \div Fan
           Q3(x) == Q2(x) \div Fan
<1>2. ASSUME NEW x \in Virtual
      PROVE  /\ Q1(x) \in Nat /\ Q2(x) \in Nat /\ Q3(x) \in Nat
             /\ x = Fan * Q1(x) + Index(4, x)
             /\ Q1(x) = Fan * Q2(x) + Index(3, x)
             /\ Q2(x) = Fan * Q3(x) + Index(2, x)
             /\ Q3(x) = Index(1, x)
  <2>1. x \in Nat /\ x < Fan * (Fan * (Fan * Fan))
    <3>1. x \in Nat /\ x < Fan * Fan * Fan * Fan
      BY <1>1, Fan * Fan * Fan * Fan \in Nat DEF Virtual
    <3>2. Fan * Fan * Fan * Fan = Fan * (Fan * (Fan * Fan))
      BY <1>1, SMTT(30)
    <3> QED
      BY <3>1, <3>2
  <2>2. Fan * Fan \in Nat /\ Fan * (Fan * Fan) \in Nat
    BY <1>1, SMT
  <2>3. Q1(x) \in Nat /\ x = Fan * Q1(x) + (x % Fan) /\ Q1(x) < Fan * (Fan * Fan)
    BY <1>1, <2>1, <2>2, Division, QuotientBound
  <2>4. Q2(x) \in Nat /\ Q1(x) = Fan * Q2(x) + (Q1(x) % Fan) /\ Q2(x) < Fan * Fan
    <3> HIDE DEF Q1
    <3> QED
      BY <1>1, <2>2, <2>3, Division, QuotientBound
  <2>5. Q3(x) \in Nat /\ Q2(x) = Fan * Q3(x) + (Q2(x) % Fan) /\ Q3(x) < Fan
    <3> HIDE DEF Q1, Q2
    <3> QED
      BY <1>1, <2>4, Division, QuotientBound
  <2>6. Q3(x) % Fan = Q3(x)
    <3> HIDE DEF Q3
    <3> QED
      BY <1>1, <2>5, SmallRemainder
  <2>7. Index(1, x) = Q3(x) % Fan /\ Index(2, x) = Q2(x) % Fan
          /\ Index(3, x) = Q1(x) % Fan /\ Index(4, x) = x % Fan
    BY DEF Index
  <2> HIDE DEF Q1, Q2, Q3
  <2> QED
    BY <2>3, <2>4, <2>5, <2>6, <2>7
<1>3. Index(1, v) = Index(1, w) /\ Index(2, v) = Index(2, w)
        /\ Index(3, v) = Index(3, w) /\ Index(4, v) = Index(4, w)
  OBVIOUS
<1> HIDE DEF Q1, Q2, Q3
<1>4. Q3(v) = Q3(w)
  BY <1>2, <1>3
<1>5. Q2(v) = Q2(w)
  BY <1>2, <1>3, <1>4
<1>6. Q1(v) = Q1(w)
  BY <1>2, <1>3, <1>5
<1> QED
  BY <1>2, <1>3, <1>6
-----------------------------------------------------------------------------
\* The table of level k on the way to page v, or Empty.
Reach(k, v) ==
  CASE k = 1 -> Root
    [] k = 2 -> Below(Root, 1, v)
    [] k = 3 -> Below(Below(Root, 1, v), 2, v)
    [] k = 4 -> Below(Below(Below(Root, 1, v), 2, v), 3, v)

\* In the loop of __do_mapping the walk is at the table on the way to its page.
OnTheWay == pc = "map" => at = Reach(level[at], Page)

\* The pages behind the loop of __map_by_pages, and all of them when it is
\* over, have the entries asked for.
BehindIsMapped ==
  \A i \in 0 .. chunk.pages - 1 :
    pc = "validate" \/ (pc = "map" /\ i < done) =>
      Query(chunk.virt + i) = [frame |-> chunk.frame + i, flag |-> chunk.flag]

IInv ==
  /\ DOMAIN contents = Tables
  /\ TypeOK
  /\ TreeShaped
  /\ OnTheWay
  /\ BehindIsMapped
  /\ ConsistencyHolds

\* The walk of __query_mapping one level at a time, before and after a step.
LEMMA ReachSteps ==
  ASSUME NEW v
  PROVE  /\ Reach(1, v) = Root
         /\ \A k \in 1 .. 3 : Reach(k + 1, v) = Below(Reach(k, v), k, v)
         /\ Query(v) = Below(Reach(4, v), 4, v)
<1>1. /\ Reach(1, v) = Root
      /\ Reach(2, v) = Below(Reach(1, v), 1, v)
      /\ Reach(3, v) = Below(Reach(2, v), 2, v)
      /\ Reach(4, v) = Below(Reach(3, v), 3, v)
      /\ Query(v) = Below(Reach(4, v), 4, v)
  BY DEF Reach, Query
<1>2. \A k \in 1 .. 3 : (k = 1 /\ k + 1 = 2) \/ (k = 2 /\ k + 1 = 3) \/ (k = 3 /\ k + 1 = 4)
  OBVIOUS
<1> QED
  BY <1>1, <1>2

LEMMA ReachStepsPrime ==
  ASSUME NEW CONSTANT v
  PROVE  /\ Reach(1, v)' = Root
         /\ \A k \in 1 .. 3 : Reach(k + 1, v)' = Below(Reach(k, v), k, v)'
         /\ Query(v)' = Below(Reach(4, v), 4, v)'
<1>1. /\ Reach(1, v)' = Root
      /\ Reach(2, v)' = Below(Reach(1, v), 1, v)'
      /\ Reach(3, v)' = Below(Reach(2, v), 2, v)'
      /\ Reach(4, v)' = Below(Reach(3, v), 3, v)'
      /\ Query(v)' = Below(Reach(4, v), 4, v)'
  BY DEF Reach, Query
<1>2. \A k \in 1 .. 3 : (k = 1 /\ k + 1 = 2) \/ (k = 2 /\ k + 1 = 3) \/ (k = 3 /\ k + 1 = 4)
  OBVIOUS
<1> QED
  BY <1>1, <1>2
-----------------------------------------------------------------------------
\* The entries of a table above the last level are empty or name a table in use.
LEMMA InnerEntry ==
  ASSUME TypeOK, TreeShaped, NEW t \in Inner, NEW i \in Entries
  PROVE  /\ t \in Used /\ level[t] \in 1 .. 3
         /\ contents[t][i] # Empty =>
              contents[t][i] \in Used /\ level[contents[t][i]] = level[t] + 1
<1>1. t \in Used /\ t \in Tables /\ level[t] \in 1 .. 3
  <2>1. level \in [Tables -> 0 .. 4]
    BY DEF TypeOK
  <2>2. t \in Tables /\ level[t] # 0 /\ level[t] < 4 /\ t \in Used
    BY DEF Inner, Used
  <2>3. level[t] \in 0 .. 4
    BY <2>1, <2>2
  <2> QED
    BY <2>2, <2>3
<1>2. contents[t][i] \in Used \cup {Empty}
  BY DEF TypeOK
<1> QED
  BY <1>1, <1>2 DEF TreeShaped

\* What the walk reaches at level k is a table of level k.
LEMMA ReachLevel ==
  ASSUME PageTablesAssumption, TypeOK, TreeShaped, NEW v \in Virtual
  PROVE  \A k \in 1 .. 4 : Reach(k, v) # Empty => Reach(k, v) \in Used /\ level[Reach(k, v)] = k
<1> DEFINE P(k) == Reach(k, v) # Empty => Reach(k, v) \in Used /\ level[Reach(k, v)] = k
<1>1. P(1)
  BY ReachSteps DEF PageTablesAssumption, TreeShaped, Used
<1>2. ASSUME NEW k \in 1 .. 3, P(k) PROVE P(k + 1)
  <2>1. Reach(k + 1, v) = Below(Reach(k, v), k, v)
    BY ReachSteps
  <2>2. CASE Reach(k, v) = Empty
    BY <2>1, <2>2 DEF Below
  <2>3. CASE Reach(k, v) # Empty
    <3>1. Reach(k, v) \in Inner /\ level[Reach(k, v)] = k
      BY <1>2, <2>3 DEF Inner
    <3>2. Reach(k + 1, v) = contents[Reach(k, v)][Index(k, v)]
      BY <2>1, <2>3 DEF Below
    <3>3. Index(k, v) \in Entries
      BY IndexInTable
    <3> QED
      BY <3>1, <3>2, <3>3, InnerEntry
  <2> QED
    BY <2>2, <2>3
<1> HIDE DEF P
<1>3. P(2) /\ P(3) /\ P(4)
  <2>1. P(1 + 1)
    BY <1>1, <1>2
  <2>2. P(2 + 1)
    BY <1>2, <2>1
  <2>3. P(3 + 1)
    BY <1>2, <2>2
  <2> QED
    BY <2>1, <2>2, <2>3
<1>4. \A k \in 1 .. 4 : P(k)
  BY <1>1, <1>3
<1> QED
  BY <1>4 DEF P

\* Two walks that meet at a table came the same way.
LEMMA SameWay ==
  ASSUME PageTablesAssumption, TypeOK, TreeShaped,
         NEW v \in Virtual, NEW w \in Virtual, NEW k \in 1 .. 3,
         Reach(k + 1, v) = Reach(k + 1, w), Reach(k + 1, v) # Empty
  PROVE  /\ Reach(k, v) = Reach(k, w) /\ Reach(k, v) # Empty
         /\ Index(k, v) = Index(k, w)
<1>1. ASSUME NEW x \in Virtual, Reach(k + 1, x) # Empty
      PROVE  /\ Reach(k, x) \in Inner /\ Reach(k, x) # Empty
             /\ Index(k, x) \in Entries
             /\ Reach(k + 1, x) = contents[Reach(k, x)][Index(k, x)]
  <2>1. Reach(k, x) # Empty /\ Reach(k + 1, x) = contents[Reach(k, x)][Index(k, x)]
    BY <1>1, ReachSteps DEF Below
  <2>2. Reach(k, x) \in Used /\ level[Reach(k, x)] = k
    <3>1. k \in 1 .. 4
      OBVIOUS
    <3>2. \A j \in 1 .. 4 : Reach(j, x) # Empty => Reach(j, x) \in Used /\ level[Reach(j, x)] = j
      BY <1>1, ReachLevel
    <3> QED
      BY <2>1, <3>1, <3>2
  <2>3. k \in 1 .. 4 /\ k < 4
    OBVIOUS
  <2>4. Index(k, x) \in Entries
    BY <1>1, <2>3, IndexInTable
  <2> QED
    BY <2>1, <2>2, <2>3, <2>4 DEF Inner
<1>2. /\ Reach(k, v) \in Inner /\ Reach(k, w) \in Inner /\ Reach(k, v) # Empty
      /\ Index(k, v) \in Entries /\ Index(k, w) \in Entries
      /\ contents[Reach(k, v)][Index(k, v)] = contents[Reach(k, w)][Index(k, w)]
      /\ contents[Reach(k, v)][Index(k, v)] # Empty
  BY <1>1
<1> QED
  BY <1>2 DEF TreeShaped

\* No two pages have their entries in the same place.
LEMMA OwnEntry ==
  ASSUME PageTablesAssumption, TypeOK, TreeShaped,
         NEW v \in Virtual, NEW w \in Virtual,
         Reach(4, v) = Reach(4, w), Reach(4, v) # Empty,
         Index(4, v) = Index(4, w)
  PROVE  v = w
<1>1. Reach(3 + 1, v) = Reach(3 + 1, w) /\ Reach(3 + 1, v) # Empty
  OBVIOUS
<1>2. Reach(2 + 1, v) = Reach(2 + 1, w) /\ Reach(2 + 1, v) # Empty /\ Index(3, v) = Index(3, w)
  BY <1>1, SameWay
<1>3. Reach(1 + 1, v) = Reach(1 + 1, w) /\ Reach(1 + 1, v) # Empty /\ Index(2, v) = Index(2, w)
  BY <1>2, SameWay
<1>4. Index(1, v) = Index(1, w)
  BY <1>3, SameWay
<1> QED
  BY <1>2, <1>3, <1>4, IndicesDecide
-----------------------------------------------------------------------------
\* Every page of a chunk is a page of the address space.
LEMMA ChunkPages ==
  ASSUME PageTablesAssumption, NEW c, InRange(c), NEW i \in 0 .. c.pages - 1
  PROVE  /\ c.virt + i \in Virtual /\ i \in Nat
         /\ c.virt \in Nat /\ c.frame \in Nat /\ c.pages \in Nat /\ c.pages > 0
         /\ [frame |-> c.frame + i, flag |-> c.flag] \in Leaf
<1> DEFINE last == Fan * Fan * Fan * Fan - 1
<1>1. last \in Int
  BY DEF PageTablesAssumption
<1>2. Virtual = 0 .. last
  BY DEF Virtual
<1> HIDE DEF last
<1>3. /\ c.virt \in 0 .. last /\ c.frame \in Nat /\ c.pages \in Nat \ {0} /\ c.flag \in STRING
      /\ c.virt + c.pages - 1 \in 0 .. last
  BY <1>2 DEF InRange, Chunk
<1>4. i \in Nat /\ i <= c.pages - 1
  BY <1>3
<1>5. c.virt + i \in 0 .. last
  BY <1>1, <1>3, <1>4
<1>6. c.frame + i \in Nat
  BY <1>3, <1>4
<1> QED
  BY <1>1, <1>2, <1>3, <1>4, <1>5, <1>6 DEF Leaf

\* The page in hand, while a chunk is.
LEMMA PageInRange ==
  ASSUME PageTablesAssumption, TypeOK, pc \in {"map", "validate"}
  PROVE  /\ Page \in Virtual /\ Wanted \in Leaf
         /\ done \in 0 .. chunk.pages - 1 /\ chunk.pages \in Nat /\ InRange(chunk)
         /\ level[at] \in 1 .. 4 /\ at \in Used /\ at \in Tables
<1>1. InRange(chunk) /\ done \in 0 .. chunk.pages - 1 /\ at \in Used /\ level \in [Tables -> 0 .. 4]
  BY DEF TypeOK
<1>2. level[at] \in 1 .. 4 /\ at \in Tables
  <2>1. at \in Tables /\ level[at] # 0
    BY <1>1 DEF Used
  <2> QED
    BY <1>1, <2>1
<1> QED
  BY <1>1, <1>2, ChunkPages DEF Page, Wanted

LEMMA InitInv ==
  ASSUME PageTablesAssumption, Init
  PROVE  IInv /\ \A v \in Virtual : Query(v) = Empty
<1>1. Root \in Tables /\ Empty \notin Tables
  BY DEF PageTablesAssumption
<1>2. DOMAIN contents = Tables /\ contents[Root] = Cleared
  BY <1>1 DEF Init
<1>3. Used = {Root} /\ Inner = {Root} /\ level[Root] = 1 /\ level \in [Tables -> 0 .. 4]
  BY <1>1 DEF Init, Used, Inner
<1>4. Cleared \in [Entries -> Used \cup {Empty}] /\ \A i \in Entries : Cleared[i] = Empty
  BY DEF Cleared
<1>5. TypeOK
  BY <1>2, <1>3, <1>4 DEF TypeOK, Init, PageTablesAssumption
<1>6. TreeShaped
  BY <1>2, <1>3, <1>4 DEF TreeShaped
<1>7. OnTheWay /\ BehindIsMapped /\ ConsistencyHolds
  BY DEF Init, OnTheWay, BehindIsMapped, ConsistencyHolds
<1>8. ASSUME NEW v \in Virtual PROVE Query(v) = Empty
  <2>1. Index(1, v) \in Entries
    BY IndexInTable
  <2>2. Below(Root, 1, v) = Empty
    BY <1>1, <1>2, <1>4, <2>1 DEF Below
  <2> QED
    BY <2>2 DEF Query, Below
<1> QED
  BY <1>2, <1>5, <1>6, <1>7, <1>8 DEF IInv
-----------------------------------------------------------------------------
LEMMA WiderRange ==
  ASSUME NEW D, NEW A, NEW B, A \subseteq B, NEW f \in [D -> A]
  PROVE  f \in [D -> B]
  OBVIOUS

LEMMA OneEntry ==
  ASSUME NEW D, NEW A, NEW f \in [D -> A], NEW i \in D, NEW x
  PROVE  /\ [f EXCEPT ![i] = x] \in [D -> A \cup {x}]
         /\ [f EXCEPT ![i] = x][i] = x
         /\ \A j \in D : j # i => [f EXCEPT ![i] = x][j] = f[j]
  OBVIOUS

(***************************************************************************)
(* A new table t, entered at place i of the table in hand, is empty and    *)
(* so changes where no page is mapped.                                     *)
(***************************************************************************)
LEMMA NewTable ==
  ASSUME PageTablesAssumption, DOMAIN contents = Tables, TypeOK, TreeShaped,
         NEW CONSTANT t \in Tables, level[t] = 0,
         NEW CONSTANT i \in Entries,
         NEW CONSTANT a \in Inner, contents[a][i] = Empty,
         contents' = [contents EXCEPT ![t] = Cleared, ![a][i] = t],
         level' = [level EXCEPT ![t] = level[a] + 1]
  PROVE  /\ DOMAIN contents' = Tables
         /\ level' \in [Tables -> 0 .. 4]
         /\ Used' = Used \cup {t}
         /\ \A u \in Used' : level'[u] = 4 => contents'[u] \in [Entries -> Leaf \cup {Empty}]
         /\ \A u \in Inner' : contents'[u] \in [Entries -> Used' \cup {Empty}]
         /\ TreeShaped'
         /\ \A v \in Virtual : \A k \in 1 .. 4 :
              Reach(k, v) # Empty => Reach(k, v)' = Reach(k, v)
         /\ \A v \in Virtual : Query(v)' = Query(v)
<1>1. /\ a \in Used /\ a \in Tables /\ level[a] \in 1 .. 3 /\ a # t /\ t \notin Used
      /\ Root \in Tables /\ Empty \notin Tables /\ t # Empty
  <2>1. a \in Used /\ level[a] \in 1 .. 3
    BY InnerEntry
  <2> QED
    BY <2>1 DEF Used, PageTablesAssumption
<1>2. level \in [Tables -> 0 .. 4]
  BY DEF TypeOK
<1>3. /\ DOMAIN contents' = Tables
      /\ contents'[t] = Cleared
      /\ contents'[a] = [contents[a] EXCEPT ![i] = t]
      /\ \A u \in Tables : u # t /\ u # a => contents'[u] = contents[u]
  BY <1>1
<1>4. contents[a] \in [Entries -> Used \cup {Empty}]
  BY DEF TypeOK
<1>5. /\ contents'[a] \in [Entries -> (Used \cup {Empty}) \cup {t}]
      /\ contents'[a][i] = t
      /\ \A j \in Entries : j # i => contents'[a][j] = contents[a][j]
      /\ \A j \in Entries : Cleared[j] = Empty
  <2> DEFINE e == contents[a]
             n == contents'[a]
             A == Used \cup {Empty}
  <2>1. e \in [Entries -> A] /\ n = [e EXCEPT ![i] = t]
    BY <1>3, <1>4
  <2>2. \A j \in Entries : Cleared[j] = Empty
    BY DEF Cleared
  <2> HIDE DEF e, n, A
  <2>3. n \in [Entries -> A \cup {t}] /\ n[i] = t /\ \A j \in Entries : j # i => n[j] = e[j]
    BY <2>1, OneEntry
  <2> QED
    BY <2>2, <2>3 DEF e, n, A
<1>6. /\ level' \in [Tables -> 0 .. 4]
      /\ level'[t] = level[a] + 1 /\ level'[t] \in 2 .. 4
      /\ \A u \in Tables : u # t => level'[u] = level[u]
  BY <1>1, <1>2
<1>7. Used' = Used \cup {t}
  BY <1>1, <1>6 DEF Used
<1>8. \A u \in Inner' : u = t \/ u \in Inner
  BY <1>6, <1>7 DEF Inner, Used
<1>9. Inner \subseteq Inner' /\ \A u \in Inner : u # t /\ u \in Used /\ u \in Tables
  BY <1>1, <1>6, <1>7 DEF Inner, Used
\* The entries of the tables above the last level, before and after.
<1>10. ASSUME NEW u \in Inner', NEW j \in Entries
       PROVE  \/ u = t /\ contents'[u][j] = Empty
              \/ u = a /\ j = i /\ contents'[u][j] = t
              \/ /\ u \in Inner /\ u # t /\ ~ (u = a /\ j = i)
                 /\ contents'[u][j] = contents[u][j]
  BY <1>3, <1>5, <1>8, <1>9
<1>11. \A u \in Inner, j \in Entries :
         contents[u][j] # Empty =>
           contents[u][j] \in Used /\ contents[u][j] # t /\ contents[u][j] \in Tables
           /\ level[contents[u][j]] = level[u] + 1
  <2>1. \A u \in Used : u # t /\ u \in Tables
    BY <1>1 DEF Used
  <2> QED
    BY <2>1, InnerEntry
<1>12. ASSUME NEW u \in Used', level'[u] = 4
       PROVE  contents'[u] \in [Entries -> Leaf \cup {Empty}]
  <2>1. CASE u = t
    BY <1>3, <2>1 DEF Cleared
  <2>2. CASE u # t
    <3>1. u \in Used /\ u \in Tables /\ level[u] = 4 /\ u # a
      BY <1>1, <1>6, <1>7, <1>12, <2>2 DEF Used
    <3>2. contents'[u] = contents[u]
      BY <1>3, <2>2, <3>1
    <3> QED
      BY <3>1, <3>2 DEF TypeOK
  <2> QED
    BY <2>1, <2>2
<1>13. ASSUME NEW u \in Inner'
       PROVE  contents'[u] \in [Entries -> Used' \cup {Empty}]
  <2>1. CASE u = t
    BY <1>3, <2>1 DEF Cleared
  <2>2. CASE u = a
    <3>1. (Used \cup {Empty}) \cup {t} = Used' \cup {Empty}
      BY <1>7
    <3> QED
      BY <1>5, <2>2, <3>1
  <2>3. CASE u # t /\ u # a
    <3>1. u \in Inner /\ contents'[u] = contents[u]
      BY <1>3, <1>8, <1>9, <2>3
    <3>2. contents[u] \in [Entries -> Used \cup {Empty}]
      BY <3>1 DEF TypeOK
    <3>3. Used \cup {Empty} \subseteq Used' \cup {Empty}
      BY <1>7
    <3> QED
      BY <3>1, <3>2, <3>3, WiderRange
  <2> QED
    BY <2>1, <2>2, <2>3
<1>14. TreeShaped'
  <2>1. level'[Root] = 1
    BY <1>1, <1>6 DEF TreeShaped
  <2>2. ASSUME NEW u \in Inner', NEW j \in Entries, contents'[u][j] # Empty
        PROVE  level'[contents'[u][j]] = level'[u] + 1
    BY <1>1, <1>6, <1>9, <1>10, <1>11, <2>2
  <2>3. ASSUME NEW u \in Inner', NEW w \in Inner', NEW j \in Entries, NEW l \in Entries,
               contents'[u][j] # Empty, contents'[u][j] = contents'[w][l]
        PROVE  u = w /\ j = l
    <3>1. CASE u = a /\ j = i
      BY <1>1, <1>10, <1>11, <2>3, <3>1
    <3>2. CASE w = a /\ l = i
      BY <1>1, <1>10, <1>11, <2>3, <3>2
    <3>3. CASE ~ (u = a /\ j = i) /\ ~ (w = a /\ l = i)
      <4>1. u \in Inner /\ contents'[u][j] = contents[u][j]
        BY <1>10, <2>3, <3>3
      <4>2. w \in Inner /\ contents'[w][l] = contents[w][l]
        BY <1>10, <2>3, <3>3
      <4> QED
        BY <2>3, <4>1, <4>2 DEF TreeShaped
    <3> QED
      BY <3>1, <3>2, <3>3
  <2>4. ASSUME NEW u \in Used' \ {Root}
        PROVE  \E w \in Inner', j \in Entries : contents'[w][j] = u
    <3>1. CASE u = t
      BY <1>5, <1>9, <3>1
    <3>2. CASE u # t
      <4>1. u \in Used \ {Root} /\ u # Empty
        BY <1>1, <1>7, <3>2 DEF Used
      <4>2. PICK w \in Inner, j \in Entries : contents[w][j] = u
        BY <4>1 DEF TreeShaped
      <4>3. contents'[w][j] = u /\ w \in Inner'
        BY <1>9, <1>10, <4>1, <4>2
      <4> QED
        BY <4>3
    <3> QED
      BY <3>1, <3>2
  <2>5. \A u, w \in Inner', j, l \in Entries :
          contents'[u][j] # Empty /\ contents'[u][j] = contents'[w][l] => u = w /\ j = l
    BY <2>3
  <2>6. \A u \in Inner', j \in Entries :
          contents'[u][j] # Empty => level'[contents'[u][j]] = level'[u] + 1
    BY <2>2
  <2>7. \A u \in Used' \ {Root} : \E w \in Inner', j \in Entries : contents'[w][j] = u
    BY <2>4
  <2> HIDE DEF Used, Inner
  <2> QED
    BY <2>1, <2>5, <2>6, <2>7, Zenon DEF TreeShaped
<1>15. ASSUME NEW CONSTANT v \in Virtual
       PROVE  /\ \A k \in 1 .. 4 : Reach(k, v) # Empty => Reach(k, v)' = Reach(k, v)
              /\ Query(v)' = Query(v)
  <2> DEFINE R(k) == Reach(k, v)
             After(k) == Reach(k, v)'
             Same(k) == R(k) = After(k) \/ (R(k) = Empty /\ After(k) = t)
  <2>1. \A k \in 1 .. 4 : R(k) # Empty => R(k) \in Used /\ level[R(k)] = k
    BY ReachLevel
  <2>2. \A k \in 1 .. 4 : Index(k, v) \in Entries
    BY IndexInTable
  <2>3. R(1) = After(1)
    BY ReachSteps, ReachStepsPrime
  <2>4. ASSUME NEW k \in 1 .. 3, Same(k) PROVE Same(k + 1)
    <3>1. R(k + 1) = IF R(k) = Empty THEN Empty ELSE contents[R(k)][Index(k, v)]
      BY ReachSteps DEF Below
    <3>2. After(k + 1) = IF After(k) = Empty THEN Empty ELSE contents'[After(k)][Index(k, v)]
      BY ReachStepsPrime DEF Below, Index
    <3>3. Index(k, v) \in Entries /\ k \in 1 .. 4
      BY <2>2
    <3> HIDE DEF R, After
    <3>4. CASE R(k) = Empty
      BY <1>1, <1>3, <1>5, <2>4, <3>1, <3>2, <3>3, <3>4
    <3>5. CASE R(k) # Empty
      <4>1. R(k) \in Used /\ level[R(k)] = k /\ R(k) = After(k)
        BY <2>1, <2>4, <3>3, <3>5
      <4>2. R(k) \in Inner
        BY <4>1 DEF Inner
      <4> QED
        BY <1>9, <1>10, <3>1, <3>2, <3>3, <3>5, <4>1, <4>2
    <3> QED
      BY <3>4, <3>5
  <2> HIDE DEF R, After
  <2>5. Same(2) /\ Same(3) /\ Same(4)
    <3>1. Same(1 + 1)
      BY <2>3, <2>4
    <3>2. Same(2 + 1)
      BY <2>4, <3>1
    <3>3. Same(3 + 1)
      BY <2>4, <3>2
    <3> QED
      BY <3>1, <3>2, <3>3
  <2>6. Query(v)' = Query(v)
    <3>1. Query(v) = IF R(4) = Empty THEN Empty ELSE contents[R(4)][Index(4, v)]
      BY ReachSteps DEF Below, R
    <3>2. Query(v)' = IF After(4) = Empty THEN Empty ELSE contents'[After(4)][Index(4, v)]
      BY ReachStepsPrime DEF Below, After, Index
    <3>3. CASE R(4) = Empty
      BY <1>1, <1>3, <1>5, <2>2, <2>5, <3>1, <3>2, <3>3
    <3>4. CASE R(4) # Empty
      <4>1. R(4) \in Used /\ level[R(4)] = 4 /\ R(4) = After(4)
        BY <2>1, <2>5, <3>4
      <4>2. R(4) \in Tables /\ R(4) # t /\ R(4) # a
        BY <1>1, <4>1 DEF Used
      <4> QED
        BY <1>3, <3>1, <3>2, <4>1, <4>2
    <3> QED
      BY <3>3, <3>4
  <2>7. \A k \in 1 .. 4 : R(k) # Empty => After(k) = R(k)
    BY <2>3, <2>5
  <2> QED
    BY <2>6, <2>7 DEF R, After
<1> QED
  BY <1>3, <1>6, <1>7, <1>12, <1>13, <1>14, <1>15
-----------------------------------------------------------------------------
(***************************************************************************)
(* Writing the entry of page p, in the table a that the walk has reached,  *)
(* changes the translation of p and of no other page.                      *)
(***************************************************************************)
LEMMA NewEntry ==
  ASSUME PageTablesAssumption, DOMAIN contents = Tables, TypeOK, TreeShaped,
         NEW CONSTANT p \in Virtual, NEW CONSTANT x \in Leaf,
         NEW CONSTANT a \in Used, level[a] = 4, a = Reach(4, p),
         contents' = [contents EXCEPT ![a][Index(4, p)] = x],
         level' = level
  PROVE  /\ DOMAIN contents' = Tables
         /\ Used' = Used
         /\ \A u \in Used' : level'[u] = 4 => contents'[u] \in [Entries -> Leaf \cup {Empty}]
         /\ \A u \in Inner' : contents'[u] \in [Entries -> Used' \cup {Empty}]
         /\ TreeShaped'
         /\ Query(p)' = x
         /\ \A v \in Virtual : v # p => Query(v)' = Query(v)
<1>1. /\ a \in Tables /\ a \notin Inner /\ Empty \notin Tables /\ a # Empty
      /\ Index(4, p) \in Entries
  BY IndexInTable DEF Used, Inner, PageTablesAssumption
<1>2. /\ DOMAIN contents' = Tables
      /\ contents'[a] = [contents[a] EXCEPT ![Index(4, p)] = x]
      /\ \A u \in Tables : u # a => contents'[u] = contents[u]
  BY <1>1
<1>3. /\ contents'[a] \in [Entries -> Leaf \cup {Empty}]
      /\ contents'[a][Index(4, p)] = x
      /\ \A j \in Entries : j # Index(4, p) => contents'[a][j] = contents[a][j]
  <2> DEFINE e == contents[a]
             n == contents'[a]
             A == Leaf \cup {Empty}
             i == Index(4, p)
  <2>1. e \in [Entries -> A] /\ n = [e EXCEPT ![i] = x]
    BY <1>2 DEF TypeOK
  <2>2. i \in Entries
    BY <1>1
  <2>3. A \cup {x} = A
    OBVIOUS
  <2> HIDE DEF e, n, A, i
  <2>4. n \in [Entries -> A \cup {x}] /\ n[i] = x /\ \A j \in Entries : j # i => n[j] = e[j]
    BY <2>1, <2>2, OneEntry
  <2> QED
    BY <2>3, <2>4 DEF e, n, A, i
<1>4. Used' = Used /\ Inner' = Inner
  BY DEF Used, Inner
<1>5. \A u \in Inner : contents'[u] = contents[u] /\ u # a /\ u \in Tables
  BY <1>1, <1>2 DEF Inner, Used
<1>6. ASSUME NEW u \in Used', level'[u] = 4
      PROVE  contents'[u] \in [Entries -> Leaf \cup {Empty}]
  <2>1. CASE u = a
    BY <1>3, <2>1
  <2>2. CASE u # a
    <3>1. u \in Used /\ u \in Tables /\ level[u] = 4
      BY <1>4, <1>6 DEF Used
    <3> QED
      BY <1>2, <2>2, <3>1 DEF TypeOK
  <2> QED
    BY <2>1, <2>2
<1>7. ASSUME NEW u \in Inner'
      PROVE  contents'[u] \in [Entries -> Used' \cup {Empty}]
  <2>1. u \in Inner /\ contents'[u] = contents[u]
    BY <1>4, <1>5
  <2>2. contents[u] \in [Entries -> Used \cup {Empty}]
    BY <2>1 DEF TypeOK
  <2> QED
    BY <1>4, <2>1, <2>2
<1>8. TreeShaped'
  <2>1. level'[Root] = 1
    BY DEF TreeShaped
  <2>2. \A u, w \in Inner', j, l \in Entries :
          contents'[u][j] # Empty /\ contents'[u][j] = contents'[w][l] => u = w /\ j = l
    BY <1>4, <1>5 DEF TreeShaped
  <2>3. \A u \in Inner', j \in Entries :
          contents'[u][j] # Empty => level'[contents'[u][j]] = level'[u] + 1
    BY <1>4, <1>5 DEF TreeShaped
  <2>4. \A u \in Used' \ {Root} : \E w \in Inner', j \in Entries : contents'[w][j] = u
    BY <1>4, <1>5 DEF TreeShaped
  <2> HIDE DEF Used, Inner
  <2> QED
    BY <2>1, <2>2, <2>3, <2>4, Zenon DEF TreeShaped
<1>9. ASSUME NEW CONSTANT v \in Virtual
      PROVE  /\ Reach(4, v)' = Reach(4, v)
             /\ Query(v) = IF Reach(4, v) = Empty THEN Empty ELSE contents[Reach(4, v)][Index(4, v)]
             /\ Query(v)' = IF Reach(4, v) = Empty THEN Empty ELSE contents'[Reach(4, v)][Index(4, v)]
  <2> DEFINE R(k) == Reach(k, v)
             After(k) == Reach(k, v)'
  <2>1. \A k \in 1 .. 4 : R(k) # Empty => R(k) \in Used /\ level[R(k)] = k
    BY ReachLevel
  <2>2. R(1) = After(1)
    BY ReachSteps, ReachStepsPrime
  <2>3. ASSUME NEW k \in 1 .. 3, R(k) = After(k) PROVE R(k + 1) = After(k + 1)
    <3>1. R(k + 1) = IF R(k) = Empty THEN Empty ELSE contents[R(k)][Index(k, v)]
      BY ReachSteps DEF Below
    <3>2. After(k + 1) = IF After(k) = Empty THEN Empty ELSE contents'[After(k)][Index(k, v)]
      BY ReachStepsPrime DEF Below, Index
    <3>3. k \in 1 .. 4 /\ k < 4
      OBVIOUS
    <3> HIDE DEF R, After
    <3>4. CASE R(k) = Empty
      BY <2>3, <3>1, <3>2, <3>4
    <3>5. CASE R(k) # Empty
      <4>1. R(k) \in Inner
        BY <2>1, <3>3, <3>5 DEF Inner
      <4> QED
        BY <1>5, <2>3, <3>1, <3>2, <4>1
    <3> QED
      BY <3>4, <3>5
  <2> HIDE DEF R, After
  <2>4. R(4) = After(4)
    <3>1. R(1 + 1) = After(1 + 1)
      BY <2>2, <2>3
    <3>2. R(2 + 1) = After(2 + 1)
      BY <2>3, <3>1
    <3>3. R(3 + 1) = After(3 + 1)
      BY <2>3, <3>2
    <3> QED
      BY <3>3
  <2>5. Query(v) = IF R(4) = Empty THEN Empty ELSE contents[R(4)][Index(4, v)]
    BY ReachSteps DEF Below, R
  <2>6. Query(v)' = IF After(4) = Empty THEN Empty ELSE contents'[After(4)][Index(4, v)]
    BY ReachStepsPrime DEF Below, After, Index
  <2> QED
    BY <2>4, <2>5, <2>6 DEF R, After
<1>10. Query(p)' = x
  BY <1>1, <1>3, <1>9
<1>11. ASSUME NEW CONSTANT v \in Virtual, v # p PROVE Query(v)' = Query(v)
  <2>1. CASE Reach(4, v) = Empty
    BY <1>9, <2>1
  <2>2. CASE Reach(4, v) = a
    <3>1. Index(4, v) # Index(4, p)
      BY <1>1, <1>11, <2>2, OwnEntry
    <3>2. Index(4, v) \in Entries
      BY IndexInTable
    <3> QED
      BY <1>3, <1>9, <2>2, <3>1, <3>2
  <2>3. CASE Reach(4, v) # Empty /\ Reach(4, v) # a
    <3>1. Reach(4, v) \in Tables
      <4>1. \A k \in 1 .. 4 : Reach(k, v) # Empty => Reach(k, v) \in Used
        BY ReachLevel
      <4> QED
        BY <2>3, <4>1 DEF Used
    <3> QED
      BY <1>2, <1>9, <2>3, <3>1
  <2> QED
    BY <2>1, <2>2, <2>3
<1> QED
  BY <1>2, <1>4, <1>6, <1>7, <1>8, <1>10, <1>11
-----------------------------------------------------------------------------
\* A step that leaves the tables alone leaves every walk alone.
LEMMA SameTables ==
  ASSUME contents' = contents, level' = level,
         DOMAIN contents = Tables, TypeOK, TreeShaped
  PROVE  /\ DOMAIN contents' = Tables
         /\ Used' = Used /\ Inner' = Inner
         /\ level' \in [Tables -> 0 .. 4]
         /\ \A u \in Used' : level'[u] = 4 => contents'[u] \in [Entries -> Leaf \cup {Empty}]
         /\ \A u \in Inner' : contents'[u] \in [Entries -> Used' \cup {Empty}]
         /\ TreeShaped'
<1>1. Used' = Used /\ Inner' = Inner
  BY DEF Used, Inner
<1>2. TreeShaped'
  BY <1>1 DEF TreeShaped
<1>3. level \in [Tables -> 0 .. 4]
  BY DEF TypeOK
<1>4. \A u \in Used : level[u] = 4 => contents[u] \in [Entries -> Leaf \cup {Empty}]
  BY DEF TypeOK
<1>5. \A u \in Inner : contents[u] \in [Entries -> Used \cup {Empty}]
  BY DEF TypeOK
<1> QED
  BY <1>1, <1>2, <1>3, <1>4, <1>5

LEMMA SameWalks ==
  ASSUME contents' = contents, NEW CONSTANT v
  PROVE  /\ Query(v)' = Query(v)
         /\ \A k \in 1 .. 4 : Reach(k, v)' = Reach(k, v)
BY DEF Query, Reach, Below, Index

\* The table that __do_mapping goes on with is the next on the way.
LEMMA NextOnTheWay ==
  ASSUME IInv, pc = "map", level[at] \in 1 .. 3
  PROVE  at # Empty => Reach(level[at] + 1, Page) = Entry
<1>1. at = Reach(level[at], Page)
  BY DEF IInv, OnTheWay
<1> QED
  BY <1>1, ReachSteps DEF Below, Entry, Place

\* The pages behind the loop keep their entries when no translation changes.
LEMMA SameBehind ==
  ASSUME PageTablesAssumption, IInv, pc \in {"map", "validate"}, pc' = pc,
         chunk' = chunk, pc = "map" => done' = done,
         \A v \in Virtual : Query(v)' = Query(v)
  PROVE  BehindIsMapped'
<1> SUFFICES ASSUME NEW CONSTANT i \in 0 .. chunk.pages - 1,
                    pc = "validate" \/ (pc = "map" /\ i < done)
             PROVE  Query(chunk.virt + i)' = [frame |-> chunk.frame + i, flag |-> chunk.flag]
  BY DEF BehindIsMapped
<1>1. InRange(chunk)
  BY DEF IInv, TypeOK
<1>2. PICK p \in Virtual : p = chunk.virt + i
  BY <1>1, ChunkPages
<1>3. Query(p)' = [frame |-> chunk.frame + i, flag |-> chunk.flag]
  BY <1>2 DEF IInv, BehindIsMapped
<1>4. Query(chunk.virt + i)' = Query(p)'
  BY <1>2 DEF Query, Below
<1> QED
  BY <1>3, <1>4

\* The type of the variables other than contents and level.
RestTyped ==
  /\ boot \in 0 .. Len(BootChunks)
  /\ pc \in {"idle", "map", "validate", "no page", "inconsistent"}
  /\ pc \in {"map", "validate"} => InRange(chunk) /\ done \in 0 .. chunk.pages - 1
  /\ at \in Used

LEMMA BeginInv ==
  ASSUME PageTablesAssumption, IInv, NEW CONSTANT c, InRange(c), Begin(c)
  PROVE  IInv'
<1>1. /\ contents' = contents /\ level' = level /\ boot' = boot
      /\ pc' = "map" /\ chunk' = c /\ done' = 0 /\ at' = Root
  BY DEF Begin
<1>2. /\ DOMAIN contents = Tables /\ TypeOK /\ TreeShaped
  BY DEF IInv
<1>3. level'[at'] = 1 /\ Root \in Used'
  BY <1>1, <1>2 DEF TreeShaped, Used, PageTablesAssumption
<1>4. c.pages \in Nat \ {0}
  BY DEF InRange, Chunk
<1>5. TypeOK'
  <2>1. boot \in 0 .. Len(BootChunks) /\ 0 \in 0 .. c.pages - 1
    <3>1. 0 \in 0 .. c.pages - 1
      BY <1>4
    <3>2. boot \in 0 .. Len(BootChunks)
      BY <1>2 DEF TypeOK
    <3> QED
      BY <3>1, <3>2
  <2>2. InRange(chunk)'
    BY <1>1 DEF InRange
  <2>3. RestTyped'
    BY <1>1, <1>3, <2>1, <2>2 DEF RestTyped
  <2> QED
    BY <1>1, <1>2, <2>3, SameTables DEF TypeOK, RestTyped
<1>6. OnTheWay'
  BY <1>1, <1>3 DEF OnTheWay, Reach
<1>7. BehindIsMapped'
  BY <1>1, <1>4 DEF BehindIsMapped
<1>8. ConsistencyHolds'
  BY <1>1 DEF ConsistencyHolds
<1> QED
  BY <1>1, <1>2, <1>5, <1>6, <1>7, <1>8, SameTables DEF IInv

LEMMA DescendInv ==
  ASSUME PageTablesAssumption, IInv, Descend
  PROVE  IInv'
<1>1. /\ contents' = contents /\ level' = level /\ boot' = boot
      /\ pc = "map" /\ pc' = "map" /\ chunk' = chunk /\ done' = done
      /\ at' = Entry /\ Entry # Empty /\ level[at] < 4
  BY DEF Descend, Present
<1>2. /\ DOMAIN contents = Tables /\ TypeOK /\ TreeShaped
  BY DEF IInv
<1>3. /\ Page \in Virtual /\ level[at] \in 1 .. 4 /\ at \in Used /\ at \in Inner
      /\ Place \in Entries /\ at # Empty
  <2>1. Page \in Virtual /\ level[at] \in 1 .. 4 /\ at \in Used /\ at \in Tables
    BY <1>1, <1>2, PageInRange
  <2> QED
    BY <1>1, <2>1, IndexInTable DEF Inner, Place, PageTablesAssumption
<1>4. Entry \in Used /\ level[Entry] = level[at] + 1
  BY <1>1, <1>2, <1>3, InnerEntry DEF Entry
<1>5. Reach(level[at] + 1, Page) = Entry
  BY <1>1, <1>3, NextOnTheWay
<1>6. Page' = Page
  BY <1>1 DEF Page
<1>7. OnTheWay'
  <2>1. level'[at'] = level[at] + 1
    BY <1>1, <1>4
  <2>2. PICK p \in Virtual, k \in 1 .. 4 : p = Page /\ k = level[at] + 1
    BY <1>1, <1>3
  <2>3. Reach(k, p)' = Reach(k, p)
    BY <1>1, SameWalks
  <2>4. Reach(level[at], Page)' = Reach(k, p)'
    <3>1. level[at]' = k /\ Page' = p
      BY <1>6, <2>1, <2>2
    <3> QED
      BY <3>1 DEF Reach, Below
  <2> QED
    BY <1>1, <1>5, <2>2, <2>3, <2>4 DEF OnTheWay
<1>8. BehindIsMapped'
  BY <1>1, SameWalks, SameBehind
<1>9. ConsistencyHolds'
  BY <1>1 DEF ConsistencyHolds
<1>10. TypeOK'
  <2>1. RestTyped
    BY <1>2 DEF TypeOK, RestTyped
  <2>2. RestTyped'
    BY <1>1, <1>2, <1>4, <2>1, SameTables DEF RestTyped
  <2> QED
    BY <1>1, <1>2, <2>2, SameTables DEF TypeOK, RestTyped
<1> QED
  BY <1>1, <1>2, <1>7, <1>8, <1>9, <1>10, SameTables DEF IInv
-----------------------------------------------------------------------------
LEMMA AddTableInv ==
  ASSUME PageTablesAssumption, IInv, AddTable
  PROVE  IInv' /\ \A v \in Virtual : Query(v)' = Query(v)
<1>1. /\ pc = "map" /\ level[at] < 4 /\ Entry = Empty
      /\ boot' = boot /\ pc' = "map" /\ chunk' = chunk /\ done' = done
  BY DEF AddTable, Present
<1>2. PICK t \in Tables :
        /\ level[t] = 0 /\ at' = t
        /\ contents' = [contents EXCEPT ![t] = Cleared, ![at][Place] = t]
        /\ level' = [level EXCEPT ![t] = level[at] + 1]
  <2>1. Free \subseteq Tables /\ Supply(Free) \subseteq Free
    BY DEF Free, PageTablesAssumption
  <2> QED
    BY <2>1 DEF AddTable, Free
<1>3. /\ DOMAIN contents = Tables /\ TypeOK /\ TreeShaped
  BY DEF IInv
<1>4. /\ Page \in Virtual /\ at \in Used /\ level[at] \in 1 .. 4
  BY <1>1, <1>3, PageInRange
<1>5. at \in Inner /\ Place \in Entries /\ at # Empty /\ at \in Tables /\ at # t
  BY <1>1, <1>2, <1>4, IndexInTable DEF Inner, Used, Place, PageTablesAssumption
<1>6. PICK a \in Inner, i \in Entries, p \in Virtual, k \in 1 .. 3 :
        a = at /\ i = Place /\ p = Page /\ k = level[at]
  BY <1>1, <1>4, <1>5
<1>7. /\ contents[a][i] = Empty
      /\ contents' = [contents EXCEPT ![t] = Cleared, ![a][i] = t]
      /\ level' = [level EXCEPT ![t] = level[a] + 1]
  BY <1>1, <1>2, <1>6 DEF Entry
<1>8. /\ DOMAIN contents' = Tables
      /\ level' \in [Tables -> 0 .. 4]
      /\ Used' = Used \cup {t}
      /\ \A u \in Used' : level'[u] = 4 => contents'[u] \in [Entries -> Leaf \cup {Empty}]
      /\ \A u \in Inner' : contents'[u] \in [Entries -> Used' \cup {Empty}]
      /\ TreeShaped'
      /\ \A v \in Virtual : \A j \in 1 .. 4 :
           Reach(j, v) # Empty => Reach(j, v)' = Reach(j, v)
      /\ \A v \in Virtual : Query(v)' = Query(v)
  <2> HIDE <1>6
  <2> QED
    BY <1>2, <1>3, <1>7, NewTable
<1>9. TypeOK'
  <2>1. RestTyped
    BY <1>3 DEF TypeOK, RestTyped
  <2>2. RestTyped'
    BY <1>1, <1>2, <1>8, <2>1 DEF RestTyped, InRange
  <2> QED
    BY <1>8, <2>2 DEF TypeOK, RestTyped
<1>10. OnTheWay'
  <2>1. Reach(k, p) = a /\ a # Empty
    BY <1>1, <1>5, <1>6 DEF IInv, OnTheWay
  <2>2. Reach(k, p)' = a
    <3>1. k \in 1 .. 4
      OBVIOUS
    <3> QED
      BY <1>8, <2>1, <3>1
  <2>3. i = Index(k, p)
    BY <1>6 DEF Place
  <2>4. contents'[a][i] = t
    <3>1. contents[a] \in [Entries -> Used \cup {Empty}] /\ a # t /\ a \in Tables
      BY <1>3, <1>5, <1>6 DEF TypeOK
    <3>2. contents'[a] = [contents[a] EXCEPT ![i] = t]
      BY <1>2, <1>3, <1>7, <3>1
    <3> DEFINE e == contents[a]
    <3> HIDE DEF e
    <3>3. [e EXCEPT ![i] = t][i] = t
      BY <3>1, OneEntry DEF e
    <3> QED
      BY <3>2, <3>3 DEF e
  <2>5. Reach(k + 1, p)' = t
    <3>1. Reach(k + 1, p)' = Below(Reach(k, p), k, p)'
      BY ReachStepsPrime
    <3>2. Below(Reach(k, p), k, p)' = contents'[a][Index(k, p)]
      BY <2>1, <2>2 DEF Below, Index
    <3> QED
      BY <2>3, <2>4, <3>1, <3>2
  <2>6. level'[t] = k + 1
    <3>1. level \in [Tables -> 0 .. 4]
      BY <1>3 DEF TypeOK
    <3> QED
      BY <1>2, <1>6, <3>1
  <2>7. PICK l \in 2 .. 4 : l = k + 1
    OBVIOUS
  <2>8. Reach(level[at], Page)' = Reach(l, p)'
    <3>1. level[at]' = l /\ Page' = p
      BY <1>1, <1>2, <1>6, <2>6, <2>7 DEF Page
    <3> QED
      BY <3>1 DEF Reach, Below
  <2> QED
    BY <1>2, <2>5, <2>7, <2>8 DEF OnTheWay
<1>11. BehindIsMapped'
  BY <1>1, <1>8, SameBehind
<1>12. ConsistencyHolds'
  BY <1>1 DEF ConsistencyHolds
<1> QED
  BY <1>8, <1>9, <1>10, <1>11, <1>12 DEF IInv

LEMMA NoPageInv ==
  ASSUME PageTablesAssumption, IInv, NoPage
  PROVE  IInv'
<1>1. /\ contents' = contents /\ level' = level /\ boot' = boot
      /\ pc' = "no page" /\ at' = at
  BY DEF NoPage
<1>2. /\ DOMAIN contents = Tables /\ TypeOK /\ TreeShaped
  BY DEF IInv
<1>3. TypeOK'
  <2>1. RestTyped
    BY <1>2 DEF TypeOK, RestTyped
  <2>2. RestTyped'
    BY <1>1, <1>2, <2>1, SameTables DEF RestTyped
  <2> QED
    BY <1>1, <1>2, <2>2, SameTables DEF TypeOK, RestTyped
<1>4. OnTheWay' /\ BehindIsMapped' /\ ConsistencyHolds'
  BY <1>1 DEF OnTheWay, BehindIsMapped, ConsistencyHolds
<1> QED
  BY <1>1, <1>2, <1>3, <1>4, SameTables DEF IInv
-----------------------------------------------------------------------------
\* SetEntry gives the page in hand its entry and changes no other.
LEMMA SetEntryFacts ==
  ASSUME PageTablesAssumption, IInv, SetEntry
  PROVE  /\ DOMAIN contents' = Tables
         /\ Used' = Used
         /\ \A u \in Used' : level'[u] = 4 => contents'[u] \in [Entries -> Leaf \cup {Empty}]
         /\ \A u \in Inner' : contents'[u] \in [Entries -> Used' \cup {Empty}]
         /\ TreeShaped'
         /\ Page \in Virtual /\ Wanted \in Leaf
         /\ \A v \in Virtual : Query(v)' = IF v = Page THEN Wanted ELSE Query(v)
<1>1. /\ pc = "map" /\ level[at] = 4 /\ level' = level
      /\ contents' = [contents EXCEPT ![at][Place] = Wanted]
  BY DEF SetEntry
<1>2. /\ DOMAIN contents = Tables /\ TypeOK /\ TreeShaped
  BY DEF IInv
<1>3. /\ Page \in Virtual /\ Wanted \in Leaf /\ at \in Used
  BY <1>1, <1>2, PageInRange
<1>4. at = Reach(4, Page) /\ Place = Index(4, Page)
  BY <1>1 DEF IInv, OnTheWay, Place
<1>5. PICK p \in Virtual, x \in Leaf, a \in Used : p = Page /\ x = Wanted /\ a = at
  BY <1>3
<1>6. /\ level[a] = 4 /\ a = Reach(4, p)
      /\ contents' = [contents EXCEPT ![a][Index(4, p)] = x]
  BY <1>1, <1>4, <1>5
<1>7. /\ DOMAIN contents' = Tables
      /\ Used' = Used
      /\ \A u \in Used' : level'[u] = 4 => contents'[u] \in [Entries -> Leaf \cup {Empty}]
      /\ \A u \in Inner' : contents'[u] \in [Entries -> Used' \cup {Empty}]
      /\ TreeShaped'
      /\ Query(p)' = x
      /\ \A v \in Virtual : v # p => Query(v)' = Query(v)
  <2> HIDE <1>5
  <2> QED
    BY <1>1, <1>2, <1>6, NewEntry
<1>8. ASSUME NEW CONSTANT v \in Virtual
      PROVE  Query(v)' = IF v = Page THEN Wanted ELSE Query(v)
  <2>1. CASE v = p
    BY <1>5, <1>7, <2>1
  <2>2. CASE v # p
    BY <1>5, <1>7, <2>2
  <2> QED
    BY <2>1, <2>2
<1> QED
  BY <1>3, <1>7, <1>8

LEMMA SetEntryInv ==
  ASSUME PageTablesAssumption, IInv, SetEntry
  PROVE  IInv'
<1>1. /\ pc = "map" /\ level' = level /\ boot' = boot /\ chunk' = chunk
      /\ at' = Root /\ done' = NextDone
      /\ pc' = IF LastPage THEN "validate" ELSE "map"
  BY DEF SetEntry
<1>2. /\ TypeOK /\ TreeShaped
  BY DEF IInv
<1>3. InRange(chunk) /\ done \in 0 .. chunk.pages - 1 /\ chunk.pages \in Nat
  BY <1>1, <1>2, PageInRange
<1>4. TypeOK'
  <2>1. boot \in 0 .. Len(BootChunks) /\ level \in [Tables -> 0 .. 4]
    BY <1>2 DEF TypeOK
  <2>2. done' \in 0 .. chunk.pages - 1
    BY <1>1, <1>3 DEF NextDone, LastPage
  <2>3. Root \in Used
    BY <1>2 DEF TreeShaped, Used, PageTablesAssumption
  <2>4. InRange(chunk)'
    BY <1>1, <1>3 DEF InRange
  <2>5. RestTyped'
    BY <1>1, <2>1, <2>2, <2>3, <2>4, SetEntryFacts DEF RestTyped
  <2> QED
    BY <1>1, <2>1, <2>5, SetEntryFacts DEF TypeOK, RestTyped
<1>5. OnTheWay'
  <2>1. level'[at'] = 1
    BY <1>1, <1>2 DEF TreeShaped
  <2> QED
    BY <1>1, <2>1 DEF OnTheWay, Reach
<1>6. BehindIsMapped'
  <2> SUFFICES ASSUME NEW CONSTANT i \in 0 .. chunk.pages - 1,
                      pc' = "validate" \/ (pc' = "map" /\ i < done')
               PROVE  Query(chunk.virt + i)' = [frame |-> chunk.frame + i, flag |-> chunk.flag]
    BY <1>1 DEF BehindIsMapped
  <2>1. i <= done
    BY <1>1, <1>3 DEF NextDone, LastPage
  <2>2. PICK p \in Virtual : p = chunk.virt + i
    BY <1>3, ChunkPages
  <2>3. Query(chunk.virt + i)' = Query(p)'
    BY <1>1, <2>2 DEF Query, Below
  <2>4. chunk.virt \in Nat
    BY <1>3, ChunkPages
  <2>5. CASE i = done
    BY <2>2, <2>3, <2>5, SetEntryFacts DEF Page, Wanted
  <2>6. CASE i < done
    <3>1. p # Page
      BY <1>3, <2>2, <2>4, <2>6 DEF Page
    <3>2. Query(p) = [frame |-> chunk.frame + i, flag |-> chunk.flag]
      BY <1>1, <2>2, <2>6 DEF IInv, BehindIsMapped
    <3> QED
      BY <2>3, <3>1, <3>2, SetEntryFacts
  <2> QED
    BY <1>3, <2>1, <2>5, <2>6
<1>7. ConsistencyHolds'
  BY <1>1 DEF ConsistencyHolds
<1> QED
  BY <1>4, <1>5, <1>6, <1>7, SetEntryFacts DEF IInv

LEMMA ValidateInv ==
  ASSUME PageTablesAssumption, IInv, Validate
  PROVE  IInv'
<1>1. pc = "validate" /\ contents' = contents /\ level' = level /\ at' = at
  BY DEF Validate
<1>2. /\ DOMAIN contents = Tables /\ TypeOK /\ TreeShaped
  BY DEF IInv
<1>3. InRange(chunk) /\ done \in 0 .. chunk.pages - 1 /\ chunk.pages \in Nat /\ at \in Used
  BY <1>1, <1>2, PageInRange
<1>4. Query(Page) = Wanted
  BY <1>1, <1>3 DEF IInv, BehindIsMapped, Page, Wanted
<1>5. /\ done' = NextDone
      /\ pc' = IF LastPage THEN "idle" ELSE "validate"
      /\ chunk' = IF LastPage THEN NoChunk ELSE chunk
      /\ boot' = IF LastPage /\ boot < Len(BootChunks) THEN boot + 1 ELSE boot
  BY <1>4 DEF Validate
<1>6. TypeOK'
  <2>1. boot' \in 0 .. Len(BootChunks)
    <3>1. boot \in 0 .. Len(BootChunks)
      BY <1>2 DEF TypeOK
    <3>2. Len(BootChunks) \in Nat
      BY DEF PageTablesAssumption
    <3> QED
      BY <1>5, <3>1, <3>2
  <2>2. ~ LastPage => done' \in 0 .. chunk.pages - 1
    BY <1>3, <1>5 DEF NextDone, LastPage
  <2>3. ~ LastPage => InRange(chunk)'
    BY <1>3, <1>5 DEF InRange
  <2>4. RestTyped'
    BY <1>1, <1>2, <1>3, <1>5, <2>1, <2>2, <2>3, SameTables DEF RestTyped
  <2> QED
    BY <1>1, <1>2, <2>4, SameTables DEF TypeOK, RestTyped
<1>7. OnTheWay' /\ ConsistencyHolds'
  BY <1>5 DEF OnTheWay, ConsistencyHolds
<1>8. BehindIsMapped'
  <2>1. CASE LastPage
    BY <1>5, <2>1 DEF BehindIsMapped
  <2>2. CASE ~ LastPage
    BY <1>1, <1>5, <2>2, SameWalks, SameBehind
  <2> QED
    BY <2>1, <2>2
<1> QED
  BY <1>1, <1>2, <1>6, <1>7, <1>8, SameTables DEF IInv
-----------------------------------------------------------------------------
LEMMA StutterInv ==
  ASSUME IInv, UNCHANGED vars
  PROVE  IInv'
<1>1. /\ contents' = contents /\ level' = level /\ boot' = boot /\ pc' = pc
      /\ chunk' = chunk /\ done' = done /\ at' = at
  BY DEF vars
<1>2. DOMAIN contents = Tables /\ TypeOK /\ TreeShaped
  BY DEF IInv
<1>3. RestTyped
  BY <1>2 DEF TypeOK, RestTyped
<1>4. RestTyped'
  BY <1>1, <1>2, <1>3, SameTables DEF RestTyped
<1>5. TypeOK'
  BY <1>1, <1>2, <1>4, SameTables DEF TypeOK, RestTyped
<1>6. OnTheWay'
  BY <1>1 DEF IInv, OnTheWay, Reach, Below, Page
<1>7. BehindIsMapped'
  BY <1>1 DEF IInv, BehindIsMapped, Query, Reach, Below, Page
<1>8. ConsistencyHolds'
  BY <1>1 DEF IInv, ConsistencyHolds, Query, Reach, Below, Page
<1> QED
  BY <1>1, <1>2, <1>5, <1>6, <1>7, <1>8, SameTables DEF IInv

\* Whatever init_mm_map and vm_map_do_mapping map is within the address space.
LEMMA BootChunkInRange ==
  ASSUME PageTablesAssumption, TypeOK, boot < Len(BootChunks)
  PROVE  /\ InRange(BootChunks[boot + 1])
         /\ boot + 1 \in 1 .. Len(BootChunks)
<1>1. boot \in 0 .. Len(BootChunks)
  BY DEF TypeOK
<1>2. Len(BootChunks) \in Nat
  BY DEF PageTablesAssumption
<1>3. boot + 1 \in 1 .. Len(BootChunks)
  BY <1>1, <1>2
<1> QED
  BY <1>3 DEF PageTablesAssumption

LEMMA NextInv ==
  ASSUME PageTablesAssumption, IInv, [Next]_vars
  PROVE  IInv'
<1>1. CASE MapAtBoot
  <2>1. Begin(BootChunks[boot + 1]) /\ InRange(BootChunks[boot + 1])
    BY <1>1, BootChunkInRange DEF MapAtBoot, IInv
  <2>2. PICK c : c = BootChunks[boot + 1]
    OBVIOUS
  <2>3. Begin(c) /\ InRange(c)
    BY <2>1, <2>2
  <2> QED
    BY <2>3, BeginInv
<1>2. CASE MapForProcess
  <2>1. PICK c \in Chunks : Begin(c)
    BY <1>2 DEF MapForProcess
  <2> QED
    BY <2>1, BeginInv DEF PageTablesAssumption
<1>3. CASE Descend
  BY <1>3, DescendInv
<1>4. CASE AddTable
  BY <1>4, AddTableInv
<1>5. CASE NoPage
  BY <1>5, NoPageInv
<1>6. CASE SetEntry
  BY <1>6, SetEntryInv
<1>7. CASE Validate
  BY <1>7, ValidateInv
<1>8. CASE Halted \/ UNCHANGED vars
  BY <1>8, StutterInv DEF Halted
<1> QED
  BY <1>1, <1>2, <1>3, <1>4, <1>5, <1>6, <1>7, <1>8 DEF Next

THEOREM Invariance == Spec => []IInv
<1>1. Init => IInv
  BY PageTablesAssumption, InitInv
<1>2. IInv /\ [Next]_vars => IInv'
  BY PageTablesAssumption, NextInv
<1> QED
  BY <1>1, <1>2, PTL DEF Spec

\* Every variable of the page tables keeps its type.
THEOREM TypeCorrect == Spec => []TypeOK
<1>1. IInv => TypeOK
  BY DEF IInv
<1> QED
  BY <1>1, Invariance, PTL

\* The page tables stay a tree, whatever is mapped and wherever tables come from.
THEOREM TreeCorrect == Spec => []TreeShaped
<1>1. IInv => TreeShaped
  BY DEF IInv
<1> QED
  BY <1>1, Invariance, PTL

\* __validate_mapping finds every mapping that __map_by_pages has made.
THEOREM ConsistencyCorrect == Spec => []ConsistencyHolds
<1>1. IInv => ConsistencyHolds
  BY DEF IInv
<1> QED
  BY <1>1, Invariance, PTL
-----------------------------------------------------------------------------
\* The address space that the tables stand for.
Map == [v \in Virtual |-> Query(v)]
Todo == IF pc = "map" THEN [chunk |-> chunk, done |-> done] ELSE NoChunk

\* While a chunk is being mapped there is a request.
LEMMA TodoFacts ==
  ASSUME PageTablesAssumption, TypeOK, pc = "map"
  PROVE  Todo # NoChunk /\ Todo.chunk = chunk /\ Todo.done = done
<1>1. chunk \in Chunk /\ done \in Nat
  <2>1. InRange(chunk) /\ done \in 0 .. chunk.pages - 1
    BY DEF TypeOK
  <2> QED
    BY <2>1 DEF InRange
<1> QED
  BY <1>1 DEF Todo, PageTablesAssumption

LEMMA BeginRequests ==
  ASSUME PageTablesAssumption, IInv, pc = "idle",
         NEW CONSTANT c \in Chunks \cup {BootChunks[i] : i \in 1 .. Len(BootChunks)},
         Begin(c)
  PROVE  Abstract!Request
<1>1. Todo = NoChunk /\ Todo' = [chunk |-> c, done |-> 0] /\ contents' = contents
  BY DEF Begin, Todo
<1>2. Map' = Map
  BY <1>1, SameWalks DEF Map
<1> QED
  BY <1>1, <1>2 DEF Abstract!Request, Map, Todo

LEMMA SetEntryMaps ==
  ASSUME PageTablesAssumption, IInv, SetEntry
  PROVE  Abstract!MapPage
<1>1. /\ pc = "map" /\ chunk' = chunk /\ done' = NextDone
      /\ pc' = IF LastPage THEN "validate" ELSE "map"
  BY DEF SetEntry
<1>2. Todo # NoChunk /\ Todo.chunk = chunk /\ Todo.done = done
        /\ Todo = [chunk |-> chunk, done |-> done]
  BY <1>1, TodoFacts DEF IInv, Todo
<1>3. Map' = [Map EXCEPT ![Page] = Wanted]
  <2>1. DOMAIN Map' = Virtual /\ \A v \in Virtual : Map'[v] = Query(v)'
    BY DEF Map
  <2> QED
    BY <2>1, SetEntryFacts DEF Map
<1>4. done + 1 < chunk.pages <=> ~ LastPage
  <2>1. done \in 0 .. chunk.pages - 1 /\ chunk.pages \in Nat
    BY <1>1, PageInRange DEF IInv
  <2> QED
    BY <2>1 DEF LastPage
<1>5. Todo' = IF done + 1 < chunk.pages THEN [Todo EXCEPT !.done = @ + 1] ELSE NoChunk
  BY <1>1, <1>2, <1>4 DEF Todo, NextDone
<1> QED
  BY <1>2, <1>3, <1>5 DEF Abstract!MapPage, Map, Todo, Page, Wanted

LEMMA StepMap ==
  ASSUME PageTablesAssumption, IInv, [Next]_vars
  PROVE  [Abstract!Next]_<<Map, Todo>>
<1>1. CASE MapAtBoot
  <2>1. /\ Begin(BootChunks[boot + 1]) /\ pc = "idle"
        /\ boot + 1 \in 1 .. Len(BootChunks)
    BY <1>1, BootChunkInRange DEF MapAtBoot, IInv
  <2>2. PICK c \in {BootChunks[i] : i \in 1 .. Len(BootChunks)} : c = BootChunks[boot + 1]
    BY <2>1
  <2>3. Begin(c)
    BY <2>1, <2>2
  <2> QED
    BY <2>1, <2>3, BeginRequests DEF Abstract!Next
<1>2. CASE MapForProcess
  <2>1. PICK c \in Chunks : Begin(c) /\ pc = "idle"
    BY <1>2 DEF MapForProcess
  <2> QED
    BY <2>1, BeginRequests DEF Abstract!Next
<1>3. CASE SetEntry
  BY <1>3, SetEntryMaps DEF Abstract!Next
<1>4. CASE NoPage
  <2>1. Todo # NoChunk /\ Todo' = NoChunk /\ contents' = contents
    BY <1>4, TodoFacts DEF NoPage, IInv, Todo
  <2>2. Map' = Map
    BY <2>1, SameWalks DEF Map
  <2> QED
    BY <2>1, <2>2 DEF Abstract!Next, Abstract!RunOut, Map, Todo
<1>5. CASE Descend \/ AddTable \/ Validate \/ Halted \/ UNCHANGED vars
  <2>1. Map' = Map
    <3>1. CASE AddTable
      BY <3>1, AddTableInv DEF Map
    <3>2. CASE ~ AddTable
      <4>1. contents' = contents
        BY <1>5, <3>2 DEF Descend, Validate, Halted, vars
      <4> QED
        BY <4>1, SameWalks DEF Map
    <3> QED
      BY <3>1, <3>2
  <2>2. Todo' = Todo
    BY <1>5 DEF Descend, AddTable, Validate, Halted, vars, Todo
  <2> QED
    BY <2>1, <2>2
<1> QED
  BY <1>1, <1>2, <1>3, <1>4, <1>5 DEF Next

\* The page tables implement an address space: each page is mapped to the frame
\* asked for, and no page that was not asked for changes.
THEOREM AddressSpaceCorrect == Spec => ImplementsAddressSpace
<1>1. Init => Abstract!Init
  <2> SUFFICES ASSUME Init PROVE Map = [v \in Virtual |-> Empty] /\ Todo = NoChunk
    BY DEF Abstract!Init, Map, Todo
  <2> QED
    BY PageTablesAssumption, InitInv DEF Map, Todo, Init
<1>2. IInv /\ [Next]_vars => [Abstract!Next]_<<Map, Todo>>
  BY PageTablesAssumption, StepMap
<1> QED
  BY <1>1, <1>2, Invariance, PTL DEF Spec, ImplementsAddressSpace, Abstract!Spec, Map, Todo
=============================================================================
