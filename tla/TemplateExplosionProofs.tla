---------------------- MODULE TemplateExplosionProofs ----------------------
(***************************************************************************)
(* Theorems about TemplateExplosion, for every set of parts and every      *)
(* setting.                                                                *)
(*                                                                         *)
(* The walk keeps what it owes: of every part it has been to, the children *)
(* are made or still to make, once.  What it starts from is a graph whose  *)
(* parts can be ranked along the rows, so that a path has each part once   *)
(* and the tree is finite.                                                 *)
(***************************************************************************)
EXTENDS TemplateExplosion, FiniteSetTheorems, SequenceTheorems, TLAPS

-----------------------------------------------------------------------------
(* Induction over numbers                                                  *)

LEMMA NatSetInduction ==
  ASSUME NEW T, 0 \in T, \A n \in Nat : n \in T => n + 1 \in T
  PROVE  Nat \subseteq T
<1> DEFINE R == OpToRel(<, Nat)
           B == Nat \ T
<1>1. SUFFICES ASSUME B # {} PROVE FALSE
  OBVIOUS
<1>2. IsWellFoundedOn(R, Nat)
  BY NatLessThanWellFounded, Zenon
<1>3. PICK x \in B : \A y \in B : ~(<<y, x>> \in R)
  <2> HIDE DEF R
  <2> QED BY <1>1, <1>2, WFMin, Zenon
<1>4. x # 0 /\ x \in Nat
  OBVIOUS
<1>5. x - 1 \in B
  BY <1>4
<1>6. <<x - 1, x>> \in R
  BY <1>4 DEF OpToRel
<1> QED BY <1>3, <1>5, <1>6

-----------------------------------------------------------------------------
(* Rows in the order of their keys                                         *)

LEMMA InOrderIs ==
    ASSUME NEW rows, IsFiniteSet(rows), \A t \in rows : t.id \in Nat,
           \A t, u \in rows : t.id = u.id => t = u
    PROVE  /\ Cardinality(rows) \in Nat
           /\ InOrder(rows) \in [1..Cardinality(rows) -> rows]
           /\ \A i, j \in 1..Cardinality(rows) :
                InOrder(rows)[i] = InOrder(rows)[j] => i = j
           /\ \A t \in rows : \E i \in 1..Cardinality(rows) : InOrder(rows)[i] = t
<1> DEFINE n == Cardinality(rows)
           upTo(t) == {u \in rows : u.id <= t.id}
           rank == [t \in rows |-> Cardinality(upTo(t))]
<1>1. n \in Nat
  BY FS_CardinalityType
<1>2. ASSUME NEW t \in rows
      PROVE  IsFiniteSet(upTo(t)) /\ Cardinality(upTo(t)) \in 1..n
  <2>1. upTo(t) \in SUBSET rows
    OBVIOUS
  <2>2. /\ IsFiniteSet(upTo(t))
        /\ Cardinality(upTo(t)) <= n
        /\ Cardinality(upTo(t)) \in Nat
    BY <2>1, FS_Subset, FS_CardinalityType
  <2>3. upTo(t) # {}
    OBVIOUS
  <2>4. Cardinality(upTo(t)) # 0
    BY <2>2, <2>3, FS_EmptySet
  <2> HIDE DEF upTo
  <2> QED BY <1>1, <2>2, <2>4
<1>3. ASSUME NEW t \in rows, NEW u \in rows, t.id < u.id
      PROVE  Cardinality(upTo(t)) < Cardinality(upTo(u))
  <2>1. upTo(t) \in SUBSET upTo(u)
    BY <1>3
  <2>2. u \in upTo(u) /\ u \notin upTo(t)
    BY <1>3
  <2>3. IsFiniteSet(upTo(u)) /\ Cardinality(upTo(u)) \in Nat
        /\ Cardinality(upTo(t)) \in Nat
    BY <1>1, <1>2
  <2> HIDE DEF upTo, n
  <2>4. Cardinality(upTo(t)) <= Cardinality(upTo(u))
        /\ Cardinality(upTo(t)) # Cardinality(upTo(u))
    BY <2>1, <2>2, <2>3, FS_Subset
  <2> QED BY <2>3, <2>4
<1>4. /\ rank \in [rows -> 1..n]
      /\ \A t, u \in rows : t.id < u.id => rank[t] < rank[u]
  BY <1>2, <1>3
<1> HIDE DEF rank, upTo
<1>5. \A t, u \in rows : rank[t] = rank[u] => t = u
  <2>1. \A t, u \in rows : t.id < u.id \/ u.id < t.id \/ t = u
    OBVIOUS
  <2> QED BY <1>1, <1>4, <2>1
<1>6. rank \in Surjection(rows, 1..n)
  <2>1. rank \in Injection(rows, 1..n)
    BY <1>4, <1>5 DEF Injection, IsInjective
  <2>2. IsFiniteSet(1..n) /\ Cardinality(1..n) = n
    BY <1>1, FS_Interval
  <2> QED BY <2>1, <2>2, FS_Injection
<1>7. \A i \in 1..n : \E t \in rows : rank[t] = i
  BY <1>6, Zenon DEF Surjection
<1> DEFINE s == [i \in 1..n |-> CHOOSE t \in rows : rank[t] = i]
<1>8. s \in [1..n -> rows] /\ \A i \in 1..n : rank[s[i]] = i
  BY <1>7
<1> HIDE DEF s
<1>9. \A i, j \in 1..n : i < j => s[i].id < s[j].id
  <2> SUFFICES ASSUME NEW i \in 1..n, NEW j \in 1..n, i < j, ~(s[i].id < s[j].id)
               PROVE  FALSE
    OBVIOUS
  <2>1. s[i] \in rows /\ s[j] \in rows /\ rank[s[i]] = i /\ rank[s[j]] = j
    BY <1>8
  <2>2. s[j].id < s[i].id \/ s[j] = s[i]
    BY <2>1
  <2>3. CASE s[j].id < s[i].id
    BY <1>4, <2>1, <2>3
  <2> QED BY <2>1, <2>2, <2>3
<1> DEFINE Sorted == {x \in [1..n -> rows] : \A i, j \in DOMAIN x : i < j => x[i].id < x[j].id}
<1>10. s \in Sorted
  BY <1>8, <1>9
<1>11. InOrder(rows) \in Sorted
  BY <1>10 DEF InOrder
<1> DEFINE o == InOrder(rows)
<1>12. o \in [1..n -> rows] /\ \A i, j \in 1..n : i < j => o[i].id < o[j].id
  BY <1>11
<1> HIDE DEF o, n
<1>13. \A i, j \in 1..n : o[i] = o[j] => i = j
  <2> SUFFICES ASSUME NEW i \in 1..n, NEW j \in 1..n, o[i] = o[j], i # j PROVE FALSE
    OBVIOUS
  <2>1. i < j \/ j < i
    BY <1>1
  <2>2. o[i].id \in Nat /\ o[j].id \in Nat
    BY <1>12
  <2> QED BY <1>12, <2>1, <2>2
<1>14. o \in Surjection(1..n, rows)
  <2>1. o \in Injection(1..n, rows)
    BY <1>12, <1>13 DEF Injection, IsInjective
  <2>2. Cardinality(1..n) = n
    BY <1>1, FS_Interval
  <2>3. IsFiniteSet(rows) /\ Cardinality(rows) = n
    BY DEF n
  <2> QED BY <2>1, <2>2, <2>3, FS_Injection
<1>15. \A t \in rows : \E i \in 1..n : o[i] = t
  BY <1>14, Zenon DEF Surjection
<1> QED BY <1>1, <1>12, <1>13, <1>15 DEF o, n

-----------------------------------------------------------------------------
(* Nodes and the rows that lead on from them                               *)

Chains == {n \in Node : n.path # <<>>}

RootNode(root) == [path |-> <<root>>, leaf |-> FALSE]

(* The node that a row makes of a node, and when it does.                  *)
Under(m, t) == [path |-> Append(m.path, t.child), leaf |-> t.suppress]

Leads(m, t) == ~m.leaf /\ Part(m) = t.parent

LEMMA ChainFacts ==
    ASSUME NEW m \in Chains
    PROVE  /\ m.path \in Seq(Parts) /\ m.leaf \in BOOLEAN
           /\ Len(m.path) \in Nat \ {0}
           /\ DOMAIN m.path = 1..Len(m.path)
           /\ \A i \in 1..Len(m.path) : m.path[i] \in Parts
           /\ Part(m) = m.path[Len(m.path)]
           /\ Part(m) \in Parts
           /\ Depth(m) \in Nat /\ Depth(m) = Len(m.path) - 1
<1>1. m.path \in Seq(Parts) /\ m.leaf \in BOOLEAN /\ m.path # <<>>
  BY DEF Chains, Node
<1>2. Len(m.path) \in Nat \ {0}
  BY <1>1, EmptySeq
<1>3. \A i \in 1..Len(m.path) : m.path[i] \in Parts
  BY <1>1, ElementOfSeq
<1>4. DOMAIN m.path = 1..Len(m.path)
  BY <1>1, LenProperties
<1> QED BY <1>1, <1>2, <1>3, <1>4 DEF Part, Depth, Last

LEMMA RootFacts ==
    ASSUME NEW root \in Parts
    PROVE  /\ RootNode(root) \in Chains
           /\ RootNode(root).path[1] = root
           /\ Len(RootNode(root).path) = 1
           /\ Part(RootNode(root)) = root
           /\ Depth(RootNode(root)) = 0
           /\ ~RootNode(root).leaf
  BY DEF RootNode, Chains, Node, Part, Depth, Last

LEMMA UnderFacts ==
    ASSUME NEW m \in Chains, NEW t \in Row
    PROVE  /\ Under(m, t) \in Chains
           /\ Len(Under(m, t).path) = Len(m.path) + 1
           /\ \A i \in 1..Len(m.path) : Under(m, t).path[i] = m.path[i]
           /\ Under(m, t).path[Len(m.path) + 1] = t.child
           /\ Part(Under(m, t)) = t.child
           /\ Under(m, t).leaf = t.suppress
<1>1. m.path \in Seq(Parts) /\ t.child \in Parts /\ t.suppress \in BOOLEAN
  BY ChainFacts DEF Row
<1>2. /\ Append(m.path, t.child) \in Seq(Parts)
      /\ Append(m.path, t.child) # <<>>
      /\ Len(Append(m.path, t.child)) = Len(m.path) + 1
      /\ \A i \in 1..Len(m.path) : Append(m.path, t.child)[i] = m.path[i]
      /\ Append(m.path, t.child)[Len(m.path) + 1] = t.child
  BY <1>1, AppendProperties
<1> QED BY <1>1, <1>2 DEF Under, Chains, Node, Part, Last

(* A node is reached by one row from one node.                             *)
LEMMA OneWayThere ==
    ASSUME NEW m \in Chains, NEW n \in Chains, NEW t \in Row, NEW u \in Row,
           Leads(m, t), Leads(n, u), Under(m, t) = Under(n, u)
    PROVE  /\ m = n
           /\ t.parent = u.parent
           /\ t.child = u.child
<1>1. Append(m.path, t.child) = Append(n.path, u.child)
  BY DEF Under
<1>2. /\ m.path \in Seq(Parts) /\ n.path \in Seq(Parts)
      /\ t.child \in Parts /\ u.child \in Parts
  BY ChainFacts DEF Row
<1>3. m.path = n.path /\ t.child = u.child
  BY <1>1, <1>2
<1>4. m.leaf = FALSE /\ n.leaf = FALSE
  BY ChainFacts DEF Leads
<1>5. m = [path |-> m.path, leaf |-> m.leaf] /\ n = [path |-> n.path, leaf |-> n.leaf]
  BY DEF Chains, Node
<1>6. m = n
  BY <1>3, <1>4, <1>5
<1> QED BY <1>3, <1>6 DEF Leads

LEMMA RootIsNotUnder ==
    ASSUME NEW m \in Chains, NEW t \in Row, NEW root \in Parts
    PROVE  Under(m, t) # RootNode(root)
<1>1. Len(Under(m, t).path) = Len(m.path) + 1 /\ Len(m.path) \in Nat \ {0}
  BY UnderFacts, ChainFacts
<1>2. Len(RootNode(root).path) = 1
  BY RootFacts
<1>3. Len(Under(m, t).path) # 1
  BY <1>1
<1> QED BY <1>2, <1>3, Zenon

-----------------------------------------------------------------------------
(* The tree of a template                                                  *)

Ranked(rows) ==
    \E bound \in Nat : \E rank \in [Parts -> 0..bound] :
        \A t \in rows : rank[t.parent] < rank[t.child]

Longer(N, rows) ==
    N \cup {Under(x[1], x[2]) : x \in {y \in N \X rows : Leads(y[1], y[2])}}

LEMMA LongerIs ==
    ASSUME NEW rows \in SUBSET Row, NEW N \in SUBSET Chains
    PROVE  /\ Longer(N, rows) \in SUBSET Chains
           /\ N \subseteq Longer(N, rows)
           /\ \A m \in N, t \in rows : Leads(m, t) => Under(m, t) \in Longer(N, rows)
           /\ \A n \in Longer(N, rows) :
                n \in N \/ \E m \in N, t \in rows : Leads(m, t) /\ n = Under(m, t)
<1>1. ASSUME NEW m \in N, NEW t \in rows, Leads(m, t)
      PROVE  Under(m, t) \in Longer(N, rows)
  <2>1. <<m, t>> \in {y \in N \X rows : Leads(y[1], y[2])}
    BY <1>1
  <2>2. Under(m, t) = Under(<<m, t>>[1], <<m, t>>[2])
    OBVIOUS
  <2> QED BY <2>1, <2>2 DEF Longer
<1>2. ASSUME NEW n \in Longer(N, rows)
      PROVE  n \in N \/ \E m \in N, t \in rows : Leads(m, t) /\ n = Under(m, t)
  BY DEF Longer
<1>3. ASSUME NEW n \in Longer(N, rows) PROVE n \in Chains
  BY <1>2, UnderFacts
<1> QED BY <1>1, <1>2, <1>3 DEF Longer

LEMMA LongerIsFinite ==
    ASSUME NEW rows \in SUBSET Row, NEW N \in SUBSET Chains,
           IsFiniteSet(rows), IsFiniteSet(N)
    PROVE  IsFiniteSet(Longer(N, rows))
<1> DEFINE D == {y \in N \X rows : Leads(y[1], y[2])}
           new == {Under(x[1], x[2]) : x \in D}
           f == [x \in D |-> Under(x[1], x[2])]
<1>1. IsFiniteSet(N \X rows)
  BY FS_Product
<1>2. IsFiniteSet(D)
  BY <1>1, FS_Subset
<1>3. f \in Surjection(D, new)
  <2>1. f \in [D -> new]
    OBVIOUS
  <2>2. \A n \in new : \E x \in D : f[x] = n
    OBVIOUS
  <2> QED BY <2>1, <2>2, Zenon DEF Surjection
<1>4. IsFiniteSet(new)
  <2> HIDE DEF f, new, D
  <2> QED BY <1>2, <1>3, FS_Surjection
<1>5. IsFiniteSet(N \cup new)
  BY <1>4, FS_Union
<1> QED BY <1>5 DEF Longer

(* A set of nodes, made longer a number of times.                          *)
LEMMA Lengthening ==
    ASSUME NEW rows \in SUBSET Row, NEW base \in SUBSET Chains, NEW k \in Nat
    PROVE  \E f \in [0..k -> SUBSET Chains] :
              /\ f[0] = base
              /\ \A n \in 1..k : f[n] = Longer(f[n - 1], rows)
<1> DEFINE Starts(n) == {g \in [0..n -> SUBSET Chains] :
                /\ g[0] = base
                /\ \A m \in Nat : m + 1 \in 0..n => g[m + 1] = Longer(g[m], rows)}
           T == {n \in Nat : Starts(n) # {}}
<1>1. Nat \subseteq T
  <2>1. [m \in 0..0 |-> base] \in Starts(0)
    OBVIOUS
  <2>2. ASSUME NEW n \in Nat, n \in T PROVE n + 1 \in T
    <3>1. PICK g \in Starts(n) : TRUE
      BY <2>2
    <3>2. g[n] \in SUBSET Chains
      BY <3>1
    <3>3. Longer(g[n], rows) \in SUBSET Chains
      BY <3>2, LongerIs
    <3>4. [m \in 0..(n + 1) |-> IF m = n + 1 THEN Longer(g[n], rows) ELSE g[m]] \in Starts(n + 1)
      BY <3>1, <3>3
    <3> HIDE DEF Starts
    <3> QED BY <3>4
  <2>3. 0 \in T
    BY <2>1
  <2> HIDE DEF T
  <2> QED BY <2>2, <2>3, NatSetInduction, Zenon
<1>2. PICK f \in Starts(k) : TRUE
  BY <1>1
<1>3. ASSUME NEW n \in 1..k PROVE f[n] = Longer(f[n - 1], rows)
  <2>1. n - 1 \in Nat /\ (n - 1) + 1 = n
    OBVIOUS
  <2> QED BY <2>1, <1>2
<1> QED BY <1>2, <1>3

(* The sets that Tree is the last of.                                      *)
LEMMA TreeGrows ==
    ASSUME NEW rows \in SUBSET Row, NEW root \in Parts, Cardinality(Parts) \in Nat
    PROVE  \E g \in [0..Cardinality(Parts) -> SUBSET Chains] :
              /\ g[0] = {RootNode(root)}
              /\ \A k \in 1..Cardinality(Parts) : g[k] = Longer(g[k - 1], rows)
              /\ Tree(rows, root) = g[Cardinality(Parts)]
<1> DEFINE c == Cardinality(Parts)
           base == {RootNode(root)}
<1>1. base \in SUBSET Chains
  BY RootFacts
<1>3. PICK f \in [0..c -> SUBSET Chains] :
          f[0] = base /\ \A n \in 1..c : f[n] = Longer(f[n - 1], rows)
  <2> HIDE DEF base
  <2> QED BY <1>1, Lengthening
<1> DEFINE Is(g) == g = [k \in 0..c |-> IF k = 0 THEN {[path |-> <<root>>, leaf |-> FALSE]}
                ELSE g[k - 1] \cup
                       {[path |-> Append(n[1].path, n[2].child), leaf |-> n[2].suppress] :
                        n \in {x \in g[k - 1] \X rows :
                                 ~x[1].leaf /\ Part(x[1]) = x[2].parent}}]
           grow == CHOOSE g : Is(g)
<1>4. Is(f)
  <2>0. f[0] = {RootNode(root)}
    BY <1>3
  <2>1. \A k \in 0..c : k # 0 => k \in 1..c
    OBVIOUS
  <2>3. f = [k \in 0..c |-> f[k]]
    BY <1>3
  <2>4. ASSUME NEW k \in 0..c
        PROVE  f[k] = IF k = 0 THEN {RootNode(root)} ELSE Longer(f[k - 1], rows)
    BY <2>0, <2>1, <1>3
  <2>5. f = [k \in 0..c |-> IF k = 0 THEN {RootNode(root)} ELSE Longer(f[k - 1], rows)]
    BY <2>3, <2>4
  <2> QED BY <2>5 DEF Longer, Under, Leads, RootNode
<1>5. Is(grow)
  <2> HIDE DEF Is
  <2> QED BY <1>4
<1>6. Tree(rows, root) = grow[c]
  BY DEF Tree
<1> HIDE DEF grow
<1>7. /\ grow[0] = {RootNode(root)}
      /\ \A k \in 1..c : grow[k] = Longer(grow[k - 1], rows)
      /\ DOMAIN grow = 0..c
  <2>1. ASSUME NEW k \in 0..c
        PROVE  grow[k] = IF k = 0 THEN {RootNode(root)} ELSE Longer(grow[k - 1], rows)
    BY <1>5 DEF Longer, Under, Leads, RootNode
  <2>2. DOMAIN grow = 0..c
    BY <1>5
  <2>3. 0 \in 0..c /\ \A k \in 1..c : k \in 0..c /\ k # 0
    OBVIOUS
  <2> HIDE DEF Is
  <2> QED BY <2>1, <2>2, <2>3
<1> HIDE DEF Is
<1>8. \A k \in 0..c : grow[k] \in SUBSET Chains
  <2> DEFINE Good == {k \in Nat : k \in 0..c => grow[k] \in SUBSET Chains}
  <2>1. 0 \in Good
    BY <1>1, <1>7
  <2>2. ASSUME NEW k \in Nat, k \in Good PROVE k + 1 \in Good
    <3> SUFFICES ASSUME k + 1 \in 0..c PROVE grow[k + 1] \in SUBSET Chains
      OBVIOUS
    <3>1. k \in 0..c /\ k + 1 \in 1..c /\ (k + 1) - 1 = k
      OBVIOUS
    <3>2. grow[k] \in SUBSET Chains
      BY <2>2, <3>1
    <3>3. grow[k + 1] = Longer(grow[k], rows)
      BY <1>7, <3>1
    <3>4. \A N \in SUBSET Chains : Longer(N, rows) \in SUBSET Chains
      BY LongerIs
    <3> QED BY <3>2, <3>3, <3>4
  <2> HIDE DEF Good
  <2>3. Nat \subseteq Good
    BY <2>1, <2>2, NatSetInduction, Zenon
  <2> QED BY <2>3 DEF Good
<1>9. grow = [k \in 0..c |-> grow[k]]
  BY <1>5 DEF Is
<1>10. grow \in [0..c -> SUBSET Chains]
  BY <1>8, <1>9
<1> QED BY <1>6, <1>7, <1>10
(* Along the path of a node the ranks of the parts rise.                   *)
Rising(m, rank) ==
    \A i, j \in 1..Len(m.path) : i < j => rank[m.path[i]] < rank[m.path[j]]

LEMMA UnderRises ==
    ASSUME NEW rows \in SUBSET Row, NEW m \in Chains, NEW t \in rows,
           NEW bound \in Nat, NEW rank \in [Parts -> 0..bound],
           rank[t.parent] < rank[t.child], Leads(m, t), Rising(m, rank)
    PROVE  Rising(Under(m, t), rank)
<1> DEFINE n == Under(m, t)
           l == Len(m.path)
<1>1. /\ Len(n.path) = l + 1
      /\ \A i \in 1..l : n.path[i] = m.path[i]
      /\ n.path[l + 1] = t.child
      /\ l \in Nat \ {0}
      /\ \A i \in 1..l : m.path[i] \in Parts
      /\ m.path[l] = t.parent
  BY UnderFacts, ChainFacts DEF Leads
<1>2. \A p \in Parts : rank[p] \in Nat
  OBVIOUS
<1>3. t.child \in Parts
  BY DEF Row
<1>4. \A i, j \in 1..l : i < j => rank[m.path[i]] < rank[m.path[j]]
  BY DEF Rising
<1> HIDE DEF n, l
<1>5. ASSUME NEW i \in 1..(l + 1), NEW j \in 1..(l + 1), i < j
      PROVE  rank[n.path[i]] < rank[n.path[j]]
  <2>1. CASE j \in 1..l
    <3>1. i \in 1..l
      BY <1>1, <1>5, <2>1
    <3> QED BY <1>1, <1>4, <1>5, <2>1, <3>1
  <2>2. CASE j = l + 1
    <3>1. i \in 1..l /\ l \in 1..l /\ (i < l \/ i = l)
      BY <1>1, <1>5, <2>2
    <3>2. n.path[i] = m.path[i] /\ n.path[j] = t.child
      BY <1>1, <2>2, <3>1
    <3>3. rank[m.path[i]] <= rank[t.parent]
      <4>1. CASE i = l
        BY <1>1, <1>2, <3>1, <4>1
      <4>2. CASE i < l
        <5>1. rank[m.path[i]] < rank[m.path[l]]
          BY <1>4, <3>1, <4>2
        <5> QED BY <1>1, <1>2, <3>1, <5>1
      <4> QED BY <3>1, <4>1, <4>2
    <3>4. /\ rank[m.path[i]] \in Nat /\ rank[t.parent] \in Nat
          /\ rank[t.child] \in Nat
      BY <1>1, <1>2, <1>3, <3>1
    <3> QED BY <3>2, <3>3, <3>4
  <2> QED BY <1>1, <2>1, <2>2
<1>6. \A i, j \in 1..Len(n.path) : i < j => rank[n.path[i]] < rank[n.path[j]]
  BY <1>1, <1>5
<1> QED BY <1>6 DEF Rising, n

(* A path along which something rises has no part twice.                   *)
LEMMA RisingIsShort ==
    ASSUME NEW m \in Chains, NEW bound \in Nat, NEW rank \in [Parts -> 0..bound],
           Rising(m, rank), IsFiniteSet(Parts)
    PROVE  Len(m.path) <= Cardinality(Parts)
<1> DEFINE l == Len(m.path)
<1>1. l \in Nat /\ m.path \in [1..l -> Parts]
  BY ChainFacts, LenProperties
<1>2. ASSUME NEW i \in 1..l, NEW j \in 1..l, i < j PROVE m.path[i] # m.path[j]
  <2>1. rank[m.path[i]] < rank[m.path[j]] /\ rank[m.path[i]] \in Nat
    BY <1>1, <1>2 DEF Rising
  <2> QED BY <2>1
<1>3. \A i, j \in 1..l : i < j \/ j < i \/ i = j
  OBVIOUS
<1>4. \A i, j \in 1..l : m.path[i] = m.path[j] => i = j
  BY <1>2, <1>3
<1>5. m.path \in Injection(1..l, Parts)
  BY <1>1, <1>4 DEF Injection, IsInjective
<1>6. Cardinality(1..l) <= Cardinality(Parts)
  BY <1>5, FS_Injection
<1>7. Cardinality(1..l) = l
  BY <1>1, FS_Interval
<1> QED BY <1>6, <1>7

(* What the tree is: the least set that has the root and, of every node    *)
(* that is no leaf, the nodes its rows make; and it is finite.             *)
LEMMA TreeIs ==
    ASSUME NEW rows \in SUBSET Row, NEW root \in Parts,
           IsFiniteSet(rows), Ranked(rows), IsFiniteSet(Parts)
    PROVE  /\ Tree(rows, root) \in SUBSET Chains
           /\ IsFiniteSet(Tree(rows, root))
           /\ RootNode(root) \in Tree(rows, root)
           /\ \A m \in Tree(rows, root), t \in rows :
                 Leads(m, t) => Under(m, t) \in Tree(rows, root)
           /\ \A S \in SUBSET Chains :
                 /\ RootNode(root) \in S
                 /\ \A m \in S, t \in rows : Leads(m, t) => Under(m, t) \in S
                 => Tree(rows, root) \subseteq S
<1> DEFINE c == Cardinality(Parts)
<1>1. c \in Nat
  BY FS_CardinalityType
<1>2. PICK g \in [0..c -> SUBSET Chains] :
          /\ g[0] = {RootNode(root)}
          /\ \A k \in 1..c : g[k] = Longer(g[k - 1], rows)
          /\ Tree(rows, root) = g[c]
  BY <1>1, TreeGrows
<1>3. PICK bound \in Nat : \E rank \in [Parts -> 0..bound] :
          \A t \in rows : rank[t.parent] < rank[t.child]
  BY DEF Ranked
<1>4. PICK rank \in [Parts -> 0..bound] :
          \A t \in rows : rank[t.parent] < rank[t.child]
  BY <1>3
<1> HIDE DEF c
<1>5. ASSUME NEW k \in Nat, k + 1 \in 0..c
      PROVE  /\ k \in 0..c
             /\ g[k] \in SUBSET Chains
             /\ g[k + 1] = Longer(g[k], rows)
             /\ g[k] \subseteq g[k + 1]
             /\ \A m \in g[k], t \in rows : Leads(m, t) => Under(m, t) \in g[k + 1]
             /\ \A n \in g[k + 1] :
                  n \in g[k] \/ \E m \in g[k], t \in rows : Leads(m, t) /\ n = Under(m, t)
  <2>1. k \in 0..c /\ k + 1 \in 1..c /\ (k + 1) - 1 = k
    BY <1>1, <1>5
  <2>2. g[k] \in SUBSET Chains /\ g[k + 1] = Longer(g[k], rows)
    BY <1>2, <2>1
  <2>3. \A N \in SUBSET Chains :
          /\ N \subseteq Longer(N, rows)
          /\ \A m \in N, t \in rows : Leads(m, t) => Under(m, t) \in Longer(N, rows)
          /\ \A n \in Longer(N, rows) :
               n \in N \/ \E m \in N, t \in rows : Leads(m, t) /\ n = Under(m, t)
    BY LongerIs
  <2> QED BY <2>1, <2>2, <2>3
<1> DEFINE Fine(k) ==
             /\ IsFiniteSet(g[k])
             /\ \A i \in 0..k : g[i] \subseteq g[k]
             /\ \A m \in g[k] : /\ Len(m.path) \in 1..(k + 1)
                                /\ m \in g[Len(m.path) - 1]
                                /\ Rising(m, rank)
           Good == {k \in Nat : k \in 0..c => Fine(k)}
<1>6. 0 \in Good
  <2>1. Len(RootNode(root).path) = 1
    BY RootFacts
  <2>2. Rising(RootNode(root), rank)
    BY <2>1 DEF Rising
  <2>3. IsFiniteSet(g[0])
    <3>1. \A x : IsFiniteSet({x})
      BY FS_Singleton, Zenon
    <3>2. g[0] = {RootNode(root)}
      BY <1>2
    <3> QED BY <3>1, <3>2, Zenon
  <2>4. \A m \in g[0] : m = RootNode(root)
    BY <1>2
  <2>5. RootNode(root) \in g[0]
    BY <1>2
  <2>6. \A m \in g[0] : Len(m.path) \in 1..(0 + 1) /\ m \in g[Len(m.path) - 1] /\ Rising(m, rank)
    <3> SUFFICES ASSUME NEW m \in g[0]
                 PROVE  /\ Len(m.path) \in 1..(0 + 1)
                        /\ m \in g[Len(m.path) - 1]
                        /\ Rising(m, rank)
      OBVIOUS
    <3>1. Len(m.path) = 1 /\ Rising(m, rank)
      BY <2>1, <2>2, <2>4
    <3>2. Len(m.path) - 1 = 0 /\ Len(m.path) \in 1..(0 + 1)
      BY <3>1
    <3> QED BY <3>1, <3>2
  <2>7. \A i \in 0..0 : g[i] \subseteq g[0]
    OBVIOUS
  <2> QED BY <2>3, <2>6, <2>7
<1>7. ASSUME NEW k \in Nat, k \in Good PROVE k + 1 \in Good
  <2> SUFFICES ASSUME k + 1 \in 0..c PROVE Fine(k + 1)
    OBVIOUS
  <2>1. k \in 0..c /\ g[k] \in SUBSET Chains /\ g[k + 1] = Longer(g[k], rows)
    BY <1>5, Zenon
  <2>2. Fine(k)
    BY <1>7, <2>1
  <2>3. IsFiniteSet(g[k + 1])
    BY <2>1, <2>2, LongerIsFinite
  <2>4. g[k] \subseteq g[k + 1]
    BY <1>5, Zenon
  <2>5. ASSUME NEW i \in 0..(k + 1) PROVE g[i] \subseteq g[k + 1]
    <3>1. i \in 0..k \/ i = k + 1
      OBVIOUS
    <3> QED BY <2>2, <2>4, <3>1
  <2>6. ASSUME NEW n \in g[k + 1]
        PROVE  /\ Len(n.path) \in 1..(k + 2)
               /\ n \in g[Len(n.path) - 1]
               /\ Rising(n, rank)
    <3>1. CASE n \in g[k]
      BY <2>2, <3>1
    <3>2. CASE \E m \in g[k], t \in rows : Leads(m, t) /\ n = Under(m, t)
      <4>1. PICK m \in g[k], t \in rows : Leads(m, t) /\ n = Under(m, t)
        BY <3>2
      <4> DEFINE l == Len(m.path)
      <4>2. l \in 1..(k + 1) /\ m \in g[l - 1] /\ Rising(m, rank)
        BY <2>2
      <4>3. m \in Chains /\ t \in Row
        BY <2>1
      <4>4. Len(n.path) = l + 1
        BY <4>1, <4>3, UnderFacts
      <4>5. Rising(n, rank)
        BY <1>4, <4>1, <4>2, <4>3, UnderRises
      <4> HIDE DEF l
      <4>6. l - 1 \in Nat /\ (l - 1) + 1 = l /\ l \in 0..c
        BY <1>1, <4>2
      <4>7. \A x \in g[l - 1], u \in rows : Leads(x, u) => Under(x, u) \in g[l]
        <5> DEFINE j == l - 1
        <5>1. j \in Nat /\ j + 1 \in 0..c /\ j + 1 = l
          BY <4>6
        <5> HIDE DEF j
        <5>2. \A x \in g[j], u \in rows : Leads(x, u) => Under(x, u) \in g[j + 1]
          BY <1>5, <5>1
        <5> QED BY <5>1, <5>2 DEF j
      <4>8. n \in g[l]
        BY <4>1, <4>2, <4>7
      <4> QED BY <4>2, <4>4, <4>5, <4>8
    <3>3. n \in g[k] \/ \E m \in g[k], t \in rows : Leads(m, t) /\ n = Under(m, t)
      BY <1>5, Zenon
    <3> QED BY <3>1, <3>2, <3>3, Zenon
  <2>7. (k + 1) + 1 = k + 2
    OBVIOUS
  <2> QED BY <2>3, <2>5, <2>6, <2>7
<1> HIDE DEF Good
<1>8. Nat \subseteq Good
  BY <1>6, <1>7, NatSetInduction, Zenon
<1>9. Fine(c)
  BY <1>1, <1>8 DEF Good
<1>10. RootNode(root) \in g[c]
  BY <1>1, <1>2, <1>9
<1>11. ASSUME NEW m \in g[c], NEW t \in rows, Leads(m, t)
       PROVE  Under(m, t) \in g[c]
  <2> DEFINE l == Len(m.path)
  <2>1. m \in Chains /\ t \in Row
    BY <1>1, <1>2
  <2>2. l \in 1..(c + 1) /\ m \in g[l - 1] /\ Rising(m, rank)
    BY <1>9
  <2>3. Rising(Under(m, t), rank)
    BY <1>4, <1>11, <2>1, <2>2, UnderRises
  <2>4. Len(Under(m, t).path) = l + 1 /\ Under(m, t) \in Chains
    BY <2>1, UnderFacts
  <2>5. l + 1 <= c
    BY <2>3, <2>4, RisingIsShort DEF c
  <2> HIDE DEF l
  <2>6. l \in 1..c /\ l - 1 \in 0..c /\ l \in 0..c
    BY <1>1, <2>2, <2>5
  <2>7. \A x \in g[l - 1], u \in rows : Leads(x, u) => Under(x, u) \in g[l]
    <3> DEFINE j == l - 1
    <3>1. j \in Nat /\ j + 1 \in 0..c /\ j + 1 = l
      BY <2>6
    <3> HIDE DEF j
    <3>2. \A x \in g[j], u \in rows : Leads(x, u) => Under(x, u) \in g[j + 1]
      BY <1>5, <3>1
    <3> QED BY <3>1, <3>2 DEF j
  <2>8. Under(m, t) \in g[l]
    BY <1>11, <2>2, <2>7
  <2> QED BY <1>9, <2>6, <2>8
<1>12. ASSUME NEW S \in SUBSET Chains, RootNode(root) \in S,
              \A m \in S, t \in rows : Leads(m, t) => Under(m, t) \in S
       PROVE  g[c] \subseteq S
  <2> DEFINE Inside == {k \in Nat : k \in 0..c => g[k] \subseteq S}
  <2>1. 0 \in Inside
    BY <1>2, <1>12
  <2>2. ASSUME NEW k \in Nat, k \in Inside PROVE k + 1 \in Inside
    <3> SUFFICES ASSUME k + 1 \in 0..c, NEW n \in g[k + 1] PROVE n \in S
      OBVIOUS
    <3>1. k \in 0..c /\ g[k] \in SUBSET Chains /\ g[k + 1] = Longer(g[k], rows)
      BY <1>5
    <3>2. g[k] \subseteq S
      BY <2>2, <3>1
    <3>3. n \in g[k] \/ \E m \in g[k], t \in rows : Leads(m, t) /\ n = Under(m, t)
      BY <1>5, Zenon
    <3> QED BY <1>12, <3>2, <3>3
  <2> HIDE DEF Inside
  <2>3. Nat \subseteq Inside
    BY <2>1, <2>2, NatSetInduction, Zenon
  <2> QED BY <1>1, <2>3 DEF Inside
<1>13. g[c] \in SUBSET Chains
  BY <1>1, <1>2
<1> QED BY <1>2, <1>9, <1>10, <1>11, <1>12, <1>13
-----------------------------------------------------------------------------
(* What every commit keeps of the graph                                    *)

GraphInv ==
    /\ template \in SUBSET Row
    /\ IsFiniteSet(template)
    /\ lastId \in Nat
    /\ \A t \in template : t.id <= lastId
    /\ \A t, u \in template : t.id = u.id => t = u
    /\ \A t, u \in template : t.parent = u.parent /\ t.child = u.child => t = u
    /\ Ranked(template)

LEMMA AddRowKeepsTheGraph ==
    ASSUME GraphInv, NEW p \in Parts, NEW c \in Parts, NEW flag \in BOOLEAN,
           AddRow(p, c, flag)
    PROVE  GraphInv'
<1> DEFINE new == [id |-> lastId + 1, parent |-> p, child |-> c, suppress |-> flag]
<1>1. /\ template \in SUBSET Row /\ IsFiniteSet(template) /\ lastId \in Nat
      /\ \A t \in template : t.id <= lastId
      /\ template' = template \cup {new}
      /\ lastId' = lastId + 1
      /\ lastId < MaxRows
  BY DEF GraphInv, AddRow
<1>2. new \in Row
  BY <1>1, MaxRowsAssumption DEF Row
<1>3. \A t \in template : t.id \in Nat /\ t.parent \in Parts /\ t.child \in Parts
  BY <1>1, MaxRowsAssumption DEF Row
<1>4. /\ new.id = lastId + 1 /\ new.parent = p /\ new.child = c
  OBVIOUS
<1> HIDE DEF new
<1>5. template' \in SUBSET Row /\ IsFiniteSet(template') /\ lastId' \in Nat
  BY <1>1, <1>2, FS_AddElement
<1>6. \A t \in template' : t.id <= lastId'
  BY <1>1, <1>3, <1>4
<1>7. \A t, u \in template' : t.id = u.id => t = u
  <2>1. \A t \in template : t.id # new.id
    BY <1>1, <1>3, <1>4
  <2>2. \A t, u \in template : t.id = u.id => t = u
    BY DEF GraphInv
  <2> QED BY <1>1, <2>1, <2>2
<1>8. \A t, u \in template' : t.parent = u.parent /\ t.child = u.child => t = u
  <2>1. \A t \in template : ~(t.parent = p /\ t.child = c)
    BY DEF AddRow, Edges
  <2>2. \A t, u \in template : t.parent = u.parent /\ t.child = u.child => t = u
    BY DEF GraphInv
  <2> QED BY <1>1, <1>4, <2>1, <2>2
<1>9. Ranked(template')
  <2>1. PICK bound \in Nat : \E rank \in [Parts -> 0..bound] :
            \A t \in template : rank[t.parent] < rank[t.child]
    BY DEF GraphInv, Ranked
  <2>2. PICK rank \in [Parts -> 0..bound] :
            \A t \in template : rank[t.parent] < rank[t.child]
    BY <2>1
  <2>3. PICK S \in SUBSET Parts : c \in S /\ Closed(S, Edges(template)) /\ p \notin S
    BY DEF AddRow, Reaches
  <2>4. \A t \in template : t.parent \in S => t.child \in S
    <3> SUFFICES ASSUME NEW t \in template, t.parent \in S PROVE t.child \in S
      OBVIOUS
    <3>1. <<t.parent, t.child>> \in Edges(template)
      BY DEF Edges
    <3>2. <<t.parent, t.child>>[1] = t.parent /\ <<t.parent, t.child>>[2] = t.child
      OBVIOUS
    <3> QED BY <2>3, <3>1, <3>2 DEF Closed
  <2> DEFINE more == [x \in Parts |-> IF x \in S THEN rank[x] + bound + 1 ELSE rank[x]]
             top == bound + bound + 1
  <2>5. top \in Nat /\ more \in [Parts -> 0..top]
    OBVIOUS
  <2>6. ASSUME NEW t \in template PROVE more[t.parent] < more[t.child]
    <3>1. rank[t.parent] \in 0..bound /\ rank[t.child] \in 0..bound
          /\ rank[t.parent] < rank[t.child]
      BY <1>3, <2>2
    <3> QED BY <1>3, <2>4, <3>1
  <2>7. more[p] < more[c]
    <3>1. rank[p] \in 0..bound /\ rank[c] \in 0..bound
      OBVIOUS
    <3> QED BY <2>3, <3>1
  <2>8. \A t \in template' : more[t.parent] < more[t.child]
    BY <1>1, <1>4, <2>6, <2>7
  <2> HIDE DEF more, top
  <2> QED BY <2>5, <2>8 DEF Ranked
<1> QED BY <1>5, <1>6, <1>7, <1>8, <1>9 DEF GraphInv

LEMMA SetSuppressKeepsTheGraph ==
    ASSUME GraphInv, NEW id, NEW flag \in BOOLEAN, SetSuppress(id, flag)
    PROVE  GraphInv'
<1> DEFINE Set(t) == IF t.id = id THEN [t EXCEPT !.suppress = flag] ELSE t
           f == [t \in template |-> Set(t)]
<1>1. template \in SUBSET Row /\ lastId' = lastId /\ template' = {Set(t) : t \in template}
  BY DEF GraphInv, SetSuppress
<1>2. \A t \in template : /\ Set(t) \in Row
                          /\ Set(t).id = t.id
                          /\ Set(t).parent = t.parent
                          /\ Set(t).child = t.child
  BY <1>1 DEF Row
<1>3. IsFiniteSet(template')
  <2>1. f \in [template -> template']
    BY <1>1
  <2>2. \A u \in template' : \E t \in template : f[t] = u
    BY <1>1
  <2>3. f \in Surjection(template, template')
    BY <2>1, <2>2, Zenon DEF Surjection
  <2> QED BY <2>3, FS_Surjection DEF GraphInv
<1> HIDE DEF Set
<1>4. template' \in SUBSET Row
  BY <1>1, <1>2
<1>5. \A u \in template' : \E t \in template : u = Set(t)
  BY <1>1
<1>6. \A t \in template' : t.id <= lastId'
  BY <1>1, <1>2, <1>5 DEF GraphInv
<1>7. \A t, u \in template' : t.id = u.id => t = u
  BY <1>2, <1>5 DEF GraphInv
<1>8. \A t, u \in template' : t.parent = u.parent /\ t.child = u.child => t = u
  BY <1>2, <1>5 DEF GraphInv
<1>9. Ranked(template')
  BY <1>2, <1>5 DEF GraphInv, Ranked
<1> QED BY <1>1, <1>3, <1>4, <1>6, <1>7, <1>8, <1>9 DEF GraphInv

LEMMA RemoveRowKeepsTheGraph ==
    ASSUME GraphInv, NEW id, RemoveRow(id)
    PROVE  GraphInv'
<1>1. template' \in SUBSET template /\ lastId' = lastId
  BY DEF RemoveRow
<1>2. IsFiniteSet(template')
  BY <1>1, FS_Subset DEF GraphInv
<1>3. Ranked(template')
  BY <1>1 DEF GraphInv, Ranked
<1> QED BY <1>1, <1>2, <1>3 DEF GraphInv

LEMMA GraphStep ==
    ASSUME GraphInv, GraphNext
    PROVE  GraphInv'
<1>1. CASE \E p, c \in Parts, flag \in BOOLEAN : AddRow(p, c, flag)
  BY <1>1, AddRowKeepsTheGraph
<1>2. CASE \E id \in 0..MaxRows : RemoveRow(id)
  BY <1>2, RemoveRowKeepsTheGraph
<1>3. CASE \E id \in 0..MaxRows : \E flag \in BOOLEAN : SetSuppress(id, flag)
  BY <1>3, SetSuppressKeepsTheGraph
<1>4. CASE \E p \in Parts : AddPart(p) \/ RemovePart(p)
  BY <1>4 DEF AddPart, RemovePart, GraphInv, Ranked
<1> QED BY <1>1, <1>2, <1>3, <1>4 DEF GraphNext

LEMMA GraphStart ==
    ASSUME GraphInit
    PROVE  GraphInv
<1>1. Ranked({})
  <2>1. 0 \in Nat /\ [p \in Parts |-> 0] \in [Parts -> 0..0]
    OBVIOUS
  <2> QED BY <2>1 DEF Ranked
<1> QED BY <1>1, FS_EmptySet DEF GraphInit, GraphInv

-----------------------------------------------------------------------------
(* The rows of a part, each once                                           *)

LEMMA RowsOfIs ==
    ASSUME GraphInv, NEW part
    PROVE  \E n \in Nat :
             /\ RowsOf(part) \in [1..n -> {t \in template : t.parent = part}]
             /\ \A i, j \in 1..n : RowsOf(part)[i] = RowsOf(part)[j] => i = j
             /\ \A t \in template :
                  t.parent = part => \E i \in 1..n : RowsOf(part)[i] = t
<1> DEFINE rows == {t \in template : t.parent = part}
<1>1. IsFiniteSet(rows)
  BY FS_Subset DEF GraphInv
<1>2. \A t \in rows : t.id \in Nat
  BY MaxRowsAssumption DEF GraphInv, Row
<1>3. \A t, u \in rows : t.id = u.id => t = u
  BY DEF GraphInv
<1>4. /\ Cardinality(rows) \in Nat
      /\ InOrder(rows) \in [1..Cardinality(rows) -> rows]
      /\ \A i, j \in 1..Cardinality(rows) :
           InOrder(rows)[i] = InOrder(rows)[j] => i = j
      /\ \A t \in rows : \E i \in 1..Cardinality(rows) : InOrder(rows)[i] = t
  <2> HIDE DEF rows
  <2> QED BY <1>1, <1>2, <1>3, InOrderIs
<1> QED BY <1>4 DEF RowsOf
-----------------------------------------------------------------------------
(* Sequences without repetitions                                           *)

LEMMA MembersOfAppend ==
    ASSUME NEW S, NEW s \in Seq(S), NEW x \in S
    PROVE  /\ Append(s, x) \in Seq(S)
           /\ Append(s, x) # <<>>
           /\ Len(Append(s, x)) = Len(s) + 1
           /\ Last(Append(s, x)) = x
           /\ ToSet(Append(s, x)) = ToSet(s) \cup {x}
           /\ IsInjective(s) /\ x \notin ToSet(s) => IsInjective(Append(s, x))
           /\ Append(s, x)[1] = IF s = <<>> THEN x ELSE s[1]
<1> DEFINE a == Append(s, x)
<1>1. /\ a \in Seq(S) /\ a # <<>> /\ Len(a) = Len(s) + 1
      /\ \A i \in 1..Len(s) : a[i] = s[i]
      /\ a[Len(s) + 1] = x
  BY AppendProperties
<1>2. /\ Len(s) \in Nat /\ DOMAIN s = 1..Len(s) /\ DOMAIN a = 1..(Len(s) + 1)
      /\ (s # <<>> => Len(s) # 0)
      /\ (s = <<>> => Len(s) = 0)
  BY <1>1, LenProperties, EmptySeq
<1> HIDE DEF a
<1>3. ToSet(a) = ToSet(s) \cup {x}
  BY <1>1, <1>2 DEF ToSet
<1>4. ASSUME IsInjective(s), x \notin ToSet(s) PROVE IsInjective(a)
  <2>1. \A i \in 1..Len(s) : s[i] # x
    BY <1>2, <1>4 DEF ToSet
  <2> QED BY <1>1, <1>2, <1>4, <2>1 DEF IsInjective
<1>5. a[1] = IF s = <<>> THEN x ELSE s[1]
  BY <1>1, <1>2
<1>6. Last(a) = x
  BY <1>1 DEF Last
<1> QED BY <1>1, <1>3, <1>4, <1>5, <1>6 DEF a

LEMMA MembersOfTail ==
    ASSUME NEW S, NEW s \in Seq(S), s # <<>>
    PROVE  /\ Head(s) \in S /\ Head(s) \in ToSet(s)
           /\ Tail(s) \in Seq(S)
           /\ ToSet(s) = ToSet(Tail(s)) \cup {Head(s)}
           /\ IsInjective(s) => IsInjective(Tail(s)) /\ Head(s) \notin ToSet(Tail(s))
<1> DEFINE r == Tail(s)
<1>1. /\ Head(s) \in S /\ r \in Seq(S) /\ Len(r) = Len(s) - 1
      /\ \A i \in 1..Len(r) : r[i] = s[i + 1]
      /\ Head(s) = s[1]
  BY HeadTailProperties
<1>2. /\ Len(s) \in Nat \ {0} /\ DOMAIN s = 1..Len(s) /\ DOMAIN r = 1..(Len(s) - 1)
  BY <1>1, LenProperties, EmptySeq
<1> HIDE DEF r
<1>3. Head(s) \in ToSet(s)
  BY <1>1, <1>2 DEF ToSet
<1>4. ASSUME NEW x \in ToSet(s) PROVE x \in ToSet(r) \cup {Head(s)}
  <2>1. PICK i \in 1..Len(s) : x = s[i]
    BY <1>2 DEF ToSet
  <2>2. CASE i # 1
    <3>1. i - 1 \in 1..(Len(s) - 1) /\ (i - 1) + 1 = i
      BY <1>2, <2>2
    <3>2. r[i - 1] = x
      <4>1. i - 1 \in 1..Len(r)
        BY <1>1, <3>1
      <4>2. r[i - 1] = s[(i - 1) + 1]
        BY <1>1, <4>1
      <4> QED BY <2>1, <3>1, <4>2
    <3>3. i - 1 \in DOMAIN r
      BY <1>2, <3>1
    <3> QED BY <3>2, <3>3 DEF ToSet
  <2> QED BY <1>1, <2>1, <2>2
<1>5. ASSUME NEW x \in ToSet(r) PROVE x \in ToSet(s)
  <2>1. PICK i \in 1..(Len(s) - 1) : x = r[i]
    BY <1>2 DEF ToSet
  <2>2. i + 1 \in 1..Len(s) /\ x = s[i + 1]
    BY <1>1, <1>2, <2>1
  <2>3. i + 1 \in DOMAIN s
    BY <1>2, <2>2
  <2> QED BY <2>2, <2>3 DEF ToSet
<1>6. ASSUME IsInjective(s) PROVE IsInjective(r) /\ Head(s) \notin ToSet(r)
  <2>1. \A i \in 1..(Len(s) - 1) : i + 1 \in 1..Len(s) /\ r[i] = s[i + 1]
    BY <1>1, <1>2
  <2>2. \A i, j \in 1..Len(s) : s[i] = s[j] => i = j
    BY <1>2, <1>6 DEF IsInjective
  <2>3. ASSUME NEW i \in 1..(Len(s) - 1), NEW j \in 1..(Len(s) - 1), r[i] = r[j]
        PROVE  i = j
    <3>1. i + 1 = j + 1
      BY <2>1, <2>2, <2>3
    <3> QED BY <3>1
  <2>4. ASSUME NEW i \in 1..(Len(s) - 1) PROVE r[i] # Head(s)
    <3>1. 1 \in 1..Len(s) /\ i + 1 # 1
      BY <1>2
    <3> QED BY <1>1, <2>1, <2>2, <3>1
  <2> QED BY <1>2, <2>3, <2>4 DEF IsInjective, ToSet
<1> QED BY <1>1, <1>3, <1>4, <1>5, <1>6 DEF r

LEMMA MembersOfConcat ==
    ASSUME NEW S, NEW s \in Seq(S), NEW t \in Seq(S)
    PROVE  /\ s \o t \in Seq(S)
           /\ ToSet(s \o t) = ToSet(s) \cup ToSet(t)
           /\ IsInjective(s) /\ IsInjective(t) /\ ToSet(s) \cap ToSet(t) = {}
              => IsInjective(s \o t)
<1> DEFINE u == s \o t
           l == Len(s)
           k == Len(t)
<1>1. /\ u \in Seq(S) /\ Len(u) = l + k
      /\ \A i \in 1..(l + k) : u[i] = IF i <= l THEN s[i] ELSE t[i - l]
  BY ConcatProperties
<1>2. /\ l \in Nat /\ k \in Nat
      /\ DOMAIN s = 1..l /\ DOMAIN t = 1..k /\ DOMAIN u = 1..(l + k)
  BY <1>1, LenProperties
<1> HIDE DEF u, l, k
<1>3. \A i \in 1..l : i \in 1..(l + k) /\ u[i] = s[i]
  BY <1>1, <1>2
<1>4. \A i \in 1..k : i + l \in 1..(l + k) /\ u[i + l] = t[i]
  BY <1>1, <1>2
<1>5. \A i \in 1..(l + k) : \/ i \in 1..l /\ u[i] = s[i]
                            \/ i - l \in 1..k /\ u[i] = t[i - l]
  BY <1>1, <1>2
<1>6. ToSet(u) \subseteq ToSet(s) \cup ToSet(t)
  BY <1>2, <1>5 DEF ToSet
<1>7. ToSet(s) \subseteq ToSet(u)
  BY <1>2, <1>3 DEF ToSet
<1>8. ToSet(t) \subseteq ToSet(u)
  BY <1>2, <1>4 DEF ToSet
<1>9. ASSUME IsInjective(s), IsInjective(t), ToSet(s) \cap ToSet(t) = {}
      PROVE  IsInjective(u)
  <2>1. \A i \in 1..l, j \in 1..k : s[i] # t[j]
    BY <1>2, <1>9 DEF ToSet
  <2>2. \A i, j \in 1..l : s[i] = s[j] => i = j
    BY <1>2, <1>9 DEF IsInjective
  <2>3. \A i, j \in 1..k : t[i] = t[j] => i = j
    BY <1>2, <1>9 DEF IsInjective
  <2>4. ASSUME NEW i \in 1..(l + k), NEW j \in 1..(l + k), u[i] = u[j] PROVE i = j
    <3>1. CASE i \in 1..l /\ j \in 1..l
      BY <1>3, <2>2, <2>4, <3>1
    <3>2. CASE i - l \in 1..k /\ u[i] = t[i - l] /\ j - l \in 1..k /\ u[j] = t[j - l]
      <4>1. i - l = j - l
        BY <2>3, <2>4, <3>2
      <4> QED BY <1>2, <4>1
    <3>3. CASE i \in 1..l /\ u[i] = s[i] /\ j - l \in 1..k /\ u[j] = t[j - l]
      BY <2>1, <2>4, <3>3
    <3>4. CASE j \in 1..l /\ u[j] = s[j] /\ i - l \in 1..k /\ u[i] = t[i - l]
      BY <2>1, <2>4, <3>4
    <3> QED BY <1>5, <3>1, <3>2, <3>3, <3>4
  <2> QED BY <1>2, <2>4 DEF IsInjective
<1> QED BY <1>1, <1>6, <1>7, <1>8, <1>9 DEF u

LEMMA MembersAreCounted ==
    ASSUME NEW S, NEW s \in Seq(S), IsInjective(s)
    PROVE  IsFiniteSet(ToSet(s)) /\ Cardinality(ToSet(s)) = Len(s)
<1> DEFINE l == Len(s)
<1>1. l \in Nat /\ DOMAIN s = 1..l /\ s \in [1..l -> S]
  BY LenProperties
<1> HIDE DEF l
<1>2. s \in [1..l -> ToSet(s)]
  BY <1>1 DEF ToSet
<1>3. \A x \in ToSet(s) : \E i \in 1..l : s[i] = x
  BY <1>1 DEF ToSet
<1>4. s \in Surjection(1..l, ToSet(s))
  BY <1>2, <1>3, Zenon DEF Surjection
<1>5. s \in Injection(1..l, ToSet(s))
  BY <1>2, Zenon DEF Injection
<1>6. IsFiniteSet(1..l) /\ Cardinality(1..l) = l
  BY <1>1, FS_Interval
<1>7. ExistsBijection(1..l, ToSet(s))
  BY <1>4, <1>5 DEF Bijection, ExistsBijection
<1> QED BY <1>6, <1>7, FS_Bijection DEF l
-----------------------------------------------------------------------------
(* The walk, whatever is committed meanwhile                               *)

Statuses == {"unread", "OBSOLETE", "ACTIVE", "absent"}

WalkInv ==
    /\ nodes \in Seq(Chains)
    /\ todo \in Seq(Chains)
    /\ status \in [Parts -> Statuses]
    /\ limit \in Limits
    /\ edits \in Nat
    /\ step = "idle" => /\ nodes = <<>>
                       /\ status = [p \in Parts |-> "unread"]
    /\ step = "expand" => nodes # <<>> /\ ~Last(nodes).leaf
    /\ WithinLimits

(* What a call of _recurse makes of the rows it has read.                  *)
Calls(node) ==
    [i \in DOMAIN RowsOf(Part(node)) |->
        [path |-> Append(node.path, RowsOf(Part(node))[i].child),
         leaf |-> RowsOf(Part(node))[i].suppress]]

LEMMA CallsAre ==
    ASSUME GraphInv, NEW m \in Chains, ~m.leaf
    PROVE  /\ Calls(m) \in Seq(Chains)
           /\ IsInjective(Calls(m))
           /\ \A n \in ToSet(Calls(m)) :
                \E t \in template : Leads(m, t) /\ n = Under(m, t)
           /\ \A t \in template : Leads(m, t) => Under(m, t) \in ToSet(Calls(m))
<1> DEFINE rows == RowsOf(Part(m))
<1>1. PICK k \in Nat :
          /\ rows \in [1..k -> {t \in template : t.parent = Part(m)}]
          /\ \A i, j \in 1..k : rows[i] = rows[j] => i = j
          /\ \A t \in template : t.parent = Part(m) => \E i \in 1..k : rows[i] = t
  BY RowsOfIs
<1>2. Calls(m) = [i \in 1..k |-> Under(m, rows[i])]
  BY <1>1 DEF Calls, Under
<1> HIDE DEF rows
<1>3. \A i \in 1..k : /\ rows[i] \in template
                      /\ rows[i] \in Row
                      /\ Leads(m, rows[i])
                      /\ Under(m, rows[i]) \in Chains
  BY <1>1, UnderFacts DEF GraphInv, Leads
<1> DEFINE calls == Calls(m)
<1>4. DOMAIN calls = 1..k /\ \A i \in 1..k : calls[i] = Under(m, rows[i])
  BY <1>2
<1>5. calls \in Seq(Chains)
  <2>1. calls \in [1..k -> Chains]
    BY <1>2, <1>3
  <2> HIDE DEF calls
  <2> QED BY <2>1
<1> HIDE DEF calls
<1>6. ASSUME NEW i \in 1..k, NEW j \in 1..k, calls[i] = calls[j] PROVE i = j
  <2>1. rows[i].parent = rows[j].parent /\ rows[i].child = rows[j].child
    <3>1. Under(m, rows[i]) = Under(m, rows[j])
      BY <1>4, <1>6
    <3> QED BY <1>3, <3>1, OneWayThere
  <2>2. rows[i] = rows[j]
    BY <1>3, <2>1 DEF GraphInv
  <2> QED BY <1>1, <2>2
<1>7. IsInjective(calls)
  BY <1>4, <1>6 DEF IsInjective
<1>8. \A n \in ToSet(calls) : \E t \in template : Leads(m, t) /\ n = Under(m, t)
  BY <1>3, <1>4 DEF ToSet
<1>9. ASSUME NEW t \in template, Leads(m, t) PROVE Under(m, t) \in ToSet(calls)
  <2>1. PICK i \in 1..k : rows[i] = t
    BY <1>1, <1>9 DEF Leads
  <2> QED BY <1>4, <2>1 DEF ToSet
<1> QED BY <1>5, <1>7, <1>8, <1>9 DEF calls

LEMMA LastIs ==
    ASSUME NEW S, NEW s \in Seq(S), s # <<>>
    PROVE  Last(s) \in S /\ Last(s) \in ToSet(s)
<1>1. Len(s) \in Nat \ {0} /\ DOMAIN s = 1..Len(s)
  BY EmptySeq, LenProperties
<1>2. s[Len(s)] \in S
  BY <1>1, ElementOfSeq
<1> QED BY <1>1, <1>2 DEF Last, ToSet

LEMMA ExpandAppends ==
    ASSUME Expand
    PROVE  /\ step = "expand" /\ step' = "visit"
           /\ todo' = Calls(Last(nodes)) \o todo
           /\ UNCHANGED <<graphVars, obsolete, limit, mode, nodes, status,
                         outcome, start, edits>>
  BY DEF Expand, Calls

LEMMA WalkStart ==
    ASSUME Init
    PROVE  WalkInv
<1>1. Limits \subseteq [depth : Nat, nodes : Nat \ {0}]
  BY LimitsAssumption
<1>2. nodes = <<>> /\ todo = <<>> /\ limit \in Limits
  BY DEF Init
<1>3. WithinLimits
  BY <1>1, <1>2 DEF WithinLimits
<1> QED BY <1>2, <1>3, EmptySeq DEF Init, WalkInv, Statuses

LEMMA WalkStep ==
    ASSUME GraphInv, WalkInv, [Next]_vars
    PROVE  WalkInv'
<1> USE DEF WalkInv
<1>1. CASE \E p \in Parts : BeginPreview(p) \/ BeginMaterialize(p)
  <2>1. PICK m \in {"preview", "materialize"}, p \in Parts : Begin(m, p)
    BY <1>1 DEF BeginPreview, BeginMaterialize
  <2>2. todo' = <<RootNode(p)>>
    BY <2>1 DEF Begin, RootNode
  <2>3. todo' \in Seq(Chains)
    BY <2>2, RootFacts
  <2> QED BY <2>1, <2>3 DEF Begin, WithinLimits
<1>2. CASE Visit
  <2> DEFINE node == Head(todo)
  <2>1. todo # <<>> /\ node \in Chains /\ Tail(todo) \in Seq(Chains)
    BY <1>2, MembersOfTail DEF Visit
  <2> HIDE DEF node
  <2>2. CASE Exceeds(node)
    <3>1. UNCHANGED <<nodes, status, limit, edits>> /\ step' = "return" /\ todo' = <<>>
      BY <1>2, <2>2 DEF Visit, End, node
    <3> QED BY <3>1 DEF WithinLimits
  <2>3. CASE ~Exceeds(node)
    <3>1. /\ nodes' = Append(nodes, node) /\ todo' = Tail(todo)
          /\ UNCHANGED <<limit, edits>>
          /\ step' = IF node.leaf THEN "visit" ELSE "expand"
      BY <1>2, <2>3 DEF Visit, node
    <3>2. status' \in [Parts -> Statuses]
      <4>1. Part(node) \in Parts
        BY <2>1, ChainFacts
      <4>2. status' = status \/ \E v \in Statuses : status' = [status EXCEPT ![Part(node)] = v]
        BY <1>2, <2>3 DEF Visit, node, Statuses
      <4> QED BY <4>1, <4>2
    <3>3. /\ nodes' \in Seq(Chains) /\ nodes' # <<>> /\ Len(nodes') = Len(nodes) + 1
          /\ ToSet(nodes') = ToSet(nodes) \cup {node} /\ Last(nodes') = node
      BY <2>1, <3>1, MembersOfAppend
    <3>4. WithinLimits'
      <4>1. Len(nodes) \in Nat /\ Depth(node) \in Nat
        BY <2>1, LenProperties, ChainFacts
      <4>2. limit.nodes \in Nat /\ limit.depth \in Nat
        BY LimitsAssumption
      <4>3. Len(nodes') <= limit.nodes /\ Depth(node) <= limit.depth
        BY <2>3, <3>3, <4>1, <4>2 DEF Exceeds
      <4>4. \A n \in ToSet(nodes) : Depth(n) <= limit.depth
        BY DEF WithinLimits, ToSet
      <4>5. \A i \in DOMAIN nodes' : nodes'[i] \in ToSet(nodes')
        BY DEF ToSet
      <4>6. \A i \in DOMAIN nodes' : Depth(nodes'[i]) <= limit.depth
        BY <3>3, <4>3, <4>4, <4>5
      <4> QED BY <3>1, <4>3, <4>6 DEF WithinLimits, Depth
    <3> QED BY <2>1, <3>1, <3>2, <3>3, <3>4
  <2> QED BY <2>2, <2>3
<1>3. CASE Expand
  <2> DEFINE last == Last(nodes)
  <2>1. last \in Chains /\ ~last.leaf
    BY <1>3, LastIs DEF Expand
  <2>2. todo' = Calls(last) \o todo
    BY <1>3, ExpandAppends
  <2> HIDE DEF last
  <2>3. todo' \in Seq(Chains)
    <3>1. Calls(last) \in Seq(Chains)
      BY <2>1, CallsAre
    <3> QED BY <2>2, <3>1, MembersOfConcat
  <2>4. UNCHANGED <<nodes, status, limit, edits>> /\ step' = "visit"
    BY <1>3 DEF Expand
  <2>5. WithinLimits'
    BY <2>4 DEF WithinLimits
  <2> QED BY <2>3, <2>4, <2>5
<1>4. CASE RefuseObsolete \/ AnswerPreview \/ Materialize
  <2>1. UNCHANGED <<nodes, status, limit, edits>> /\ step' = "return" /\ todo' = <<>>
    BY <1>4 DEF RefuseObsolete, AnswerPreview, Materialize, End
  <2>2. WithinLimits'
    BY <2>1 DEF WithinLimits
  <2> QED BY <2>1, <2>2, EmptySeq
<1>5. CASE Return
  <2>1. /\ nodes' = <<>> /\ todo' = todo /\ limit' \in Limits /\ edits' = 0
        /\ status' = [p \in Parts |-> "unread"] /\ step' = "idle"
    BY <1>5 DEF Return
  <2>2. WithinLimits'
    BY <2>1, LimitsAssumption DEF WithinLimits
  <2> QED BY <2>1, <2>2, EmptySeq DEF Statuses
<1>6. CASE (\E p \in Parts : SetStatus(p)) \/ Edit
  <2>1. UNCHANGED walkVars /\ edits' \in Nat
    BY <1>6 DEF SetStatus, Edit, CountEdit
  <2> QED BY <2>1 DEF walkVars, WithinLimits
<1>7. CASE UNCHANGED vars
  BY <1>7 DEF vars, walkVars, WithinLimits
<1> QED BY <1>1, <1>2, <1>3, <1>4, <1>5, <1>6, <1>7 DEF Next

LEMMA GraphKept ==
    ASSUME GraphInv, [Next]_vars
    PROVE  GraphInv'
<1>1. CASE Edit
  BY <1>1, GraphStep DEF Edit
<1>2. CASE UNCHANGED graphVars
  BY <1>2 DEF graphVars, GraphInv, Ranked
<1>3. Edit \/ UNCHANGED graphVars
  BY DEF Next, vars, BeginPreview, BeginMaterialize, Begin, Visit, Expand,
         RefuseObsolete, AnswerPreview, Materialize, Return, SetStatus
<1> QED BY <1>1, <1>2, <1>3

(* Whatever other handlers commit, an expansion makes no more nodes and    *)
(* goes no deeper than MAX_BOM_EXPLOSION_NODES and _DEPTH (explode,        *)
(* _recurse), for every template, every setting and any number of commits. *)
THEOREM StaysWithinLimits == Spec => []WithinLimits
<1>1. Init => GraphInv /\ WalkInv
  BY GraphStart, WalkStart DEF Init
<1>2. GraphInv /\ WalkInv /\ [Next]_vars => (GraphInv /\ WalkInv)'
  BY GraphKept, WalkStep
<1>3. WalkInv => WithinLimits
  BY DEF WalkInv
<1> QED BY <1>1, <1>2, <1>3, PTL DEF Spec
-----------------------------------------------------------------------------
(* The walk that nothing disturbs                                          *)

Seen == ToSet(nodes)
Ahead == ToSet(todo)

(* The rows of a node of the tree have been read.                          *)
Expanded(m) == step = "visit" \/ m # Last(nodes)

(* What the walk owes the tree: the nodes made and to make are of the      *)
(* tree, each once; what a node leads to is made or to make, once its rows *)
(* have been read; and no node is there that was not led to.               *)
OwesTheTree(root) ==
    /\ IF nodes = <<>> THEN todo = <<RootNode(root)>>
                       ELSE nodes[1] = RootNode(root)
    /\ Seen \cup Ahead \subseteq Tree(template, root)
    /\ RootNode(root) \in Seen \cup Ahead
    /\ IsInjective(nodes) /\ IsInjective(todo) /\ Seen \cap Ahead = {}
    /\ \A m \in Seen, t \in template :
         Leads(m, t) /\ Expanded(m) => Under(m, t) \in Seen \cup Ahead
    /\ \A n \in Seen \cup Ahead :
         \/ n = RootNode(root)
         \/ \E m \in Seen, t \in template :
              Leads(m, t) /\ Expanded(m) /\ n = Under(m, t)

(* The statuses read are those of the parts of the nodes made.             *)
StatusesRead ==
    /\ \A p \in Parts : status[p] # "unread" =>
         /\ status[p] = "OBSOLETE" <=> p \in obsolete
         /\ \E n \in Seen : Part(n) = p
    /\ \A n \in Seen : status[Part(n)] # "unread"

QuietInv ==
    /\ step \in {"visit", "expand"} /\ edits = 0 =>
        StatusesRead /\ \E root \in Parts : OwesTheTree(root)
    /\ QuietExplosionIsExact

LEMMA TreeHere ==
    ASSUME GraphInv, NEW root \in Parts
    PROVE  /\ Tree(template, root) \in SUBSET Chains
           /\ IsFiniteSet(Tree(template, root))
           /\ RootNode(root) \in Tree(template, root)
           /\ \A m \in Tree(template, root), t \in template :
                 Leads(m, t) => Under(m, t) \in Tree(template, root)
           /\ \A S \in SUBSET Chains :
                 /\ RootNode(root) \in S
                 /\ \A m \in S, t \in template : Leads(m, t) => Under(m, t) \in S
                 => Tree(template, root) \subseteq S
<1>1. template \in SUBSET Row /\ IsFiniteSet(template) /\ Ranked(template)
  BY DEF GraphInv
<1> QED BY <1>1, TreeIs, PartsAssumption

LEMMA MembersAreChains ==
    ASSUME WalkInv
    PROVE  /\ Seen \in SUBSET Chains
           /\ Ahead \in SUBSET Chains
<1>1. /\ DOMAIN nodes = 1..Len(nodes) /\ DOMAIN todo = 1..Len(todo)
      /\ \A i \in 1..Len(nodes) : nodes[i] \in Chains
      /\ \A i \in 1..Len(todo) : todo[i] \in Chains
  BY LenProperties, ElementOfSeq DEF WalkInv
<1> QED BY <1>1 DEF Seen, Ahead, ToSet

(* The first call of _recurse is owed everything.                          *)
LEMMA QuietBegin ==
    ASSUME GraphInv, WalkInv, QuietInv, NEW m, NEW root \in Parts, Begin(m, root)
    PROVE  QuietInv'
<1>1. /\ step = "idle" /\ step' = "visit" /\ edits' = edits
      /\ todo' = <<RootNode(root)>>
      /\ nodes' = <<>> /\ status' = [p \in Parts |-> "unread"]
      /\ template' = template
  BY DEF Begin, RootNode, WalkInv, graphVars
<1>2. Seen' = {} /\ Ahead' = {RootNode(root)}
  BY <1>1 DEF Seen, Ahead, ToSet
<1>3. IsInjective(nodes') /\ IsInjective(todo')
  BY <1>1 DEF IsInjective
<1>4. RootNode(root) \in Tree(template, root)
  BY TreeHere
<1>5. Tree(template, root)' = Tree(template, root) /\ RootNode(root)' = RootNode(root)
  BY <1>1 DEF Tree, RootNode
<1>6. OwesTheTree(root)'
  BY <1>1, <1>2, <1>3, <1>4, <1>5 DEF OwesTheTree
<1>7. StatusesRead'
  BY <1>1, <1>2 DEF StatusesRead
<1>8. QuietExplosionIsExact'
  BY <1>1 DEF QuietExplosionIsExact
<1> QED BY <1>6, <1>7, <1>8 DEF QuietInv

(* A node is made: it is the next owed, and it owes its children.          *)
LEMMA QuietVisit ==
    ASSUME GraphInv, WalkInv, QuietInv, Visit, ~Exceeds(Head(todo))
    PROVE  QuietInv'
<1> DEFINE node == Head(todo)
<1>1. /\ step = "visit" /\ todo # <<>>
      /\ nodes' = Append(nodes, node) /\ todo' = Tail(todo)
      /\ step' = IF node.leaf THEN "visit" ELSE "expand"
      /\ UNCHANGED <<template, catalog, obsolete, edits>>
      /\ status' = IF status[Part(node)] # "unread" THEN status
                   ELSE [status EXCEPT ![Part(node)] =
                           CASE Part(node) \in obsolete -> "OBSOLETE"
                             [] Part(node) \in catalog \ obsolete -> "ACTIVE"
                             [] OTHER -> "absent"]
  BY DEF Visit, graphVars
<1>2. /\ node \in Chains /\ node \in Ahead
      /\ Ahead = Ahead' \cup {node}
      /\ IsInjective(todo) => IsInjective(todo') /\ node \notin Ahead'
  BY <1>1, MembersOfTail DEF WalkInv, Ahead
<1> HIDE DEF node
<1>3. /\ nodes' # <<>> /\ Last(nodes') = node
      /\ Seen' = Seen \cup {node}
      /\ IsInjective(nodes) /\ node \notin Seen => IsInjective(nodes')
      /\ nodes'[1] = IF nodes = <<>> THEN node ELSE nodes[1]
  BY <1>1, <1>2, MembersOfAppend DEF WalkInv, Seen
<1>4. QuietExplosionIsExact'
  BY <1>1 DEF QuietExplosionIsExact
<1> SUFFICES ASSUME edits' = 0
             PROVE  StatusesRead' /\ \E root \in Parts : OwesTheTree(root)'
  BY <1>4 DEF QuietInv
<1>5. PICK root \in Parts : StatusesRead /\ OwesTheTree(root)
  BY <1>1 DEF QuietInv
<1>6. StatusesRead'
  <2>1. Part(node) \in Parts /\ status \in [Parts -> Statuses]
    BY <1>2, ChainFacts DEF WalkInv
  <2>2. \A n \in Seen : Part(n) \in Parts
    BY MembersAreChains, ChainFacts
  <2>3. \A p \in Parts : p # Part(node) => status'[p] = status[p]
    BY <1>1, <2>1
  <2>4. CASE status[Part(node)] # "unread"
    BY <1>1, <1>3, <1>5, <2>4 DEF StatusesRead, Part
  <2>5. CASE status[Part(node)] = "unread"
    <3>1. /\ status'[Part(node)] # "unread"
          /\ status'[Part(node)] = "OBSOLETE" <=> Part(node) \in obsolete
      BY <1>1, <2>1, <2>5
    <3>2. \A p \in Parts : status'[p] # "unread" =>
            /\ status'[p] = "OBSOLETE" <=> p \in obsolete
            /\ \E n \in Seen' : Part(n) = p
      BY <1>3, <1>5, <2>3, <3>1 DEF StatusesRead
    <3>3. \A n \in Seen' : status'[Part(n)] # "unread"
      BY <1>3, <1>5, <2>2, <2>3, <3>1 DEF StatusesRead
    <3> QED BY <1>1, <3>2, <3>3 DEF StatusesRead, Part
  <2> QED BY <2>4, <2>5
<1>7. Tree(template, root)' = Tree(template, root)
  BY <1>1 DEF Tree
<1>8. Seen' \cup Ahead' = Seen \cup Ahead
  BY <1>2, <1>3
<1>9. node \notin Seen /\ IsInjective(nodes') /\ IsInjective(todo') /\ Seen' \cap Ahead' = {}
  BY <1>2, <1>3, <1>5 DEF OwesTheTree
<1>10. \A m : Expanded(m)' <=> node.leaf \/ m # node
  BY <1>1, <1>3 DEF Expanded
<1>11. \A m \in Seen : Expanded(m) /\ Expanded(m)'
  BY <1>1, <1>9, <1>10 DEF Expanded
<1>12. IF nodes' = <<>> THEN todo' = <<RootNode(root)>> ELSE nodes'[1] = RootNode(root)
  <2>1. CASE nodes = <<>>
    <3>1. node = RootNode(root)
      BY <1>5, <2>1 DEF OwesTheTree, node
    <3> QED BY <1>3, <2>1, <3>1
  <2>2. CASE nodes # <<>>
    BY <1>3, <1>5, <2>2 DEF OwesTheTree
  <2> QED BY <2>1, <2>2
<1>13. \A m \in Seen', t \in template :
          Leads(m, t) /\ Expanded(m)' => Under(m, t) \in Seen' \cup Ahead'
  <2>1. \A t : Leads(node, t) => ~node.leaf
    BY DEF Leads
  <2> QED BY <1>3, <1>5, <1>8, <1>10, <1>11, <2>1 DEF OwesTheTree
<1>14. \A n \in Seen' \cup Ahead' :
          \/ n = RootNode(root)
          \/ \E m \in Seen', t \in template :
               Leads(m, t) /\ Expanded(m)' /\ n = Under(m, t)
  BY <1>3, <1>5, <1>8, <1>11 DEF OwesTheTree
<1>15. OwesTheTree(root)'
  BY <1>1, <1>5, <1>7, <1>8, <1>9, <1>12, <1>13, <1>14
     DEF OwesTheTree, Leads, Under, Part, RootNode
<1> QED BY <1>6, <1>15
(* The rows of the last node are read: its children are new.               *)
LEMMA QuietExpand ==
    ASSUME GraphInv, WalkInv, QuietInv, Expand
    PROVE  QuietInv'
<1> DEFINE last == Last(nodes)
           calls == Calls(last)
<1>1. /\ step = "expand" /\ step' = "visit"
      /\ todo' = calls \o todo
      /\ UNCHANGED <<template, obsolete, nodes, status, edits>>
  BY ExpandAppends DEF graphVars
<1>2. nodes # <<>> /\ last \in Chains /\ last \in Seen /\ ~last.leaf
  BY <1>1, LastIs DEF WalkInv, Seen
<1> HIDE DEF last
<1>3. /\ calls \in Seq(Chains) /\ IsInjective(calls)
      /\ \A n \in ToSet(calls) : \E t \in template : Leads(last, t) /\ n = Under(last, t)
      /\ \A t \in template : Leads(last, t) => Under(last, t) \in ToSet(calls)
  BY <1>2, CallsAre
<1> HIDE DEF calls
<1>4. /\ Seen' = Seen
      /\ Ahead' = ToSet(calls) \cup Ahead
      /\ IsInjective(todo) /\ ToSet(calls) \cap Ahead = {} => IsInjective(todo')
  BY <1>1, <1>3, MembersOfConcat DEF WalkInv, Seen, Ahead
<1>5. QuietExplosionIsExact'
  BY <1>1 DEF QuietExplosionIsExact
<1> SUFFICES ASSUME edits' = 0
             PROVE  StatusesRead' /\ \E root \in Parts : OwesTheTree(root)'
  BY <1>5 DEF QuietInv
<1>6. PICK root \in Parts : StatusesRead /\ OwesTheTree(root)
  BY <1>1 DEF QuietInv
<1>7. StatusesRead'
  BY <1>1, <1>4, <1>6 DEF StatusesRead, Part
<1>8. Tree(template, root)' = Tree(template, root)
  BY <1>1 DEF Tree
<1>9. ToSet(calls) \subseteq Tree(template, root)
  BY <1>2, <1>3, <1>6, TreeHere DEF OwesTheTree
<1>10. ToSet(calls) \cap (Seen \cup Ahead) = {}
  <2> SUFFICES ASSUME NEW n \in ToSet(calls), n \in Seen \cup Ahead PROVE FALSE
    OBVIOUS
  <2>1. PICK t \in template : Leads(last, t) /\ n = Under(last, t)
    BY <1>3
  <2>2. t \in Row
    BY DEF GraphInv
  <2>3. n # RootNode(root)
    BY <1>2, <2>1, <2>2, RootIsNotUnder
  <2>4. PICK m \in Seen, u \in template : Leads(m, u) /\ Expanded(m) /\ n = Under(m, u)
    BY <1>6, <2>3 DEF OwesTheTree
  <2>5. m \in Chains /\ u \in Row
    BY MembersAreChains DEF GraphInv
  <2>6. m = last
    BY <1>2, <2>1, <2>2, <2>4, <2>5, OneWayThere
  <2> QED BY <1>1, <2>4, <2>6 DEF Expanded, last
<1>11. /\ IsInjective(nodes') /\ IsInjective(todo') /\ Seen' \cap Ahead' = {}
       /\ Seen' \cup Ahead' \subseteq Tree(template, root)
       /\ RootNode(root) \in Seen' \cup Ahead'
       /\ nodes'[1] = RootNode(root) /\ nodes' # <<>>
  BY <1>1, <1>2, <1>4, <1>6, <1>9, <1>10 DEF OwesTheTree
<1>12. \A m : Expanded(m)' /\ (Expanded(m) \/ m = last)
  BY <1>1 DEF Expanded, last
<1>13. \A m \in Seen', t \in template :
          Leads(m, t) /\ Expanded(m)' => Under(m, t) \in Seen' \cup Ahead'
  BY <1>3, <1>4, <1>6, <1>12 DEF OwesTheTree
<1>14. \A n \in Seen' \cup Ahead' :
          \/ n = RootNode(root)
          \/ \E m \in Seen', t \in template :
               Leads(m, t) /\ Expanded(m)' /\ n = Under(m, t)
  BY <1>2, <1>3, <1>4, <1>6, <1>12 DEF OwesTheTree
<1>15. OwesTheTree(root)'
  BY <1>1, <1>8, <1>11, <1>13, <1>14 DEF OwesTheTree, Leads, Under, Part, RootNode
<1> QED BY <1>7, <1>15

(* No call is left: what was owed is there.                                *)
LEMMA AllIsMade ==
    ASSUME GraphInv, WalkInv, NEW root \in Parts, OwesTheTree(root),
           step = "visit", todo = <<>>
    PROVE  /\ nodes[1].path[1] = root
           /\ Seen = Tree(template, root)
           /\ IsInjective(nodes)
           /\ Cardinality(Tree(template, root)) = Len(nodes)
<1>1. Ahead = {}
  BY DEF Ahead, ToSet
<1>2. RootNode(root) \in Seen
  BY <1>1 DEF OwesTheTree
<1>3. nodes # <<>>
  BY <1>2 DEF Seen, ToSet
<1>4. nodes[1].path[1] = root
  BY <1>3, RootFacts DEF OwesTheTree
<1>5. \A m \in Seen, t \in template : Leads(m, t) => Under(m, t) \in Seen
  BY <1>1 DEF OwesTheTree, Expanded
<1>6. Tree(template, root) \subseteq Seen
  BY <1>2, <1>5, TreeHere, MembersAreChains
<1>7. Seen = Tree(template, root) /\ IsInjective(nodes)
  BY <1>6 DEF OwesTheTree
<1>8. Cardinality(Seen) = Len(nodes)
  BY <1>7, MembersAreCounted DEF WalkInv, Seen
<1> QED BY <1>4, <1>7, <1>8

LEMMA QuietAnswer ==
    ASSUME GraphInv, WalkInv, QuietInv, step = "visit", todo = <<>>,
           UNCHANGED <<template, obsolete, limit, nodes, edits>>, step' = "return",
           outcome' \in {"ok", "error", "obsolete"},
           outcome' = "ok" => \A p \in Parts : status[p] # "OBSOLETE",
           outcome' = "obsolete" => \E p \in Parts : status[p] = "OBSOLETE"
    PROVE  QuietInv'
<1> SUFFICES ASSUME edits' = 0
             PROVE  QuietExplosionIsExact'
  BY DEF QuietInv, QuietExplosionIsExact
<1>1. PICK root \in Parts : StatusesRead /\ OwesTheTree(root)
  BY DEF QuietInv
<1> DEFINE tree == Tree(template, root)
<1>2. /\ nodes[1].path[1] = root
      /\ Seen = tree
      /\ IsInjective(nodes)
      /\ Cardinality(tree) = Len(nodes)
  BY <1>1, AllIsMade
<1>3. (Tree(template, nodes[1].path[1]))' = tree
  BY <1>2 DEF Tree
<1> HIDE DEF tree
<1>4. ~(Cardinality(tree) > limit.nodes)
  <2>1. Len(nodes) \in Nat /\ limit.nodes \in Nat
    BY LenProperties, LimitsAssumption DEF WalkInv
  <2> QED BY <1>2, <2>1 DEF WalkInv, WithinLimits
<1>5. ~ \E n \in tree : Depth(n) > limit.depth
  <2> SUFFICES ASSUME NEW n \in Seen PROVE ~(Depth(n) > limit.depth)
    BY <1>2
  <2>1. Depth(n) \in Nat /\ limit.depth \in Nat
    BY MembersAreChains, ChainFacts, LimitsAssumption DEF WalkInv
  <2>2. Depth(n) <= limit.depth
    BY DEF Seen, ToSet, WalkInv, WithinLimits
  <2> QED BY <2>1, <2>2
<1>6. \A n \in tree : Part(n) \in Parts
  BY <1>2, MembersAreChains, ChainFacts
<1>7. outcome' = "ok" => \A n \in tree : Part(n) \notin obsolete
  BY <1>1, <1>2, <1>6 DEF StatusesRead
<1>8. outcome' = "obsolete" => \E n \in tree : Part(n) \in obsolete
  <2> SUFFICES ASSUME outcome' = "obsolete" PROVE \E n \in tree : Part(n) \in obsolete
    OBVIOUS
  <2>1. PICK p \in Parts : status[p] = "OBSOLETE"
    OBVIOUS
  <2> QED BY <1>1, <1>2, <2>1 DEF StatusesRead
<1>9. ToSet(nodes') = tree /\ IsInjective(nodes')
  BY <1>2 DEF Seen
<1> QED BY <1>3, <1>4, <1>5, <1>7, <1>8, <1>9 DEF QuietExplosionIsExact, Part, Depth

(* A limit stops the walk only at a node that the tree has.                *)
LEMMA QuietLimit ==
    ASSUME GraphInv, WalkInv, QuietInv, Visit, Exceeds(Head(todo))
    PROVE  QuietInv'
<1> DEFINE node == Head(todo)
<1>1. /\ step = "visit" /\ todo # <<>> /\ step' = "return" /\ outcome' = "limit"
      /\ UNCHANGED <<template, obsolete, limit, nodes, edits>>
      /\ Exceeds(node)
  BY DEF Visit, End, graphVars
<1>2. node \in Chains /\ node \in Ahead
  BY <1>1, MembersOfTail DEF WalkInv, Ahead
<1> SUFFICES ASSUME edits' = 0
             PROVE  QuietExplosionIsExact'
  BY <1>1 DEF QuietInv, QuietExplosionIsExact
<1>3. PICK root \in Parts : OwesTheTree(root)
  BY <1>1 DEF QuietInv
<1> DEFINE tree == Tree(template, root)
<1>4. /\ limit.nodes \in Nat \ {0} /\ limit.depth \in Nat
      /\ Len(nodes) \in Nat /\ Depth(node) \in Nat
  BY <1>2, LenProperties, ChainFacts, LimitsAssumption DEF WalkInv
<1>5. nodes # <<>>
  <2> SUFFICES ASSUME nodes = <<>> PROVE FALSE
    OBVIOUS
  <2>1. node = RootNode(root)
    BY <1>3 DEF OwesTheTree
  <2>2. Depth(node) = 0 /\ Len(nodes) = 0
    BY <2>1, RootFacts
  <2> HIDE DEF node
  <2> QED BY <1>1, <1>4, <2>2 DEF Exceeds
<1>6. nodes[1].path[1] = root
  BY <1>3, <1>5, RootFacts DEF OwesTheTree
<1>7. (Tree(template, nodes[1].path[1]))' = tree
  BY <1>1, <1>6 DEF Tree
<1> HIDE DEF node
<1>8. node \in tree /\ Seen \subseteq tree /\ node \notin Seen /\ IsInjective(nodes)
  BY <1>2, <1>3 DEF OwesTheTree
<1>9. IsFiniteSet(tree) /\ Cardinality(tree) \in Nat
  BY TreeHere, FS_CardinalityType
<1> HIDE DEF tree
<1>10. Cardinality(tree) >= Len(nodes) + 1
  <2>1. IsFiniteSet(Seen) /\ Cardinality(Seen) = Len(nodes)
    BY <1>8, MembersAreCounted DEF WalkInv, Seen
  <2>2. Cardinality(Seen \cup {node}) = Len(nodes) + 1
    BY <1>8, <2>1, FS_AddElement
  <2>3. Seen \cup {node} \in SUBSET tree
    BY <1>8
  <2>4. Cardinality(Seen \cup {node}) <= Cardinality(tree)
    BY <1>9, <2>3, FS_Subset
  <2> QED BY <1>4, <1>9, <2>2, <2>4
<1>11. \/ Cardinality(tree) > limit.nodes
       \/ \E n \in tree : Depth(n) > limit.depth
  <2>1. CASE Len(nodes) + 1 > limit.nodes
    BY <1>4, <1>9, <1>10, <2>1
  <2>2. CASE Depth(node) > limit.depth
    BY <1>8, <2>2
  <2> QED BY <1>1, <2>1, <2>2 DEF Exceeds
<1> QED BY <1>1, <1>7, <1>11 DEF QuietExplosionIsExact, Depth

LEMMA QuietStep ==
    ASSUME GraphInv, WalkInv, QuietInv, [Next]_vars
    PROVE  QuietInv'
<1>1. CASE \E p \in Parts : BeginPreview(p) \/ BeginMaterialize(p)
  BY <1>1, QuietBegin DEF BeginPreview, BeginMaterialize
<1>2. CASE Visit
  BY <1>2, QuietVisit, QuietLimit
<1>3. CASE Expand
  BY <1>3, QuietExpand
<1>4. CASE RefuseObsolete
  <2>1. /\ step = "visit" /\ todo = <<>> /\ step' = "return" /\ outcome' = "obsolete"
        /\ \E p \in Parts : status[p] = "OBSOLETE"
        /\ UNCHANGED <<template, obsolete, limit, nodes, edits>>
    BY <1>4 DEF RefuseObsolete, End, graphVars
  <2> QED BY <2>1, QuietAnswer
<1>5. CASE AnswerPreview \/ Materialize
  <2>1. /\ step = "visit" /\ todo = <<>> /\ step' = "return"
        /\ outcome' \in {"ok", "error"}
        /\ \A p \in Parts : status[p] # "OBSOLETE"
        /\ UNCHANGED <<template, obsolete, limit, nodes, edits>>
    BY <1>5 DEF AnswerPreview, Materialize, Complete, End, graphVars
  <2> QED BY <2>1, QuietAnswer
<1>6. CASE Return
  <2>1. step' = "idle"
    BY <1>6 DEF Return
  <2> QED BY <2>1 DEF QuietInv, QuietExplosionIsExact
<1>7. CASE (\E p \in Parts : SetStatus(p)) \/ Edit
  <2>1. step' = step /\ step # "return" /\ (step = "idle" \/ edits' = edits + 1)
    BY <1>7 DEF SetStatus, Edit, CountEdit, walkVars
  <2>2. edits \in Nat
    BY DEF WalkInv
  <2>3. QuietExplosionIsExact'
    BY <2>1 DEF QuietExplosionIsExact
  <2>4. ~(step' \in {"visit", "expand"} /\ edits' = 0)
    BY <2>1, <2>2
  <2> QED BY <2>3, <2>4 DEF QuietInv
<1>8. CASE UNCHANGED vars
  <2>1. UNCHANGED <<template, obsolete, limit, step, nodes, todo, status, outcome, edits>>
    BY <1>8 DEF vars, walkVars, graphVars
  <2>2. QuietExplosionIsExact'
    <3>1. Tree(template, nodes[1].path[1])' = Tree(template, nodes[1].path[1])
      BY <2>1 DEF Tree
    <3>2. CASE step = "return" /\ edits = 0
      <4>1. /\ {n \in Tree(template, nodes[1].path[1]) : Part(n) \in obsolete}'
                 = {n \in Tree(template, nodes[1].path[1]) : Part(n) \in obsolete}
            /\ (\E n \in Tree(template, nodes[1].path[1]) : Depth(n) > limit.depth)'
                 <=> \E n \in Tree(template, nodes[1].path[1]) : Depth(n) > limit.depth
        BY <2>1, <3>1 DEF Part, Depth
      <4> QED BY <2>1, <3>1, <3>2, <4>1 DEF QuietInv, QuietExplosionIsExact
    <3> QED BY <2>1, <3>2 DEF QuietExplosionIsExact
  <2>3. StatusesRead' <=> StatusesRead
    BY <2>1 DEF StatusesRead, Seen, Part
  <2>4. \A root \in Parts : OwesTheTree(root)' <=> OwesTheTree(root)
    BY <2>1 DEF OwesTheTree, Seen, Ahead, Expanded, Tree, Leads, Under, RootNode, Part
  <2> QED BY <2>1, <2>2, <2>3, <2>4 DEF QuietInv
<1> QED BY <1>1, <1>2, <1>3, <1>4, <1>5, <1>6, <1>7, <1>8 DEF Next

(* An expansion that no commit disturbed answers with exactly the tree     *)
(* that the template promises, each node once, and refuses only what that  *)
(* tree has: too many nodes, too deep a path, an OBSOLETE part (explode,   *)
(* _recurse, and the handlers that call them), for every template of any   *)
(* set of parts and every setting.                                         *)
THEOREM ExpandsTheWholeTree == Spec => []QuietExplosionIsExact
<1>1. Init => GraphInv /\ WalkInv /\ QuietInv
  BY GraphStart, WalkStart DEF Init, QuietInv, QuietExplosionIsExact
<1>2. GraphInv /\ WalkInv /\ QuietInv /\ [Next]_vars
        => (GraphInv /\ WalkInv /\ QuietInv)'
  BY GraphKept, WalkStep, QuietStep
<1>3. QuietInv => QuietExplosionIsExact
  BY DEF QuietInv
<1> QED BY <1>1, <1>2, <1>3, PTL DEF Spec
=============================================================================
