------------------------ MODULE VersionEditorProofs ------------------------
(***************************************************************************)
(* Theorems about VersionEditor, for every number of rows and versions.    *)
(*                                                                         *)
(* What is held up was checked against rows that others may have changed   *)
(* since.  The invariants say what is left of each check: enough for its   *)
(* commit, as long as what would undo it waits.                            *)
(***************************************************************************)
EXTENDS VersionEditor, FiniteSetTheorems, TLAPS

-----------------------------------------------------------------------------
(* Induction over numbers, and what a recursive function is                *)

LEMMA NatSetInduction ==
  ASSUME NEW T, 0 \in T, \A n \in Nat : n \in T => n + 1 \in T
  PROVE  Nat \subseteq T
<1> DEFINE R == OpToRel(<, Nat)
           B == Nat \ T
<1>1. SUFFICES ASSUME B # {} PROVE FALSE
  OBVIOUS
<1>2. IsWellFoundedOn(R, Nat)
  BY NatLessThanWellFounded, Zenon
<1>3. PICK x \in B : \A y \in B : ~(<<y, x>> \in R)
  <2> HIDE DEF R
  <2> QED BY <1>1, <1>2, WFMin, Zenon
<1>4. x # 0 /\ x \in Nat
  OBVIOUS
<1>5. x - 1 \in B
  BY <1>4
<1>6. <<x - 1, x>> \in R
  BY <1>4 DEF OpToRel
<1> QED BY <1>3, <1>5, <1>6

LEMMA Iteration ==
    ASSUME NEW S, NEW base \in S, NEW step \in [S -> S]
    PROVE  \E f \in [Nat -> S] :
              f = [n \in Nat |-> IF n = 0 THEN base ELSE step[f[n - 1]]]
<1> DEFINE Prefixes(n) == {g \in [0..n -> S] :
                /\ g[0] = base
                /\ \A k \in Nat : k + 1 \in 0..n => g[k + 1] = step[g[k]]}
           T == {n \in Nat : Prefixes(n) # {}}
           f == [n \in Nat |-> (CHOOSE g \in Prefixes(n) : TRUE)[n]]
<1>1. Nat \subseteq T
  <2>1. [k \in 0..0 |-> base] \in Prefixes(0)
    OBVIOUS
  <2>2. ASSUME NEW n \in Nat, n \in T PROVE n + 1 \in T
    <3>1. PICK g \in Prefixes(n) : TRUE
      BY <2>2
    <3>2. [k \in 0..(n + 1) |-> IF k = n + 1 THEN step[g[n]] ELSE g[k]] \in Prefixes(n + 1)
      BY <3>1
    <3> HIDE DEF Prefixes
    <3> QED BY <3>2
  <2>3. 0 \in T
    BY <2>1
  <2> HIDE DEF T
  <2> QED BY <2>2, <2>3, NatSetInduction, Zenon
<1>2. ASSUME NEW n \in Nat, NEW g \in Prefixes(n), NEW h \in Prefixes(n)
      PROVE  g[n] = h[n]
  <2> DEFINE U == {k \in Nat : k \in 0..n => g[k] = h[k]}
  <2>1. 0 \in U
    OBVIOUS
  <2>2. ASSUME NEW k \in Nat, k \in U PROVE k + 1 \in U
    BY <2>2
  <2>3. Nat \subseteq U
    <3> HIDE DEF U
    <3> QED BY <2>1, <2>2, NatSetInduction, Zenon
  <2> QED BY <2>3
<1>3. ASSUME NEW n \in Nat PROVE (CHOOSE g \in Prefixes(n) : TRUE) \in Prefixes(n)
  BY <1>1
<1>4. ASSUME NEW n \in Nat PROVE f[n] \in S
  <2> DEFINE g == CHOOSE g \in Prefixes(n) : TRUE
  <2>1. g \in [0..n -> S]
    BY <1>3
  <2>2. f[n] = g[n]
    OBVIOUS
  <2> HIDE DEF f, g
  <2> QED BY <2>1, <2>2
<1>5. f[0] = base
  BY <1>3
<1>6. ASSUME NEW n \in Nat PROVE f[n + 1] = step[f[n]]
  <2> DEFINE g == CHOOSE g \in Prefixes(n + 1) : TRUE
             h == CHOOSE x \in Prefixes(n) : TRUE
             r == [k \in 0..n |-> g[k]]
  <2>1. g \in Prefixes(n + 1) /\ h \in Prefixes(n)
    <3>1. n + 1 \in Nat
      OBVIOUS
    <3> HIDE DEF Prefixes
    <3> QED BY <3>1, <1>3, Zenon
  <2>2. r \in Prefixes(n)
    <3> HIDE DEF g, h
    <3> QED BY <2>1
  <2>3. r[n] = h[n]
    <3> HIDE DEF r, h, g, Prefixes
    <3> QED BY <1>2, <2>1, <2>2
  <2>4. g[n + 1] = step[g[n]]
    <3> HIDE DEF g, h
    <3> QED BY <2>1
  <2>5. f[n + 1] = g[n + 1] /\ f[n] = h[n]
    <3>1. n + 1 \in Nat
      OBVIOUS
    <3> HIDE DEF Prefixes
    <3> QED BY <3>1, Zenon
  <2> HIDE DEF f, g, h, Prefixes
  <2> QED BY <2>3, <2>4, <2>5
<1>7. f = [n \in Nat |-> IF n = 0 THEN base ELSE step[f[n - 1]]]
  <2>1. ASSUME NEW n \in Nat PROVE f[n] = IF n = 0 THEN base ELSE step[f[n - 1]]
    <3>1. CASE n = 0
      BY <3>1, <1>5
    <3>2. CASE n # 0
      <4>1. n - 1 \in Nat /\ (n - 1) + 1 = n
        BY <3>2
      <4> HIDE DEF f
      <4> QED BY <3>2, <4>1, <1>6
    <3> QED BY <3>1, <3>2
  <2>2. f = [n \in Nat |-> f[n]]
    OBVIOUS
  <2> HIDE DEF f
  <2> QED BY <2>1, <2>2
<1>8. f \in [Nat -> S]
  BY <1>4
<1> HIDE DEF f
<1> QED BY <1>7, <1>8
-----------------------------------------------------------------------------
(* The walk up the parents                                                 *)

(* Rows of items whose parents are items, if they have one.                *)
Hanging(d) ==
    \A i \in DOMAIN d.items : d.items[i].parent \in DOMAIN d.items \cup {None}

(* Holds the parents of the items in it.                                   *)
Upward(d, S) ==
    \A i \in S : d.items[i].parent # None => d.items[i].parent \in S

(* What is above an item is what n steps of the walk come to, for the      *)
(* number n of items there are.                                            *)
LEMMA WalkIs ==
    ASSUME NEW d, Hanging(d), NEW item \in DOMAIN d.items
    PROVE  \E up \in [Nat -> SUBSET DOMAIN d.items] :
              /\ up[0] = {item}
              /\ \A n \in Nat :
                    up[n + 1] = up[n] \cup
                        ({d.items[i].parent : i \in up[n]} \ {None})
              /\ Above(d, item) = up[Cardinality(DOMAIN d.items)]
<1> DEFINE S == SUBSET DOMAIN d.items
           step == [X \in S |-> X \cup ({d.items[i].parent : i \in X} \ {None})]
           IsUp(up) == up = [n \in Nat |->
                              IF n = 0 THEN {item}
                              ELSE up[n - 1] \cup
                                  ({d.items[i].parent : i \in up[n - 1]} \ {None})]
           up == CHOOSE up : IsUp(up)
<1>1. step \in [S -> S]
  BY DEF Hanging
<1>2. PICK f \in [Nat -> S] :
            f = [n \in Nat |-> IF n = 0 THEN {item} ELSE step[f[n - 1]]]
  <2>1. {item} \in S
    OBVIOUS
  <2> HIDE DEF S, step
  <2> QED BY <1>1, <2>1, Iteration
<1>3. IsUp(f)
  <2>1. ASSUME NEW n \in Nat
        PROVE  f[n] = IF n = 0 THEN {item}
                      ELSE f[n - 1] \cup
                              ({d.items[i].parent : i \in f[n - 1]} \ {None})
    <3>1. CASE n = 0
      BY <1>2, <3>1
    <3>2. CASE n # 0
      <4>1. f[n] = step[f[n - 1]] /\ f[n - 1] \in S
        <5> HIDE DEF step, S
        <5>1. f[n] = IF n = 0 THEN {item} ELSE step[f[n - 1]]
          BY <1>2, Zenon
        <5>2. n - 1 \in Nat
          BY <3>2
        <5>3. f[n - 1] \in S
          BY <5>2, Zenon
        <5> QED BY <3>2, <5>1, <5>3, Zenon
      <4>2. step[f[n - 1]] =
                f[n - 1] \cup ({d.items[i].parent : i \in f[n - 1]} \ {None})
        <5>1. f[n - 1] \in S
          BY <4>1
        <5> QED BY <5>1, Zenon
      <4> QED BY <3>2, <4>1, <4>2, Zenon
    <3> QED BY <3>1, <3>2
  <2>2. f = [n \in Nat |-> f[n]]
    OBVIOUS
  <2> QED BY <2>1, <2>2
<1>4. IsUp(up)
  <2> HIDE DEF IsUp
  <2> QED BY <1>3
<1>5. Above(d, item) = up[Cardinality(DOMAIN d.items)]
  BY DEF Above
<1>6. up[0] = {item}
  <2> HIDE DEF up
  <2> QED BY <1>4
<1>7. ASSUME NEW n \in Nat
      PROVE  up[n + 1] = up[n] \cup ({d.items[i].parent : i \in up[n]} \ {None})
  <2> HIDE DEF up
  <2> QED BY <1>4
<1>8. up \in [Nat -> S]
  <2> DEFINE T == {n \in Nat : up[n] \in S}
  <2> HIDE DEF up
  <2>1. 0 \in T
    BY <1>6
  <2>2. \A n \in Nat : n \in T => n + 1 \in T
    BY <1>7 DEF Hanging
  <2>3. Nat \subseteq T
    <3> HIDE DEF T
    <3> QED BY <2>1, <2>2, NatSetInduction
  <2>4. up = [n \in Nat |-> up[n]]
    BY <1>4
  <2> QED BY <2>3, <2>4
<1> HIDE DEF up
<1> QED BY <1>5, <1>6, <1>7, <1>8

LEMMA AboveSelf ==
    ASSUME NEW d, Hanging(d), NEW item \in DOMAIN d.items,
           IsFiniteSet(DOMAIN d.items)
    PROVE  item \in Above(d, item) /\ Above(d, item) \subseteq DOMAIN d.items
<1>1. PICK up \in [Nat -> SUBSET DOMAIN d.items] :
            /\ up[0] = {item}
            /\ \A n \in Nat :
                  up[n + 1] = up[n] \cup
                      ({d.items[i].parent : i \in up[n]} \ {None})
            /\ Above(d, item) = up[Cardinality(DOMAIN d.items)]
  BY WalkIs
<1> DEFINE T == {n \in Nat : item \in up[n]}
<1>2. 0 \in T
  BY <1>1
<1>3. \A n \in Nat : n \in T => n + 1 \in T
  BY <1>1
<1>4. Nat \subseteq T
  <2> HIDE DEF T
  <2> QED BY <1>2, <1>3, NatSetInduction
<1>5. Cardinality(DOMAIN d.items) \in Nat
  BY FS_CardinalityType
<1> QED BY <1>1, <1>4, <1>5

(* Nothing is above an item but what every such set that holds it holds.   *)
LEMMA AboveLeast ==
    ASSUME NEW d, Hanging(d), NEW item \in DOMAIN d.items,
           IsFiniteSet(DOMAIN d.items), NEW S, item \in S, Upward(d, S)
    PROVE  Above(d, item) \subseteq S
<1>1. PICK up \in [Nat -> SUBSET DOMAIN d.items] :
            /\ up[0] = {item}
            /\ \A n \in Nat :
                  up[n + 1] = up[n] \cup
                      ({d.items[i].parent : i \in up[n]} \ {None})
            /\ Above(d, item) = up[Cardinality(DOMAIN d.items)]
  BY WalkIs
<1> DEFINE T == {n \in Nat : up[n] \subseteq S}
<1>2. 0 \in T
  BY <1>1
<1>3. \A n \in Nat : n \in T => n + 1 \in T
  BY <1>1 DEF Upward
<1>4. Nat \subseteq T
  <2> HIDE DEF T
  <2> QED BY <1>2, <1>3, NatSetInduction
<1>5. Cardinality(DOMAIN d.items) \in Nat
  BY FS_CardinalityType
<1> QED BY <1>1, <1>4, <1>5

(* As long as the walk finds new items, it has one more with every step:   *)
(* after as many steps as there are items it finds none.                   *)
LEMMA AboveUpward ==
    ASSUME NEW d, Hanging(d), NEW item \in DOMAIN d.items,
           IsFiniteSet(DOMAIN d.items)
    PROVE  Upward(d, Above(d, item))
<1> DEFINE D == DOMAIN d.items
           N == Cardinality(D)
<1>1. PICK up \in [Nat -> SUBSET D] :
            /\ up[0] = {item}
            /\ \A n \in Nat :
                  up[n + 1] = up[n] \cup
                      ({d.items[i].parent : i \in up[n]} \ {None})
            /\ Above(d, item) = up[N]
  BY WalkIs
<1>2. N \in Nat
  BY FS_CardinalityType
<1>3. ASSUME NEW n \in Nat
      PROVE  /\ IsFiniteSet(up[n])
             /\ Cardinality(up[n]) \in Nat
             /\ Cardinality(up[n]) <= N
  BY FS_Subset, FS_CardinalityType
<1> DEFINE Grows(n) == \/ Upward(d, up[n])
                       \/ Cardinality(up[n]) >= n + 1
           T == {n \in Nat : Grows(n)}
<1>4. 0 \in T
  <2>1. Cardinality(up[0]) = 1
    BY <1>1, FS_Singleton
  <2> QED BY <2>1
<1>5. ASSUME NEW n \in Nat, n \in T PROVE n + 1 \in T
  <2>1. CASE Upward(d, up[n])
    <3>1. up[n + 1] = up[n]
      <4>1. ({d.items[i].parent : i \in up[n]} \ {None}) \subseteq up[n]
        BY <2>1 DEF Upward
      <4> QED BY <1>1, <4>1, Zenon
    <3> QED BY <2>1, <3>1
  <2>2. CASE ~Upward(d, up[n]) /\ Cardinality(up[n]) >= n + 1
    <3>1. up[n] \subseteq up[n + 1] /\ up[n] # up[n + 1]
      BY <1>1, <2>2 DEF Upward
    <3>2. Cardinality(up[n]) # Cardinality(up[n + 1])
          /\ Cardinality(up[n]) <= Cardinality(up[n + 1])
      BY <1>3, <3>1, FS_Subset
    <3>3. Cardinality(up[n + 1]) >= (n + 1) + 1
      BY <1>3, <2>2, <3>2
    <3> QED BY <3>3
  <2> QED BY <1>5, <2>1, <2>2
<1>6. Nat \subseteq T
  <2> HIDE DEF T
  <2> QED BY <1>4, <1>5, NatSetInduction
<1>7. ~(Cardinality(up[N]) >= N + 1)
  BY <1>2, <1>3
<1> QED BY <1>1, <1>2, <1>6, <1>7
-----------------------------------------------------------------------------
(* Rows, and what may be written                                           *)

SomeModifier == Modifiers \cup {None}

FieldRows == [version : DOMAIN versions, free : BOOLEAN, number : BOOLEAN,
              modifier : SomeModifier]

ValueRows == [field : 1..last["fields"], text : Texts, modifier : SomeModifier]

RuleRows ==
    [version : DOMAIN versions, type : Types, target : 1..last["fields"],
     option : 1..last["values"] \cup {None}, set : Texts \cup {None},
     reads : Criteria]

ItemRows ==
    [version : DOMAIN versions, commercial : BOOLEAN,
     parent : 1..last["items"] \cup {None},
     quantity : 1..last["fields"] \cup {None}]

UseRows ==
    [version : DOMAIN versions, item : 1..last["items"], reads : Criteria]

RowsOf(t) ==
    CASE t = "fields" -> FieldRows
      [] t = "values" -> ValueRows
      [] t = "rules"  -> RuleRows
      [] t = "items"  -> ItemRows
      [] t = "uses"   -> UseRows

TypeOK ==
    /\ \E k \in Nat : versions \in [1..k -> Statuses]
    /\ last \in [Tables -> Nat]
    /\ db \in [Tables -> {db[t] : t \in Tables}]
    /\ \A t \in Tables : /\ db[t] \in [DOMAIN db[t] -> RowsOf(t)]
                         /\ DOMAIN db[t] \subseteq 1..last[t]

(* Some columns of a row.                                                  *)
PartOf(set, rows) ==
    \E row \in rows : /\ DOMAIN set \subseteq DOMAIN row
                      /\ \A c \in DOMAIN set : set[c] = row[c]

KindOf(op, t) ==
    CASE op = "insert" ->
           (CASE t = "fields" -> "create field" [] t = "values" -> "create value"
              [] t = "rules" -> "create rule" [] t = "items" -> "create item"
              [] t = "uses" -> "create use")
      [] op = "update" ->
           (CASE t = "fields" -> "update field" [] t = "values" -> "update value"
              [] t = "rules" -> "update rule" [] t = "items" -> "update item"
              [] t = "uses" -> "update use")
      [] op = "delete" ->
           (CASE t = "fields" -> "delete field" [] t = "values" -> "delete value"
              [] t = "rules" -> "delete rule" [] t = "items" -> "delete item"
              [] t = "uses" -> "delete use")

Writes(w, op) ==
    /\ w.op = op
    /\ w.table \in Tables
    /\ w.kind = KindOf(op, w.table)

IsInsert(w) == Writes(w, "insert") /\ w.row \in RowsOf(w.table)

IsUpdate(w) ==
    /\ Writes(w, "update")
    /\ w.id \in 1..last[w.table]
    /\ PartOf(w.set, RowsOf(w.table))

IsDelete(w) == Writes(w, "delete") /\ w.id \in 1..last[w.table]

IsPublish(w) ==
    w.op = "publish" /\ w.kind = "publish" /\ w.id \in DOMAIN versions

Written(w) == IsInsert(w) \/ IsUpdate(w) \/ IsDelete(w) \/ IsPublish(w)

-----------------------------------------------------------------------------
(* What a commit does                                                      *)

Fails ==
    /\ UNCHANGED <<versions, db>>
    /\ last' \in [Tables -> Nat]
    /\ \A t \in Tables : last[t] <= last'[t]

Adds(t, row) ==
    /\ UNCHANGED versions
    /\ last' = [last EXCEPT ![t] = @ + 1]
    /\ db' = [db EXCEPT ![t] = With(@, last[t] + 1, row)]
    /\ RefersToRows(db')

Over(row, set) ==
    [c \in DOMAIN row |-> IF c \in DOMAIN set THEN set[c] ELSE row[c]]

Changes(t, id, set) ==
    /\ UNCHANGED <<versions, last>>
    /\ id \in DOMAIN db[t]
    /\ db' = [db EXCEPT ![t][id] = Over(@, set)]
    /\ RefersToRows(db')

DropsField(f) ==
    /\ UNCHANGED <<versions, last>>
    /\ db' = [db EXCEPT
                !.fields = Without(@, {f}),
                !.values = Without(@, ValuesOf(db, f)),
                !.items = [i \in DOMAIN @ |->
                              IF @[i].quantity = f
                              THEN [@[i] EXCEPT !.quantity = None] ELSE @[i]]]
    /\ RefersToRows(db')

DropsItem(item) ==
    /\ UNCHANGED <<versions, last>>
    /\ item \in DOMAIN db.items
    /\ db' = [db EXCEPT
                !.items = Without(@, Below(db, item)),
                !.uses = Without(@, {i \in DOMAIN @ :
                                        @[i].item \in Below(db, item)})]
    /\ RefersToRows(db')

Drops(t, id) ==
    /\ UNCHANGED <<versions, last>>
    /\ db' = [db EXCEPT ![t] = Without(@, {id})]
    /\ RefersToRows(db')

LEMMA CommitIs ==
    ASSUME TypeOK, NEW w, Written(w), Commit(w)
    PROVE  \/ Fails
           \/ IsInsert(w) /\ Adds(w.table, w.row)
           \/ IsUpdate(w) /\ Changes(w.table, w.id, w.set)
           \/ IsDelete(w) /\ w.table = "fields" /\ DropsField(w.id)
           \/ IsDelete(w) /\ w.table = "items" /\ DropsItem(w.id)
           \/ IsDelete(w) /\ w.table # "fields" /\ Drops(w.table, w.id)
           \/ IsPublish(w) /\ CommitPublish(w.id)
<1>1. CASE IsInsert(w)
  <2>1. CommitInsert(w)
    BY <1>1 DEF Commit, IsInsert, Writes
  <2>2. w.table \in Tables
    BY <1>1 DEF IsInsert, Writes
  <2>3. CASE last[w.table] < Max[w.table]
    <3>1. /\ UNCHANGED versions
          /\ last' = [last EXCEPT ![w.table] = @ + 1]
          /\ last'[w.table] = last[w.table] + 1
      BY <2>1, <2>2, <2>3 DEF CommitInsert, TypeOK
    <3>2. Write(Inserted(w, last[w.table] + 1))
      BY <2>1, <2>3, <3>1 DEF CommitInsert
    <3>3. last' \in [Tables -> Nat] /\ \A t \in Tables : last[t] <= last'[t]
      <4>1. last \in [Tables -> Nat]
        BY DEF TypeOK
      <4> HIDE DEF Tables
      <4> QED BY <3>1, <2>2, <4>1
    <3>4. CASE RefersToRows(Inserted(w, last[w.table] + 1))
      <4>1. db' = Inserted(w, last[w.table] + 1)
        BY <3>2, <3>4 DEF Write
      <4> QED BY <1>1, <3>1, <3>4, <4>1 DEF Adds, Inserted
    <3>5. CASE ~RefersToRows(Inserted(w, last[w.table] + 1))
      <4>1. db' = db
        BY <3>2, <3>5 DEF Write
      <4> QED BY <3>1, <3>3, <4>1 DEF Fails
    <3> QED BY <3>4, <3>5
  <2>4. CASE ~(last[w.table] < Max[w.table])
    BY <2>1, <2>4 DEF CommitInsert, Fails, TypeOK
  <2> QED BY <2>3, <2>4
<1>2. CASE IsUpdate(w)
  <2>1. CommitUpdate(w)
    BY <1>2 DEF Commit, IsUpdate, Writes
  <2>2. CASE w.id \in DOMAIN db[w.table] /\ RefersToRows(Updated(w))
    <3>1. db' = Updated(w) /\ UNCHANGED <<versions, last>>
      BY <2>1, <2>2 DEF CommitUpdate, Write
    <3>2. Updated(w) = [db EXCEPT ![w.table][w.id] = Over(@, w.set)]
      BY DEF Updated, Over
    <3> QED BY <1>2, <2>2, <3>1, <3>2 DEF Changes
  <2>3. CASE ~(w.id \in DOMAIN db[w.table] /\ RefersToRows(Updated(w)))
    <3>1. db' = db /\ UNCHANGED <<versions, last>>
      BY <2>1, <2>3 DEF CommitUpdate, Write
    <3> QED BY <3>1 DEF Fails, TypeOK
  <2> QED BY <2>2, <2>3
<1>3. CASE IsDelete(w)
  <2>1. CommitDelete(w)
    BY <1>3 DEF Commit, IsDelete, Writes
  <2>2. CASE ~RefersToRows(Deleted(w))
    BY <2>1, <2>2 DEF CommitDelete, Write, Fails, TypeOK
  <2>3. CASE RefersToRows(Deleted(w))
    <3>1. db' = Deleted(w) /\ UNCHANGED <<versions, last>>
      BY <2>1, <2>3 DEF CommitDelete, Write
    <3>2. CASE w.table = "fields"
      BY <1>3, <2>3, <3>1, <3>2 DEF Deleted, DropsField
    <3>3. CASE w.table = "items" /\ w.id \in DOMAIN db.items
      BY <1>3, <2>3, <3>1, <3>3 DEF Deleted, DropsItem
    <3>4. CASE w.table # "fields" /\ ~(w.table = "items" /\ w.id \in DOMAIN db.items)
      BY <1>3, <2>3, <3>1, <3>4 DEF Deleted, Drops
    <3> QED BY <3>2, <3>3, <3>4
  <2> QED BY <2>2, <2>3
<1>4. CASE IsPublish(w)
  BY <1>4 DEF Commit, IsPublish
<1> QED BY <1>1, <1>2, <1>3, <1>4 DEF Written

(* Versions, columns and ids are only added.                               *)
LEMMA RowsGrow ==
    ASSUME TypeOK, DOMAIN versions \subseteq DOMAIN versions',
           last' \in [Tables -> Nat], \A t \in Tables : last[t] <= last'[t],
           NEW t \in Tables
    PROVE  RowsOf(t) \subseteq RowsOf(t)'
<1>1. \A u \in Tables : 1..last[u] \subseteq 1..last'[u]
  BY DEF TypeOK
<1>2. /\ 1..last["fields"] \subseteq 1..last'["fields"]
      /\ 1..last["values"] \subseteq 1..last'["values"]
      /\ 1..last["items"] \subseteq 1..last'["items"]
  BY <1>1 DEF Tables
<1>3. Criteria \subseteq Criteria'
  BY <1>2 DEF Criteria
<1>4. CASE t = "fields"
  BY <1>4 DEF RowsOf, FieldRows, SomeModifier
<1>5. CASE t = "values"
  BY <1>2, <1>5 DEF RowsOf, ValueRows, SomeModifier
<1>6. CASE t = "rules"
  <2>1. RuleRows \subseteq RuleRows'
    <3> HIDE DEF Criteria
    <3> QED BY <1>2, <1>3 DEF RuleRows
  <2> QED BY <1>6, <2>1 DEF RowsOf
<1>7. CASE t = "items"
  BY <1>2, <1>7 DEF RowsOf, ItemRows
<1>8. CASE t = "uses"
  <2>1. UseRows \subseteq UseRows'
    <3> HIDE DEF Criteria
    <3> QED BY <1>2, <1>3 DEF UseRows
  <2> QED BY <1>8, <2>1 DEF RowsOf
<1> QED BY <1>4, <1>5, <1>6, <1>7, <1>8 DEF Tables

(* The rows after each kind of commit.                                     *)
LEMMA AfterAdds ==
    ASSUME TypeOK, NEW t \in Tables, NEW row \in RowsOf(t), Adds(t, row)
    PROVE  /\ TypeOK'
           /\ last[t] + 1 \notin DOMAIN db[t]
           /\ DOMAIN db'[t] = DOMAIN db[t] \cup {last[t] + 1}
           /\ db'[t][last[t] + 1] = row
           /\ \A i \in DOMAIN db[t] : db'[t][i] = db[t][i]
           /\ \A u \in Tables \ {t} : db'[u] = db[u]
<1>1. last \in [Tables -> Nat] /\ db \in [Tables -> {db[u] : u \in Tables}]
  BY DEF TypeOK
<1>2. /\ last' \in [Tables -> Nat]
      /\ last'[t] = last[t] + 1
      /\ \A u \in Tables \ {t} : last'[u] = last[u]
  <2> HIDE DEF Tables
  <2> QED BY <1>1 DEF Adds
<1>3. /\ db'[t] = With(db[t], last[t] + 1, row)
      /\ \A u \in Tables \ {t} : db'[u] = db[u]
      /\ DOMAIN db' = Tables /\ db' = [u \in Tables |-> db'[u]]
  <2> HIDE DEF Tables
  <2> QED BY <1>1 DEF Adds
<1>4. /\ DOMAIN db'[t] = DOMAIN db[t] \cup {last[t] + 1}
      /\ db'[t] = [i \in DOMAIN db'[t] |-> db'[t][i]]
      /\ db'[t][last[t] + 1] = row
      /\ last[t] + 1 \notin DOMAIN db[t]
      /\ \A i \in DOMAIN db[t] : db'[t][i] = db[t][i]
  <2>1. last[t] + 1 \notin DOMAIN db[t]
    BY DEF TypeOK
  <2> HIDE DEF Tables
  <2> QED BY <1>3, <2>1 DEF With
<1>5. \A u \in Tables : RowsOf(u) \subseteq RowsOf(u)'
  <2>1. \A u \in Tables : last[u] <= last'[u]
    <3> HIDE DEF Tables
    <3> QED BY <1>1, <1>2
  <2>2. DOMAIN versions \subseteq DOMAIN versions'
    BY DEF Adds
  <2> QED BY <1>2, <2>1, <2>2, RowsGrow
<1>6. ASSUME NEW u \in Tables
      PROVE  /\ db'[u] \in [DOMAIN db'[u] -> RowsOf(u)']
             /\ DOMAIN db'[u] \subseteq 1..last'[u]
  <2>1. db[u] \in [DOMAIN db[u] -> RowsOf(u)] /\ DOMAIN db[u] \subseteq 1..last[u]
    BY DEF TypeOK
  <2> HIDE DEF Tables
  <2>2. CASE u = t
    <3>1. \A i \in DOMAIN db'[t] : db'[t][i] \in RowsOf(t)'
      BY <1>4, <1>5, <2>1, <2>2
    <3>2. DOMAIN db'[t] \subseteq 1..last'[t]
      BY <1>1, <1>2, <1>4, <2>1, <2>2
    <3> QED BY <1>4, <2>2, <3>1, <3>2
  <2>3. CASE u # t
    BY <1>2, <1>3, <1>5, <2>1, <2>3
  <2> QED BY <2>2, <2>3
<1>7. \E k \in Nat : versions' \in [1..k -> Statuses]
  BY DEF TypeOK, Adds
<1>8. TypeOK'
  <2> HIDE DEF Tables
  <2> QED BY <1>2, <1>3, <1>6, <1>7 DEF TypeOK
<1> QED BY <1>3, <1>4, <1>8

LEMMA OverIs ==
    ASSUME NEW t \in Tables, NEW old \in RowsOf(t), NEW set,
           PartOf(set, RowsOf(t))
    PROVE  Over(old, set) \in RowsOf(t)
<1>1. PICK row \in RowsOf(t) : /\ DOMAIN set \subseteq DOMAIN row
                               /\ \A c \in DOMAIN set : set[c] = row[c]
  BY DEF PartOf
<1>2. CASE t = "fields"
  BY <1>1, <1>2 DEF RowsOf, FieldRows, Over
<1>3. CASE t = "values"
  BY <1>1, <1>3 DEF RowsOf, ValueRows, Over
<1>4. CASE t = "rules"
  <2> HIDE DEF Criteria
  <2> QED BY <1>1, <1>4 DEF RowsOf, RuleRows, Over
<1>5. CASE t = "items"
  BY <1>1, <1>5 DEF RowsOf, ItemRows, Over
<1>6. CASE t = "uses"
  <2> HIDE DEF Criteria
  <2> QED BY <1>1, <1>6 DEF RowsOf, UseRows, Over
<1> QED BY <1>2, <1>3, <1>4, <1>5, <1>6 DEF Tables

LEMMA AfterChanges ==
    ASSUME TypeOK, NEW t \in Tables, NEW id, NEW set,
           PartOf(set, RowsOf(t)), Changes(t, id, set)
    PROVE  /\ TypeOK'
           /\ \A u \in Tables : DOMAIN db'[u] = DOMAIN db[u]
           /\ db'[t][id] = Over(db[t][id], set)
           /\ \A i \in DOMAIN db[t] \ {id} : db'[t][i] = db[t][i]
           /\ \A u \in Tables \ {t} : db'[u] = db[u]
<1>1. last \in [Tables -> Nat] /\ db \in [Tables -> {db[u] : u \in Tables}]
  BY DEF TypeOK
<1>2. \A u \in Tables : /\ db[u] \in [DOMAIN db[u] -> RowsOf(u)]
                        /\ DOMAIN db[u] \subseteq 1..last[u]
  BY DEF TypeOK
<1>3. \A u \in Tables : RowsOf(u) \subseteq RowsOf(u)'
  <2>1. \A u \in Tables : last[u] <= last'[u]
    <3> HIDE DEF Tables
    <3> QED BY <1>1 DEF Changes
  <2> QED BY <1>1, <2>1, RowsGrow DEF Changes
<1>4. /\ db'[t] = [db[t] EXCEPT ![id] = Over(@, set)]
      /\ \A u \in Tables \ {t} : db'[u] = db[u]
      /\ DOMAIN db' = Tables /\ db' = [u \in Tables |-> db'[u]]
  <2> HIDE DEF Tables, Over
  <2> QED BY <1>1 DEF Changes
<1>5. Over(db[t][id], set) \in RowsOf(t)
  BY <1>2, OverIs DEF Changes
<1>6. /\ DOMAIN db'[t] = DOMAIN db[t]
      /\ db'[t] = [i \in DOMAIN db'[t] |-> db'[t][i]]
      /\ db'[t][id] = Over(db[t][id], set)
      /\ \A i \in DOMAIN db[t] \ {id} : db'[t][i] = db[t][i]
  <2> HIDE DEF Tables, Over
  <2> QED BY <1>2, <1>4 DEF Changes
<1>7. ASSUME NEW u \in Tables
      PROVE  /\ db'[u] \in [DOMAIN db'[u] -> RowsOf(u)']
             /\ DOMAIN db'[u] \subseteq 1..last'[u]
             /\ DOMAIN db'[u] = DOMAIN db[u]
  <2> HIDE DEF Tables, Over
  <2>1. UNCHANGED last
    BY DEF Changes
  <2>2. CASE u = t
    <3>1. \A i \in DOMAIN db'[t] : db'[t][i] \in RowsOf(t)'
      BY <1>2, <1>3, <1>5, <1>6
    <3> QED BY <1>2, <1>6, <2>1, <2>2, <3>1
  <2>3. CASE u # t
    BY <1>2, <1>3, <1>4, <2>1, <2>3
  <2> QED BY <2>2, <2>3
<1>8. \E k \in Nat : versions' \in [1..k -> Statuses]
  BY DEF TypeOK, Changes
<1>9. TypeOK'
  <2>1. last' \in [Tables -> Nat]
    BY <1>1 DEF Changes
  <2> HIDE DEF Tables
  <2> QED BY <1>4, <1>7, <1>8, <2>1 DEF TypeOK
<1> QED BY <1>4, <1>6, <1>7, <1>9

(* A table that lost rows, or whose rows changed within their type.        *)
Smaller(t) ==
    /\ DOMAIN db'[t] \subseteq DOMAIN db[t]
    /\ db'[t] \in [DOMAIN db'[t] -> RowsOf(t)]

LEMMA AfterSmaller ==
    ASSUME TypeOK, UNCHANGED <<versions, last>>,
           db' = [t \in Tables |-> db'[t]], \A t \in Tables : Smaller(t)
    PROVE  TypeOK'
<1>1. last \in [Tables -> Nat]
  BY DEF TypeOK
<1>2. \A u \in Tables : RowsOf(u) \subseteq RowsOf(u)'
  <2>1. \A u \in Tables : last[u] <= last'[u]
    <3> HIDE DEF Tables
    <3> QED BY <1>1
  <2> QED BY <1>1, <2>1, RowsGrow
<1>3. ASSUME NEW u \in Tables
      PROVE  /\ db'[u] \in [DOMAIN db'[u] -> RowsOf(u)']
             /\ DOMAIN db'[u] \subseteq 1..last'[u]
  <2>1. DOMAIN db[u] \subseteq 1..last[u]
    BY DEF TypeOK
  <2> HIDE DEF Tables
  <2> QED BY <1>2, <2>1 DEF Smaller
<1>4. \E k \in Nat : versions' \in [1..k -> Statuses]
  BY DEF TypeOK
<1> HIDE DEF Tables
<1> QED BY <1>1, <1>3, <1>4 DEF TypeOK

LEMMA TypesOf ==
    ASSUME TypeOK
    PROVE  /\ db.fields \in [DOMAIN db.fields -> FieldRows]
           /\ db.values \in [DOMAIN db.values -> ValueRows]
           /\ db.rules \in [DOMAIN db.rules -> RuleRows]
           /\ db.items \in [DOMAIN db.items -> ItemRows]
           /\ db.uses \in [DOMAIN db.uses -> UseRows]
           /\ \A t \in Tables : DOMAIN db[t] \subseteq 1..last[t]
           /\ db = [t \in Tables |-> db[t]]
           /\ last \in [Tables -> Nat]
  BY DEF TypeOK, Tables, RowsOf

LEMMA AfterDrops ==
    ASSUME TypeOK, NEW t \in Tables, NEW id, Drops(t, id)
    PROVE  /\ TypeOK'
           /\ DOMAIN db'[t] = DOMAIN db[t] \ {id}
           /\ \A i \in DOMAIN db'[t] : db'[t][i] = db[t][i]
           /\ \A u \in Tables \ {t} : db'[u] = db[u]
<1>1. /\ db = [u \in Tables |-> db[u]]
      /\ \A u \in Tables : db[u] \in [DOMAIN db[u] -> RowsOf(u)]
  BY TypesOf DEF TypeOK
<1>2. /\ db' = [u \in Tables |-> db'[u]]
      /\ db'[t] = Without(db[t], {id})
      /\ \A u \in Tables \ {t} : db'[u] = db[u]
  <2> HIDE DEF Tables
  <2> QED BY <1>1 DEF Drops
<1>3. /\ DOMAIN db'[t] = DOMAIN db[t] \ {id}
      /\ db'[t] = [i \in DOMAIN db'[t] |-> db'[t][i]]
      /\ \A i \in DOMAIN db'[t] : db'[t][i] = db[t][i]
  <2> HIDE DEF Tables
  <2> QED BY <1>2 DEF Without
<1>4. \A u \in Tables : Smaller(u)
  <2> HIDE DEF Tables
  <2>1. \A i \in DOMAIN db'[t] : db'[t][i] \in RowsOf(t)
    BY <1>1, <1>3
  <2>2. Smaller(t)
    BY <1>3, <2>1 DEF Smaller
  <2>3. \A u \in Tables \ {t} : Smaller(u)
    BY <1>1, <1>2 DEF Smaller
  <2> QED BY <2>2, <2>3
<1>5. TypeOK'
  <2> HIDE DEF Tables
  <2> QED BY <1>2, <1>4, AfterSmaller DEF Drops
<1> QED BY <1>2, <1>3, <1>5

LEMMA AfterDropsField ==
    ASSUME TypeOK, NEW f, DropsField(f)
    PROVE  /\ TypeOK'
           /\ DOMAIN db'.fields = DOMAIN db.fields \ {f}
           /\ \A i \in DOMAIN db'.fields : db'.fields[i] = db.fields[i]
           /\ DOMAIN db'.values = DOMAIN db.values \ ValuesOf(db, f)
           /\ \A i \in DOMAIN db'.values : db'.values[i] = db.values[i]
           /\ DOMAIN db'.items = DOMAIN db.items
           /\ \A i \in DOMAIN db.items :
                /\ db'.items[i].version = db.items[i].version
                /\ db'.items[i].parent = db.items[i].parent
                /\ db.items[i].quantity = f => db'.items[i] = Uncounted(db.items[i])
                /\ db'.items[i].quantity = IF db.items[i].quantity = f THEN None
                                           ELSE db.items[i].quantity
                /\ db.items[i].quantity # f => db'.items[i] = db.items[i]
           /\ db'.rules = db.rules
           /\ db'.uses = db.uses
<1> DEFINE quits == [i \in DOMAIN db.items |->
                        IF db.items[i].quantity = f
                        THEN [db.items[i] EXCEPT !.quantity = None]
                        ELSE db.items[i]]
<1>1. /\ db' = [u \in Tables |-> db'[u]]
      /\ db'.fields = Without(db.fields, {f})
      /\ db'.values = Without(db.values, ValuesOf(db, f))
      /\ db'.items = quits
      /\ db'.rules = db.rules
      /\ db'.uses = db.uses
  BY TypesOf DEF DropsField, Tables
<1>2. /\ DOMAIN db'.fields = DOMAIN db.fields \ {f}
      /\ db'.fields = [i \in DOMAIN db'.fields |-> db'.fields[i]]
      /\ \A i \in DOMAIN db'.fields : db'.fields[i] = db.fields[i]
  BY <1>1 DEF Without
<1>3. /\ DOMAIN db'.values = DOMAIN db.values \ ValuesOf(db, f)
      /\ db'.values = [i \in DOMAIN db'.values |-> db'.values[i]]
      /\ \A i \in DOMAIN db'.values : db'.values[i] = db.values[i]
  BY <1>1 DEF Without
<1>4. ASSUME NEW i \in DOMAIN db.items
      PROVE  /\ db'.items[i] \in ItemRows
             /\ db'.items[i].version = db.items[i].version
             /\ db'.items[i].parent = db.items[i].parent
             /\ db'.items[i].quantity = IF db.items[i].quantity = f THEN None
                                        ELSE db.items[i].quantity
             /\ db.items[i].quantity # f => db'.items[i] = db.items[i]
             /\ db.items[i].quantity = f => db'.items[i] = Uncounted(db.items[i])
  <2>1. db'.items[i] = IF db.items[i].quantity = f THEN Uncounted(db.items[i])
                       ELSE db.items[i]
    BY <1>1 DEF Uncounted
  <2>2. db.items[i] \in ItemRows
    BY TypesOf
  <2>3. CASE db.items[i].quantity = f
    BY <2>1, <2>2, <2>3 DEF ItemRows, Uncounted
  <2> QED BY <2>1, <2>2, <2>3
<1>5. DOMAIN db'.items = DOMAIN db.items
      /\ db'.items = [i \in DOMAIN db'.items |-> db'.items[i]]
  BY <1>1
<1>6. \A u \in Tables : Smaller(u)
  <2>1. Smaller("fields")
    BY <1>2, TypesOf DEF Smaller, RowsOf
  <2>2. Smaller("values")
    BY <1>3, TypesOf DEF Smaller, RowsOf
  <2>3. Smaller("items")
    BY <1>4, <1>5 DEF Smaller, RowsOf
  <2>4. Smaller("rules") /\ Smaller("uses")
    BY <1>1, TypesOf DEF Smaller, RowsOf
  <2> QED BY <2>1, <2>2, <2>3, <2>4 DEF Tables
<1>7. TypeOK'
  BY <1>1, <1>6, AfterSmaller DEF DropsField
<1> QED BY <1>1, <1>2, <1>3, <1>4, <1>5, <1>7

LEMMA AfterDropsItem ==
    ASSUME TypeOK, NEW item, DropsItem(item)
    PROVE  /\ TypeOK'
           /\ DOMAIN db'.items = DOMAIN db.items \ Below(db, item)
           /\ \A i \in DOMAIN db'.items : db'.items[i] = db.items[i]
           /\ DOMAIN db'.uses = {i \in DOMAIN db.uses :
                                    db.uses[i].item \notin Below(db, item)}
           /\ \A i \in DOMAIN db'.uses : db'.uses[i] = db.uses[i]
           /\ db'.fields = db.fields
           /\ db'.values = db.values
           /\ db'.rules = db.rules
<1> DEFINE lost == {i \in DOMAIN db.uses : db.uses[i].item \in Below(db, item)}
<1>1. /\ db' = [u \in Tables |-> db'[u]]
      /\ db'.items = Without(db.items, Below(db, item))
      /\ db'.uses = Without(db.uses, lost)
      /\ db'.fields = db.fields
      /\ db'.values = db.values
      /\ db'.rules = db.rules
  BY TypesOf DEF DropsItem, Tables
<1>2. /\ DOMAIN db'.items = DOMAIN db.items \ Below(db, item)
      /\ db'.items = [i \in DOMAIN db'.items |-> db'.items[i]]
      /\ \A i \in DOMAIN db'.items : db'.items[i] = db.items[i]
  BY <1>1 DEF Without
<1>3. /\ DOMAIN db'.uses = DOMAIN db.uses \ lost
      /\ db'.uses = [i \in DOMAIN db'.uses |-> db'.uses[i]]
      /\ \A i \in DOMAIN db'.uses : db'.uses[i] = db.uses[i]
  BY <1>1 DEF Without
<1>4. \A u \in Tables : Smaller(u)
  <2>1. Smaller("items")
    BY <1>2, TypesOf DEF Smaller, RowsOf
  <2>2. Smaller("uses")
    BY <1>3, TypesOf DEF Smaller, RowsOf
  <2>3. Smaller("rules") /\ Smaller("fields") /\ Smaller("values")
    BY <1>1, TypesOf DEF Smaller, RowsOf
  <2> QED BY <2>1, <2>2, <2>3 DEF Tables
<1>5. TypeOK'
  BY <1>1, <1>4, AfterSmaller DEF DropsItem
<1> QED BY <1>1, <1>2, <1>3, <1>5

LEMMA AfterPublish ==
    ASSUME TypeOK, NEW v, CommitPublish(v)
    PROVE  /\ TypeOK'
           /\ DOMAIN versions' = DOMAIN versions
           /\ db' = db
           /\ last' = last
<1>1. /\ DOMAIN versions' = DOMAIN versions
      /\ UNCHANGED <<db, last>>
      /\ \E k \in Nat : versions' \in [1..k -> Statuses]
  BY DEF TypeOK, CommitPublish, Statuses
<1>2. \A t \in Tables : RowsOf(t)' = RowsOf(t)
  BY <1>1 DEF RowsOf, FieldRows, ValueRows, RuleRows, ItemRows, UseRows, Criteria,
              SomeModifier, Tables
<1> HIDE DEF Tables
<1> QED BY <1>1, <1>2 DEF TypeOK

-----------------------------------------------------------------------------
(* References, and the version they stay in                                *)

LinkInv ==
    /\ RefersToRows(db)
    /\ \A i \in DOMAIN db.items :
          db.items[i].parent # None =>
              db.items[db.items[i].parent].version = db.items[i].version
    /\ \A i \in DOMAIN db.uses :
          db.items[db.uses[i].item].version = db.uses[i].version

-----------------------------------------------------------------------------
(* The copy of a version                                                   *)

LEMMA NewIds ==
    ASSUME TypeOK, NEW t \in Tables, NEW v
    PROVE  /\ IsFiniteSet(Of(db, t, v))
           /\ Cardinality(Of(db, t, v)) \in Nat
           /\ \A i \in Of(db, t, v) :
                NewId(t, v, i) \in
                    (last[t] + 1)..(last[t] + Cardinality(Of(db, t, v)))
           /\ \A i, k \in Of(db, t, v) : NewId(t, v, i) = NewId(t, v, k) => i = k
<1> DEFINE S == Of(db, t, v)
           upTo(i) == {j \in S : j <= i}
<1>1. last[t] \in Nat /\ S \subseteq 1..last[t] /\ \A i \in S : i \in Nat
  BY TypesOf DEF Of
<1>2. IsFiniteSet(1..last[t])
  BY <1>1, FS_Interval
<1> HIDE DEF S
<1>3. IsFiniteSet(S) /\ Cardinality(S) \in Nat
  BY <1>1, <1>2, FS_Subset, FS_CardinalityType
<1>4. ASSUME NEW i \in S
      PROVE  /\ IsFiniteSet(upTo(i))
             /\ Cardinality(upTo(i)) \in 1..Cardinality(S)
  <2>1. upTo(i) \in SUBSET S
    OBVIOUS
  <2>2. /\ IsFiniteSet(upTo(i))
        /\ Cardinality(upTo(i)) <= Cardinality(S)
        /\ Cardinality(upTo(i)) \in Nat
    BY <1>3, <2>1, FS_Subset, FS_CardinalityType
  <2>3. upTo(i) # {}
    BY <1>1
  <2>4. Cardinality(upTo(i)) # 0
    BY <2>2, <2>3, FS_EmptySet
  <2> QED BY <1>3, <2>2, <2>4
<1>5. ASSUME NEW i \in S, NEW k \in S, i < k
      PROVE  Cardinality(upTo(i)) # Cardinality(upTo(k))
  <2>1. upTo(i) \in SUBSET upTo(k) /\ upTo(i) # upTo(k)
    <3>1. \A j \in S : j <= i => j <= k
      BY <1>1, <1>5
    <3>2. k \in upTo(k) /\ k \notin upTo(i)
      BY <1>1, <1>5
    <3> QED BY <3>1, <3>2
  <2>2. IsFiniteSet(upTo(k))
    BY <1>4
  <2> HIDE DEF upTo
  <2> QED BY <2>1, <2>2, FS_Subset
<1>6. \A i, k \in S : Cardinality(upTo(i)) = Cardinality(upTo(k)) => i = k
  <2> HIDE DEF upTo
  <2> QED BY <1>1, <1>5
<1>7. \A i \in S : NewId(t, v, i) = last[t] + Cardinality(upTo(i))
  BY DEF NewId, S
<1> HIDE DEF upTo
<1>8. \A i \in S : NewId(t, v, i) \in (last[t] + 1)..(last[t] + Cardinality(S))
  BY <1>1, <1>3, <1>4, <1>7
<1>9. \A i, k \in S : NewId(t, v, i) = NewId(t, v, k) => i = k
  BY <1>1, <1>3, <1>4, <1>6, <1>7
<1> QED BY <1>3, <1>8, <1>9 DEF S

(* The rows of a table and the copies of those of v.                       *)
Grows(t, v) ==
    /\ DOMAIN db'[t] =
          DOMAIN db[t] \cup {NewId(t, v, j) : j \in Of(db, t, v)}
    /\ db'[t] = [i \in DOMAIN db'[t] |-> db'[t][i]]
    /\ \A i \in DOMAIN db[t] : db'[t][i] = db[t][i]
    /\ \A j \in Of(db, t, v) : NewId(t, v, j) \notin DOMAIN db[t]

(* The number of the copy.                                                 *)
Fresh == Cardinality(DOMAIN versions) + 1

LEMMA FreshIs ==
    ASSUME TypeOK
    PROVE  /\ Fresh \notin DOMAIN versions
           /\ \A s \in Statuses : /\ DOMAIN With(versions, Fresh, s) =
                                        DOMAIN versions \cup {Fresh}
                                  /\ \E k \in Nat : With(versions, Fresh, s)
                                                       \in [1..k -> Statuses]
<1>1. PICK k \in Nat : versions \in [1..k -> Statuses]
  BY DEF TypeOK
<1>2. Fresh = k + 1
  BY <1>1, FS_Interval DEF Fresh
<1>3. \A s \in Statuses : With(versions, k + 1, s) \in [1..(k + 1) -> Statuses]
  BY <1>1 DEF With
<1> QED BY <1>1, <1>2, <1>3 DEF With

(* The clone of v: every table has the copies of the rows of v beside the  *)
(* rows it had.                                                            *)
Clones(v) ==
    /\ v \in DOMAIN versions
    /\ Resolves(v)
    /\ \A u \in DOMAIN versions : versions[u] # "DRAFT"
    /\ versions' = With(versions, Fresh, "DRAFT")
    /\ last' = [t \in Tables |-> last[t] + Cardinality(Of(db, t, v))]
    /\ db' = [t \in Tables |-> db'[t]]
    /\ \A t \in Tables : Grows(t, v)
    /\ \A j \in Of(db, "fields", v) :
          db'.fields[NewId("fields", v, j)] = CopyOfField(db.fields[j], Fresh)
    /\ \A j \in Of(db, "values", v) :
          db'.values[NewId("values", v, j)] = CopyOfValue(db.values[j], v)
    /\ \A j \in Of(db, "rules", v) :
          db'.rules[NewId("rules", v, j)] = CopyOfRule(db.rules[j], v, Fresh)
    /\ \A j \in Of(db, "items", v) :
          db'.items[NewId("items", v, j)] = CopyOfItem(db.items[j], v, Fresh)
    /\ \A j \in Of(db, "uses", v) :
          db'.uses[NewId("uses", v, j)] = CopyOfUse(db.uses[j], v, Fresh)
    /\ UNCHANGED <<held, moved>>

LEMMA CloneIs ==
    ASSUME TypeOK, NEW v \in DOMAIN versions, Clone(v)
    PROVE  Clones(v)
<1>1. /\ db'.fields = Grown("fields", v, LAMBDA x : CopyOfField(x, Fresh))
      /\ db'.values = Grown("values", v, LAMBDA x : CopyOfValue(x, v))
      /\ db'.rules = Grown("rules", v, LAMBDA x : CopyOfRule(x, v, Fresh))
      /\ db'.items = Grown("items", v, LAMBDA x : CopyOfItem(x, v, Fresh))
      /\ db'.uses = Grown("uses", v, LAMBDA x : CopyOfUse(x, v, Fresh))
      /\ db' = [t \in Tables |-> db'[t]]
  BY DEF Clone, Fresh, Tables
<1>2. ASSUME NEW t \in Tables
      PROVE  /\ \A j \in Of(db, t, v) : NewId(t, v, j) \notin DOMAIN db[t]
             /\ \A j \in Of(db, t, v) :
                  (CHOOSE k \in Of(db, t, v) : NewId(t, v, k) = NewId(t, v, j)) = j
  BY NewIds, TypesOf
<1>3. /\ Grows("fields", v)
      /\ \A j \in Of(db, "fields", v) :
            db'.fields[NewId("fields", v, j)] = CopyOfField(db.fields[j], Fresh)
  <2> DEFINE S == Of(db, "fields", v)
             id(j) == NewId("fields", v, j)
             back(i) == CHOOSE j \in S : id(j) = i
  <2>1. db'.fields = [i \in DOMAIN db.fields \cup {id(j) : j \in S} |->
                     IF i \in DOMAIN db.fields THEN db.fields[i]
                     ELSE CopyOfField(db.fields[back(i)], Fresh)]
    BY <1>1 DEF Grown
  <2>2. \A j \in S : back(id(j)) = j /\ id(j) \notin DOMAIN db.fields
    BY <1>2 DEF Tables
  <2> HIDE DEF S, id, back
  <2>3. /\ DOMAIN db'.fields = DOMAIN db.fields \cup {id(j) : j \in S}
        /\ db'.fields = [i \in DOMAIN db'.fields |-> db'.fields[i]]
        /\ \A i \in DOMAIN db.fields : db'.fields[i] = db.fields[i]
    BY <2>1
  <2>4. \A j \in S : db'.fields[id(j)] = CopyOfField(db.fields[j], Fresh)
    BY <2>1, <2>2
  <2> QED BY <2>2, <2>3, <2>4 DEF S, id, Grows
<1>4. /\ Grows("values", v)
      /\ \A j \in Of(db, "values", v) :
            db'.values[NewId("values", v, j)] = CopyOfValue(db.values[j], v)
  <2> DEFINE S == Of(db, "values", v)
             id(j) == NewId("values", v, j)
             back(i) == CHOOSE j \in S : id(j) = i
  <2>1. db'.values = [i \in DOMAIN db.values \cup {id(j) : j \in S} |->
                     IF i \in DOMAIN db.values THEN db.values[i]
                     ELSE CopyOfValue(db.values[back(i)], v)]
    BY <1>1 DEF Grown
  <2>2. \A j \in S : back(id(j)) = j /\ id(j) \notin DOMAIN db.values
    BY <1>2 DEF Tables
  <2> HIDE DEF S, id, back
  <2>3. /\ DOMAIN db'.values = DOMAIN db.values \cup {id(j) : j \in S}
        /\ db'.values = [i \in DOMAIN db'.values |-> db'.values[i]]
        /\ \A i \in DOMAIN db.values : db'.values[i] = db.values[i]
    BY <2>1
  <2>4. \A j \in S : db'.values[id(j)] = CopyOfValue(db.values[j], v)
    BY <2>1, <2>2
  <2> QED BY <2>2, <2>3, <2>4 DEF S, id, Grows
<1>5. /\ Grows("rules", v)
      /\ \A j \in Of(db, "rules", v) :
            db'.rules[NewId("rules", v, j)] = CopyOfRule(db.rules[j], v, Fresh)
  <2> DEFINE S == Of(db, "rules", v)
             id(j) == NewId("rules", v, j)
             back(i) == CHOOSE j \in S : id(j) = i
  <2>1. db'.rules = [i \in DOMAIN db.rules \cup {id(j) : j \in S} |->
                     IF i \in DOMAIN db.rules THEN db.rules[i]
                     ELSE CopyOfRule(db.rules[back(i)], v, Fresh)]
    BY <1>1 DEF Grown
  <2>2. \A j \in S : back(id(j)) = j /\ id(j) \notin DOMAIN db.rules
    BY <1>2 DEF Tables
  <2> HIDE DEF S, id, back
  <2>3. /\ DOMAIN db'.rules = DOMAIN db.rules \cup {id(j) : j \in S}
        /\ db'.rules = [i \in DOMAIN db'.rules |-> db'.rules[i]]
        /\ \A i \in DOMAIN db.rules : db'.rules[i] = db.rules[i]
    BY <2>1
  <2>4. \A j \in S : db'.rules[id(j)] = CopyOfRule(db.rules[j], v, Fresh)
    BY <2>1, <2>2
  <2> QED BY <2>2, <2>3, <2>4 DEF S, id, Grows
<1>6. /\ Grows("items", v)
      /\ \A j \in Of(db, "items", v) :
            db'.items[NewId("items", v, j)] = CopyOfItem(db.items[j], v, Fresh)
  <2> DEFINE S == Of(db, "items", v)
             id(j) == NewId("items", v, j)
             back(i) == CHOOSE j \in S : id(j) = i
  <2>1. db'.items = [i \in DOMAIN db.items \cup {id(j) : j \in S} |->
                     IF i \in DOMAIN db.items THEN db.items[i]
                     ELSE CopyOfItem(db.items[back(i)], v, Fresh)]
    BY <1>1 DEF Grown
  <2>2. \A j \in S : back(id(j)) = j /\ id(j) \notin DOMAIN db.items
    BY <1>2 DEF Tables
  <2> HIDE DEF S, id, back
  <2>3. /\ DOMAIN db'.items = DOMAIN db.items \cup {id(j) : j \in S}
        /\ db'.items = [i \in DOMAIN db'.items |-> db'.items[i]]
        /\ \A i \in DOMAIN db.items : db'.items[i] = db.items[i]
    BY <2>1
  <2>4. \A j \in S : db'.items[id(j)] = CopyOfItem(db.items[j], v, Fresh)
    BY <2>1, <2>2
  <2> QED BY <2>2, <2>3, <2>4 DEF S, id, Grows
<1>7. /\ Grows("uses", v)
      /\ \A j \in Of(db, "uses", v) :
            db'.uses[NewId("uses", v, j)] = CopyOfUse(db.uses[j], v, Fresh)
  <2> DEFINE S == Of(db, "uses", v)
             id(j) == NewId("uses", v, j)
             back(i) == CHOOSE j \in S : id(j) = i
  <2>1. db'.uses = [i \in DOMAIN db.uses \cup {id(j) : j \in S} |->
                     IF i \in DOMAIN db.uses THEN db.uses[i]
                     ELSE CopyOfUse(db.uses[back(i)], v, Fresh)]
    BY <1>1 DEF Grown
  <2>2. \A j \in S : back(id(j)) = j /\ id(j) \notin DOMAIN db.uses
    BY <1>2 DEF Tables
  <2> HIDE DEF S, id, back
  <2>3. /\ DOMAIN db'.uses = DOMAIN db.uses \cup {id(j) : j \in S}
        /\ db'.uses = [i \in DOMAIN db'.uses |-> db'.uses[i]]
        /\ \A i \in DOMAIN db.uses : db'.uses[i] = db.uses[i]
    BY <2>1
  <2>4. \A j \in S : db'.uses[id(j)] = CopyOfUse(db.uses[j], v, Fresh)
    BY <2>1, <2>2
  <2> QED BY <2>2, <2>3, <2>4 DEF S, id, Grows
<1>8. \A t \in Tables : Grows(t, v)
  BY <1>3, <1>4, <1>5, <1>6, <1>7 DEF Tables
<1> QED BY <1>1, <1>3, <1>4, <1>5, <1>6, <1>7, <1>8 DEF Clone, Clones, Fresh

(* The rows of v refer to rows of v.                                       *)
LEMMA Within ==
    ASSUME TypeOK, LinkInv, NEW v, Resolves(v)
    PROVE  /\ \A j \in Of(db, "fields", v) :
                j \in DOMAIN db.fields /\ db.fields[j].version = v
           /\ \A j \in Of(db, "values", v) :
                j \in DOMAIN db.values /\ db.values[j].field \in Of(db, "fields", v)
           /\ \A j \in Of(db, "rules", v) :
                /\ j \in DOMAIN db.rules
                /\ db.rules[j].version = v
                /\ db.rules[j].target \in Of(db, "fields", v)
                /\ db.rules[j].reads.field \in Of(db, "fields", v)
                /\ db.rules[j].option \in Of(db, "values", v) \cup {None}
           /\ \A j \in Of(db, "items", v) :
                /\ j \in DOMAIN db.items
                /\ db.items[j].version = v
                /\ db.items[j].parent \in Of(db, "items", v) \cup {None}
                /\ db.items[j].quantity \in Of(db, "fields", v) \cup {None}
           /\ \A j \in Of(db, "uses", v) :
                /\ j \in DOMAIN db.uses
                /\ db.uses[j].version = v
                /\ db.uses[j].item \in Of(db, "items", v)
                /\ db.uses[j].reads.field \in Of(db, "fields", v)
  BY DEF Resolves, LinkInv, RefersToRows, Of

(* The new ids are new, and are rows.                                      *)
LEMMA ClonedIds ==
    ASSUME TypeOK, NEW v, Clones(v), NEW t \in Tables, NEW j \in Of(db, t, v)
    PROVE  /\ NewId(t, v, j) \in 1..last'[t]
           /\ NewId(t, v, j) \in DOMAIN db'[t]
           /\ NewId(t, v, j) > last[t]
           /\ NewId(t, v, j) \notin DOMAIN db[t]
           /\ NewId(t, v, j) # None
           /\ NewIdOrNone(t, v, j) = NewId(t, v, j)
<1>1. last[t] \in Nat /\ last'[t] = last[t] + Cardinality(Of(db, t, v))
  BY TypesOf DEF Clones
<1>2. Cardinality(Of(db, t, v)) \in Nat
      /\ NewId(t, v, j) \in (last[t] + 1)..(last[t] + Cardinality(Of(db, t, v)))
  BY NewIds
<1>3. NewId(t, v, j) \in 1..last'[t] /\ NewId(t, v, j) > last[t]
  BY <1>1, <1>2
<1>4. NewId(t, v, j) \in DOMAIN db'[t] /\ NewId(t, v, j) \notin DOMAIN db[t]
  BY DEF Clones, Grows
<1>5. j # None
  BY TypesOf, NoneAssumption DEF Of
<1> QED BY <1>3, <1>4, <1>5, NoneAssumption DEF NewIdOrNone

LEMMA AfterClone ==
    ASSUME TypeOK, LinkInv, NEW v, Clones(v)
    PROVE  TypeOK' /\ \A t \in Tables : last[t] <= last'[t]
<1>1. /\ last' \in [Tables -> Nat]
      /\ \A t \in Tables : last[t] <= last'[t]
  <2>1. \A t \in Tables : last[t] \in Nat /\ Cardinality(Of(db, t, v)) \in Nat
    BY TypesOf, NewIds
  <2> HIDE DEF Tables
  <2> QED BY <2>1 DEF Clones
<1>2. /\ DOMAIN versions' = DOMAIN versions \cup {Fresh}
      /\ \E k \in Nat : versions' \in [1..k -> Statuses]
  BY FreshIs DEF Clones, Statuses
<1>3. \A t \in Tables : RowsOf(t) \subseteq RowsOf(t)'
  BY <1>1, <1>2, RowsGrow
<1>4. \A j \in Of(db, "fields", v) :
        db'.fields[NewId("fields", v, j)] \in FieldRows'
  <2> TAKE j \in Of(db, "fields", v)
  <2> DEFINE row == db.fields[j]
  <2>1. row \in FieldRows
    BY TypesOf DEF Of
  <2>2. db'.fields[NewId("fields", v, j)] = CopyOfField(row, Fresh)
    BY DEF Clones
  <2> HIDE DEF row
  <2> QED BY <1>2, <2>1, <2>2 DEF CopyOfField, FieldRows, SomeModifier
<1>5. \A j \in Of(db, "values", v) :
        db'.values[NewId("values", v, j)] \in ValueRows'
  <2> TAKE j \in Of(db, "values", v)
  <2> DEFINE row == db.values[j]
  <2>1. row \in ValueRows /\ row.field \in Of(db, "fields", v)
    BY Within, TypesOf DEF Clones
  <2>2. NewId("fields", v, row.field) \in 1..last'["fields"]
    BY <2>1, ClonedIds DEF Tables
  <2>3. db'.values[NewId("values", v, j)] = CopyOfValue(row, v)
    BY DEF Clones
  <2> HIDE DEF row
  <2> QED BY <2>1, <2>2, <2>3 DEF CopyOfValue, ValueRows, SomeModifier
<1>6. \A j \in Of(db, "rules", v) :
        db'.rules[NewId("rules", v, j)] \in RuleRows'
  <2> TAKE j \in Of(db, "rules", v)
  <2> DEFINE row == db.rules[j]
  <2>1. /\ row \in RuleRows
        /\ row.target \in Of(db, "fields", v)
        /\ row.reads.field \in Of(db, "fields", v)
        /\ row.option \in Of(db, "values", v) \cup {None}
    BY Within, TypesOf DEF Clones
  <2>2. /\ NewId("fields", v, row.target) \in 1..last'["fields"]
        /\ NewId("fields", v, row.reads.field) \in 1..last'["fields"]
    BY <2>1, ClonedIds DEF Tables
  <2>3. NewIdOrNone("values", v, row.option) \in 1..last'["values"] \cup {None}
    <3>1. CASE row.option = None
      BY <3>1 DEF NewIdOrNone
    <3>2. CASE row.option \in Of(db, "values", v)
      BY <3>2, ClonedIds DEF Tables
    <3> QED BY <2>1, <3>1, <3>2
  <2>4. db'.rules[NewId("rules", v, j)] = CopyOfRule(row, v, Fresh)
    BY DEF Clones
  <2>5. Rewritten(row.reads, v) \in Criteria'
    BY <2>1, <2>2 DEF RuleRows, Criteria, Rewritten
  <2> HIDE DEF row, Criteria, Rewritten
  <2> QED BY <1>2, <2>1, <2>2, <2>3, <2>4, <2>5 DEF CopyOfRule, RuleRows
<1>7. \A j \in Of(db, "items", v) :
        db'.items[NewId("items", v, j)] \in ItemRows'
  <2> TAKE j \in Of(db, "items", v)
  <2> DEFINE row == db.items[j]
  <2>1. /\ row \in ItemRows
        /\ row.parent \in Of(db, "items", v) \cup {None}
        /\ row.quantity \in Of(db, "fields", v) \cup {None}
    BY Within, TypesOf DEF Clones
  <2>2. NewIdOrNone("items", v, row.parent) \in 1..last'["items"] \cup {None}
    <3>1. CASE row.parent = None
      BY <3>1 DEF NewIdOrNone
    <3>2. CASE row.parent \in Of(db, "items", v)
      BY <3>2, ClonedIds DEF Tables
    <3> QED BY <2>1, <3>1, <3>2
  <2>3. NewIdOrNone("fields", v, row.quantity) \in 1..last'["fields"] \cup {None}
    <3>1. CASE row.quantity = None
      BY <3>1 DEF NewIdOrNone
    <3>2. CASE row.quantity \in Of(db, "fields", v)
      BY <3>2, ClonedIds DEF Tables
    <3> QED BY <2>1, <3>1, <3>2
  <2>4. db'.items[NewId("items", v, j)] = CopyOfItem(row, v, Fresh)
    BY DEF Clones
  <2> HIDE DEF row
  <2> QED BY <1>2, <2>1, <2>2, <2>3, <2>4 DEF CopyOfItem, ItemRows
<1>8. \A j \in Of(db, "uses", v) :
        db'.uses[NewId("uses", v, j)] \in UseRows'
  <2> TAKE j \in Of(db, "uses", v)
  <2> DEFINE row == db.uses[j]
  <2>1. /\ row \in UseRows
        /\ row.item \in Of(db, "items", v)
        /\ row.reads.field \in Of(db, "fields", v)
    BY Within, TypesOf DEF Clones
  <2>2. /\ NewId("items", v, row.item) \in 1..last'["items"]
        /\ NewId("fields", v, row.reads.field) \in 1..last'["fields"]
    BY <2>1, ClonedIds DEF Tables
  <2>3. db'.uses[NewId("uses", v, j)] = CopyOfUse(row, v, Fresh)
    BY DEF Clones
  <2>4. Rewritten(row.reads, v) \in Criteria'
    BY <2>1, <2>2 DEF UseRows, Criteria, Rewritten
  <2> HIDE DEF row, Criteria, Rewritten
  <2> QED BY <1>2, <2>1, <2>2, <2>3, <2>4 DEF CopyOfUse, UseRows
<1>9. ASSUME NEW t \in Tables, NEW j \in Of(db, t, v)
      PROVE  db'[t][NewId(t, v, j)] \in RowsOf(t)'
  BY <1>4, <1>5, <1>6, <1>7, <1>8 DEF Tables, RowsOf
<1>10. ASSUME NEW t \in Tables
       PROVE  /\ db'[t] \in [DOMAIN db'[t] -> RowsOf(t)']
              /\ DOMAIN db'[t] \subseteq 1..last'[t]
  <2>1. Grows(t, v)
    BY DEF Clones
  <2>2. db[t] \in [DOMAIN db[t] -> RowsOf(t)] /\ DOMAIN db[t] \subseteq 1..last[t]
    BY DEF TypeOK
  <2>3. \A j \in Of(db, t, v) : NewId(t, v, j) \in 1..last'[t]
    BY ClonedIds
  <2>4. 1..last[t] \subseteq 1..last'[t]
    BY <1>1, TypesOf
  <2> HIDE DEF Tables
  <2>5. DOMAIN db'[t] \subseteq 1..last'[t]
    BY <2>1, <2>2, <2>3, <2>4 DEF Grows
  <2>6. \A i \in DOMAIN db'[t] : db'[t][i] \in RowsOf(t)'
    BY <1>3, <1>9, <2>1, <2>2 DEF Grows
  <2> QED BY <2>1, <2>5, <2>6 DEF Grows
<1> HIDE DEF Tables
<1> QED BY <1>1, <1>2, <1>10 DEF TypeOK, Clones

-----------------------------------------------------------------------------
(* What holds however the handlers overlap                                 *)

(* What is left of the checks of parents and of the items of rules: a      *)
(* reference that still leads to a row leads into the same version, and    *)
(* only fields are given another version.                                  *)
LinkFits(w) ==
    /\ w.op = "insert" /\ w.table = "items" =>
          (w.row.parent \in DOMAIN db.items =>
              db.items[w.row.parent].version = w.row.version)
    /\ w.op = "insert" /\ w.table = "uses" =>
          (w.row.item \in DOMAIN db.items =>
              db.items[w.row.item].version = w.row.version)
    /\ w.op = "update" /\ w.table = "items" =>
          /\ "version" \notin DOMAIN w.set
          /\ "parent" \in DOMAIN w.set =>
                ({w.id, w.set.parent} \subseteq DOMAIN db.items =>
                    db.items[w.set.parent].version = db.items[w.id].version)
    /\ w.op = "update" /\ w.table = "uses" =>
          "version" \notin DOMAIN w.set /\ "item" \notin DOMAIN w.set
    /\ w.op = "update" /\ w.table = "rules" => "version" \notin DOMAIN w.set

BaseInv ==
    /\ TypeOK
    /\ LinkInv
    /\ held # Nothing => Written(held) /\ LinkFits(held)

(* Nothing is forgotten, and no item moves to another version.             *)
Onward ==
    /\ TypeOK'
    /\ DOMAIN versions \subseteq DOMAIN versions'
    /\ \A t \in Tables : last[t] <= last'[t]
    /\ \A i \in DOMAIN db'.items :
          i <= last["items"] =>
              /\ i \in DOMAIN db.items
              /\ db'.items[i].version = db.items[i].version

LEMMA WrittenKeeps ==
    ASSUME TypeOK, Onward, NEW w, Written(w), LinkFits(w)
    PROVE  Written(w)' /\ LinkFits(w)'
<1>1. \A t \in Tables : /\ RowsOf(t) \subseteq RowsOf(t)'
                        /\ 1..last[t] \subseteq 1..last'[t]
  <2>1. last' \in [Tables -> Nat]
    BY DEF Onward, TypeOK
  <2>2. \A t \in Tables : last[t] \in Nat /\ last'[t] \in Nat /\ last[t] <= last'[t]
    BY <2>1, TypesOf DEF Onward
  <2>3. \A t \in Tables : RowsOf(t) \subseteq RowsOf(t)'
    BY <2>1, RowsGrow DEF Onward
  <2> QED BY <2>2, <2>3
<1>2. Written(w)'
  <2> HIDE DEF Tables
  <2>1. CASE IsInsert(w)
    BY <1>1, <2>1 DEF IsInsert, Written, Writes
  <2>2. CASE IsUpdate(w)
    BY <1>1, <2>2 DEF IsUpdate, Written, Writes, PartOf
  <2>3. CASE IsDelete(w)
    BY <1>1, <2>3 DEF IsDelete, Written, Writes
  <2>4. CASE IsPublish(w)
    BY <2>4 DEF IsPublish, Written, Onward
  <2> QED BY <2>1, <2>2, <2>3, <2>4 DEF Written
<1>3. last["items"] \in Nat
  BY TypesOf DEF Tables
<1>4. CASE w.op = "insert" /\ w.table = "items"
  <2>1. w.row.parent \in 1..last["items"] \cup {None}
    BY <1>4 DEF Written, IsInsert, IsUpdate, IsDelete, IsPublish, Writes, RowsOf,
                ItemRows
  <2>2. DOMAIN db'.items \subseteq Nat
    BY DEF Onward, TypeOK, Tables
  <2>3. w.row.parent \in DOMAIN db'.items => w.row.parent <= last["items"]
    BY <1>3, <2>1, <2>2, NoneAssumption
  <2> QED BY <1>2, <1>4, <2>3 DEF LinkFits, Onward
<1>5. CASE w.op = "insert" /\ w.table = "uses"
  <2>1. w.row.item \in 1..last["items"]
    BY <1>5 DEF Written, IsInsert, IsUpdate, IsDelete, IsPublish, Writes, RowsOf,
                UseRows
  <2> QED BY <1>2, <1>3, <1>5, <2>1 DEF LinkFits, Onward
<1>6. CASE w.op = "update" /\ w.table = "items"
  <2>1. /\ w.id \in 1..last["items"]
        /\ "parent" \in DOMAIN w.set => w.set.parent \in 1..last["items"] \cup {None}
    BY <1>6 DEF Written, IsInsert, IsUpdate, IsDelete, IsPublish, Writes, RowsOf,
                ItemRows, PartOf
  <2>2. DOMAIN db'.items \subseteq Nat
    BY DEF Onward, TypeOK, Tables
  <2>3. /\ w.id \in DOMAIN db'.items => w.id <= last["items"]
        /\ "parent" \in DOMAIN w.set /\ w.set.parent \in DOMAIN db'.items =>
              w.set.parent <= last["items"]
    BY <1>3, <2>1, <2>2, NoneAssumption
  <2> QED BY <1>2, <1>6, <2>3 DEF LinkFits, Onward
<1>7. CASE w.op = "update" /\ w.table \in {"uses", "rules"}
  BY <1>2, <1>7 DEF LinkFits
<1> QED BY <1>2, <1>4, <1>5, <1>6, <1>7 DEF LinkFits

LEMMA CommitLinks ==
    ASSUME TypeOK, LinkInv, NEW w, Written(w), LinkFits(w), Commit(w)
    PROVE  Onward /\ LinkInv'
<1>1. CASE Fails
  <2>1. \A t \in Tables : RowsOf(t) \subseteq RowsOf(t)'
    BY <1>1, RowsGrow DEF Fails
  <2>2. TypeOK'
    <3>1. \A t \in Tables : 1..last[t] \subseteq 1..last'[t]
      BY <1>1, TypesOf DEF Fails
    <3> HIDE DEF Tables
    <3> QED BY <1>1, <2>1, <3>1 DEF TypeOK, Fails
  <2> QED BY <1>1, <2>2 DEF Fails, Onward, LinkInv, RefersToRows
<1>2. CASE IsInsert(w) /\ Adds(w.table, w.row)
  <2>1. w.op = "insert" /\ w.table \in Tables /\ w.row \in RowsOf(w.table)
    BY <1>2 DEF IsInsert, Writes
  <2>2. /\ TypeOK'
        /\ last[w.table] + 1 \notin DOMAIN db[w.table]
        /\ DOMAIN db'[w.table] = DOMAIN db[w.table] \cup {last[w.table] + 1}
        /\ db'[w.table][last[w.table] + 1] = w.row
        /\ \A i \in DOMAIN db[w.table] : db'[w.table][i] = db[w.table][i]
        /\ \A u \in Tables \ {w.table} : db'[u] = db[u]
    BY <1>2, <2>1, AfterAdds
  <2>3. RefersToRows(db') /\ UNCHANGED versions
        /\ last' = [last EXCEPT ![w.table] = @ + 1]
    BY <1>2 DEF Adds
  <2>4. \A t \in Tables : last[t] \in Nat /\ last[t] <= last'[t]
    <3>1. last \in [Tables -> Nat]
      BY TypesOf
    <3> HIDE DEF Tables
    <3> QED BY <2>1, <2>3, <3>1
  <2>5. CASE w.table = "items"
    <3>1. w.row \in ItemRows /\ db'.uses = db.uses
      BY <2>1, <2>2, <2>5 DEF RowsOf, Tables
    <3>2. w.row.parent \in 1..last["items"] \cup {None}
      BY <3>1 DEF ItemRows
    <3>3. last["items"] \in Nat /\ last["items"] + 1 # None
      BY <2>4, NoneAssumption DEF Tables
    <3>4. w.row.parent # None =>
            /\ w.row.parent \in DOMAIN db.items
            /\ db.items[w.row.parent].version = w.row.version
      BY <2>1, <2>2, <2>3, <2>5, <3>2, <3>3 DEF RefersToRows, LinkFits
    <3>5. LinkInv'
      BY <2>2, <2>3, <2>5, <3>1, <3>4 DEF LinkInv, RefersToRows
    <3> QED BY <2>2, <2>3, <2>4, <2>5, <3>3, <3>5 DEF Onward
  <2>6. CASE w.table = "uses"
    <3>1. w.row \in UseRows /\ db'.items = db.items
      BY <2>1, <2>2, <2>6 DEF RowsOf, Tables
    <3>2. w.row.item \in DOMAIN db.items /\ db.items[w.row.item].version = w.row.version
      BY <2>1, <2>2, <2>3, <2>6, <3>1 DEF RefersToRows, LinkFits
    <3>3. LinkInv'
      BY <2>2, <2>3, <2>6, <3>1, <3>2 DEF LinkInv, RefersToRows
    <3> QED BY <2>2, <2>3, <2>4, <3>1, <3>3 DEF Onward
  <2>7. CASE w.table \notin {"items", "uses"}
    <3>1. db'.items = db.items /\ db'.uses = db.uses
      BY <2>2, <2>7 DEF Tables
    <3> QED BY <2>2, <2>3, <2>4, <3>1 DEF Onward, LinkInv
  <2> QED BY <2>5, <2>6, <2>7
<1>3. CASE IsUpdate(w) /\ Changes(w.table, w.id, w.set)
  <2>1. /\ w.op = "update" /\ w.table \in Tables /\ w.id \in 1..last[w.table]
        /\ PartOf(w.set, RowsOf(w.table))
    BY <1>3 DEF IsUpdate, Writes
  <2>2. /\ TypeOK'
        /\ \A u \in Tables : DOMAIN db'[u] = DOMAIN db[u]
        /\ db'[w.table][w.id] = Over(db[w.table][w.id], w.set)
        /\ \A i \in DOMAIN db[w.table] \ {w.id} : db'[w.table][i] = db[w.table][i]
        /\ \A u \in Tables \ {w.table} : db'[u] = db[u]
    BY <1>3, <2>1, AfterChanges
  <2>3. RefersToRows(db') /\ UNCHANGED <<versions, last>> /\ w.id \in DOMAIN db[w.table]
    BY <1>3 DEF Changes
  <2>4. \A t \in Tables : last[t] <= last'[t]
    BY <2>3, TypesOf
  <2>5. CASE w.table = "items"
    <3>1. db'.uses = db.uses /\ DOMAIN db'.items = DOMAIN db.items
      BY <2>2, <2>5 DEF Tables
    <3>2. w.id \in DOMAIN db.items /\ db.items[w.id] \in ItemRows
      BY <2>3, <2>5, TypesOf
    <3>3. /\ db'.items[w.id].version = db.items[w.id].version
          /\ db'.items[w.id].parent = IF "parent" \in DOMAIN w.set THEN w.set.parent
                                      ELSE db.items[w.id].parent
      BY <2>1, <2>2, <2>5, <3>2 DEF Over, ItemRows, LinkFits
    <3>4. \A i \in DOMAIN db.items : db'.items[i].version = db.items[i].version
      BY <2>2, <2>5, <3>3
    <3>5. db'.items[w.id].parent # None =>
            db.items[db'.items[w.id].parent].version = db.items[w.id].version
      BY <2>1, <2>3, <2>5, <3>1, <3>2, <3>3 DEF LinkFits, LinkInv, RefersToRows
    <3>6. \A i \in DOMAIN db'.items :
            db'.items[i].parent # None =>
              db'.items[db'.items[i].parent].version = db'.items[i].version
      BY <2>2, <2>3, <2>5, <3>1, <3>4, <3>5 DEF LinkInv, RefersToRows
    <3>7. LinkInv'
      BY <2>3, <3>1, <3>4, <3>6 DEF LinkInv, RefersToRows
    <3> QED BY <2>2, <2>3, <2>4, <3>1, <3>4, <3>7 DEF Onward
  <2>6. CASE w.table = "uses"
    <3>1. db'.items = db.items /\ DOMAIN db'.uses = DOMAIN db.uses
      BY <2>2, <2>6 DEF Tables
    <3>2. w.id \in DOMAIN db.uses /\ db.uses[w.id] \in UseRows
      BY <2>3, <2>6, TypesOf
    <3>3. /\ db'.uses[w.id].version = db.uses[w.id].version
          /\ db'.uses[w.id].item = db.uses[w.id].item
      BY <2>1, <2>2, <2>6, <3>2 DEF Over, UseRows, LinkFits
    <3>4. LinkInv'
      BY <2>2, <2>3, <2>6, <3>1, <3>3 DEF LinkInv
    <3> QED BY <2>2, <2>3, <2>4, <3>1, <3>4 DEF Onward
  <2>7. CASE w.table \notin {"items", "uses"}
    <3>1. db'.items = db.items /\ db'.uses = db.uses
      BY <2>2, <2>7 DEF Tables
    <3> QED BY <2>2, <2>3, <2>4, <3>1 DEF Onward, LinkInv
  <2> QED BY <2>5, <2>6, <2>7
<1>4. ASSUME UNCHANGED <<versions, last>> PROVE \A t \in Tables : last[t] <= last'[t]
  BY <1>4, TypesOf
<1>5. CASE IsDelete(w) /\ w.table = "fields" /\ DropsField(w.id)
  <2>1. UNCHANGED <<versions, last>> /\ RefersToRows(db')
    BY <1>5 DEF DropsField
  <2>2. /\ TypeOK'
        /\ DOMAIN db'.items = DOMAIN db.items
        /\ \A i \in DOMAIN db.items : /\ db'.items[i].version = db.items[i].version
                                      /\ db'.items[i].parent = db.items[i].parent
        /\ db'.uses = db.uses
    BY <1>5, AfterDropsField
  <2>3. LinkInv'
    BY <2>1, <2>2 DEF LinkInv, RefersToRows
  <2> QED BY <1>4, <2>1, <2>2, <2>3 DEF Onward
<1>6. CASE IsDelete(w) /\ w.table = "items" /\ DropsItem(w.id)
  <2>1. UNCHANGED <<versions, last>> /\ RefersToRows(db')
    BY <1>6 DEF DropsItem
  <2>2. /\ TypeOK'
        /\ DOMAIN db'.items \subseteq DOMAIN db.items
        /\ \A i \in DOMAIN db'.items : db'.items[i] = db.items[i]
        /\ DOMAIN db'.uses \subseteq DOMAIN db.uses
        /\ \A i \in DOMAIN db'.uses : db'.uses[i] = db.uses[i]
    BY <1>6, AfterDropsItem
  <2>3. LinkInv'
    BY <2>1, <2>2 DEF LinkInv, RefersToRows
  <2> QED BY <1>4, <2>1, <2>2, <2>3 DEF Onward
<1>7. CASE IsDelete(w) /\ w.table # "fields" /\ Drops(w.table, w.id)
  <2>1. UNCHANGED <<versions, last>> /\ RefersToRows(db') /\ w.table \in Tables
    BY <1>7 DEF Drops, IsDelete, Writes
  <2>2. /\ TypeOK'
        /\ DOMAIN db'[w.table] = DOMAIN db[w.table] \ {w.id}
        /\ \A i \in DOMAIN db'[w.table] : db'[w.table][i] = db[w.table][i]
        /\ \A u \in Tables \ {w.table} : db'[u] = db[u]
    BY <1>7, <2>1, AfterDrops
  <2>3. /\ DOMAIN db'.items \subseteq DOMAIN db.items
        /\ \A i \in DOMAIN db'.items : db'.items[i] = db.items[i]
        /\ DOMAIN db'.uses \subseteq DOMAIN db.uses
        /\ \A i \in DOMAIN db'.uses : db'.uses[i] = db.uses[i]
    BY <2>1, <2>2 DEF Tables
  <2>4. LinkInv'
    BY <2>1, <2>3 DEF LinkInv, RefersToRows
  <2> QED BY <1>4, <2>1, <2>2, <2>3, <2>4 DEF Onward
<1>8. CASE IsPublish(w) /\ CommitPublish(w.id)
  <2>1. TypeOK' /\ DOMAIN versions' = DOMAIN versions /\ db' = db /\ last' = last
    BY <1>8, AfterPublish
  <2> QED BY <2>1, TypesOf DEF Onward, LinkInv
<1> QED BY <1>1, <1>2, <1>3, <1>5, <1>6, <1>7, <1>8, CommitIs

LEMMA CloneLinks ==
    ASSUME TypeOK, LinkInv, NEW v, Clones(v)
    PROVE  Onward /\ LinkInv'
<1>1. TypeOK' /\ \A t \in Tables : last[t] <= last'[t]
  BY AfterClone
<1>2. DOMAIN versions \subseteq DOMAIN versions'
  BY FreshIs DEF Clones, Statuses
<1>3. /\ Grows("fields", v) /\ Grows("values", v) /\ Grows("rules", v)
      /\ Grows("items", v) /\ Grows("uses", v)
  BY DEF Clones, Tables
<1>4. ASSUME NEW i \in DOMAIN db'.items, i <= last["items"]
      PROVE  i \in DOMAIN db.items /\ db'.items[i].version = db.items[i].version
  <2>1. CASE i \in DOMAIN db.items
    BY <1>3, <2>1 DEF Grows
  <2>2. CASE i \notin DOMAIN db.items
    <3>1. PICK j \in Of(db, "items", v) : i = NewId("items", v, j)
      BY <1>3, <2>2 DEF Grows
    <3>2. NewId("items", v, j) > last["items"] /\ NewId("items", v, j) \in 1..last'["items"]
      BY ClonedIds DEF Tables
    <3>3. last["items"] \in Nat
      BY TypesOf DEF Tables
    <3> QED BY <1>4, <3>1, <3>2, <3>3
  <2> QED BY <2>1, <2>2
<1>5. ASSUME NEW j \in Of(db, "values", v)
      PROVE  db'.values[NewId("values", v, j)].field \in DOMAIN db'.fields
  <2>1. /\ db.values[j] \in ValueRows
        /\ db.values[j].field \in Of(db, "fields", v)
    BY Within, TypesOf DEF Clones
  <2>2. db'.values[NewId("values", v, j)].field = NewId("fields", v, db.values[j].field)
    BY <2>1 DEF Clones, CopyOfValue, ValueRows
  <2> QED BY <2>1, <2>2, ClonedIds DEF Tables
<1>6. ASSUME NEW j \in Of(db, "rules", v)
      PROVE  /\ db'.rules[NewId("rules", v, j)].target \in DOMAIN db'.fields
             /\ db'.rules[NewId("rules", v, j)].option \in DOMAIN db'.values \cup {None}
  <2>1. /\ db.rules[j] \in RuleRows
        /\ db.rules[j].target \in Of(db, "fields", v)
        /\ db.rules[j].option \in Of(db, "values", v) \cup {None}
    BY Within, TypesOf DEF Clones
  <2>2. /\ db'.rules[NewId("rules", v, j)].target = NewId("fields", v, db.rules[j].target)
        /\ db'.rules[NewId("rules", v, j)].option = NewIdOrNone("values", v, db.rules[j].option)
    <3> HIDE DEF Criteria
    <3> QED BY <2>1 DEF Clones, CopyOfRule, RuleRows
  <2>3. CASE db.rules[j].option = None
    BY <2>1, <2>2, <2>3, ClonedIds DEF Tables, NewIdOrNone
  <2>4. CASE db.rules[j].option \in Of(db, "values", v)
    BY <2>1, <2>2, <2>4, ClonedIds DEF Tables
  <2> QED BY <2>1, <2>3, <2>4
<1>7. ASSUME NEW j \in Of(db, "items", v)
      PROVE  LET copy == db'.items[NewId("items", v, j)]
             IN  /\ copy.parent \in DOMAIN db'.items \cup {None}
                 /\ copy.quantity \in DOMAIN db'.fields \cup {None}
                 /\ copy.version = Fresh
                 /\ copy.parent # None => db'.items[copy.parent].version = Fresh
  <2>1. /\ db.items[j] \in ItemRows
        /\ db.items[j].parent \in Of(db, "items", v) \cup {None}
        /\ db.items[j].quantity \in Of(db, "fields", v) \cup {None}
    BY Within, TypesOf DEF Clones
  <2>2. /\ db'.items[NewId("items", v, j)].parent = NewIdOrNone("items", v, db.items[j].parent)
        /\ db'.items[NewId("items", v, j)].quantity = NewIdOrNone("fields", v, db.items[j].quantity)
        /\ db'.items[NewId("items", v, j)].version = Fresh
    BY <2>1 DEF Clones, CopyOfItem, ItemRows
  <2>3. \A k \in Of(db, "items", v) : db'.items[NewId("items", v, k)].version = Fresh
    <3>1. \A k \in Of(db, "items", v) : db.items[k] \in ItemRows
      BY Within, TypesOf DEF Clones
    <3> QED BY <3>1 DEF Clones, CopyOfItem, ItemRows
  <2>4. db'.items[NewId("items", v, j)].parent \in DOMAIN db'.items \cup {None}
    BY <2>1, <2>2, ClonedIds DEF Tables, NewIdOrNone
  <2>5. db'.items[NewId("items", v, j)].quantity \in DOMAIN db'.fields \cup {None}
    BY <2>1, <2>2, ClonedIds DEF Tables, NewIdOrNone
  <2>6. db.items[j].parent # None =>
          db'.items[NewIdOrNone("items", v, db.items[j].parent)].version = Fresh
    BY <2>1, <2>3, ClonedIds DEF Tables
  <2> QED BY <2>2, <2>4, <2>5, <2>6 DEF NewIdOrNone
<1>8. ASSUME NEW j \in Of(db, "uses", v)
      PROVE  LET copy == db'.uses[NewId("uses", v, j)]
             IN  /\ copy.item \in DOMAIN db'.items
                 /\ db'.items[copy.item].version = copy.version
  <2>1. db.uses[j] \in UseRows /\ db.uses[j].item \in Of(db, "items", v)
    BY Within, TypesOf DEF Clones
  <2>2. /\ db'.uses[NewId("uses", v, j)].item = NewId("items", v, db.uses[j].item)
        /\ db'.uses[NewId("uses", v, j)].version = Fresh
    <3> HIDE DEF Criteria
    <3> QED BY <2>1 DEF Clones, CopyOfUse, UseRows
  <2> QED BY <1>7, <2>1, <2>2, ClonedIds DEF Tables
<1>9. RefersToRows(db')
  <2>1. \A i \in DOMAIN db'.values : db'.values[i].field \in DOMAIN db'.fields
    BY <1>3, <1>5 DEF Grows, LinkInv, RefersToRows
  <2>2. \A i \in DOMAIN db'.rules :
          /\ db'.rules[i].target \in DOMAIN db'.fields
          /\ db'.rules[i].option \in DOMAIN db'.values \cup {None}
    BY <1>3, <1>6 DEF Grows, LinkInv, RefersToRows
  <2>3. \A i \in DOMAIN db'.items :
          /\ db'.items[i].parent \in DOMAIN db'.items \cup {None}
          /\ db'.items[i].quantity \in DOMAIN db'.fields \cup {None}
    BY <1>3, <1>7 DEF Grows, LinkInv, RefersToRows
  <2>4. \A i \in DOMAIN db'.uses : db'.uses[i].item \in DOMAIN db'.items
    BY <1>3, <1>8 DEF Grows, LinkInv, RefersToRows
  <2> QED BY <2>1, <2>2, <2>3, <2>4 DEF RefersToRows
<1>10. \A i \in DOMAIN db'.items :
          db'.items[i].parent # None =>
              db'.items[db'.items[i].parent].version = db'.items[i].version
  BY <1>3, <1>7 DEF Grows, LinkInv, RefersToRows
<1>11. \A i \in DOMAIN db'.uses :
          db'.items[db'.uses[i].item].version = db'.uses[i].version
  BY <1>3, <1>8 DEF Grows, LinkInv, RefersToRows
<1> QED BY <1>1, <1>2, <1>4, <1>9, <1>10, <1>11 DEF Onward, LinkInv

-----------------------------------------------------------------------------
(* What is left of the other checks while a write is held up               *)

(* The version a row is in.                                                *)
Home(d, t, i) ==
    IF t = "values" THEN d.fields[d.values[i].field].version
                    ELSE d[t][i].version

(* validate_version_is_draft *)
DraftFits(w) ==
    /\ w.op = "insert" /\ w.table # "values" => versions[w.row.version] = "DRAFT"
    /\ w.op = "insert" /\ w.table = "values" =>
          (w.row.field \in DOMAIN db.fields =>
              versions[db.fields[w.row.field].version] = "DRAFT")
    /\ w.op \in {"update", "delete"} =>
          (w.id \in DOMAIN db[w.table] =>
              versions[Home(db, w.table, w.id)] = "DRAFT")

(* _validate_parent_bom_item: the new parent is among items that are not   *)
(* below the one that is moved.                                            *)
ForestFits(w) ==
    w.op = "update" /\ w.table = "items" =>
        ("parent" \in DOMAIN w.set =>
            ({w.id, w.set.parent} \subseteq DOMAIN db.items =>
                \E S \in SUBSET DOMAIN db.items :
                    Upward(db, S) /\ w.set.parent \in S /\ w.id \notin S))

(* A PATCH that gives no row another parent.                               *)
Still(w) == w.op = "update" => ~Moving(w)

(* update_value: a value moves within its version.                         *)
MoveFits(w) ==
    w.op = "update" /\ w.table = "values" /\ "field" \in DOMAIN w.set =>
        (w.id \in DOMAIN db.values /\ w.set.field \in DOMAIN db.fields =>
            db.fields[w.set.field].version = Home(db, "values", w.id))

(* The fields of rules and items are of their version.                     *)
FixedFits(w) ==
    /\ w.op = "insert" /\ w.table = "rules" =>
          (w.row.target \in DOMAIN db.fields =>
              db.fields[w.row.target].version = w.row.version)
    /\ w.op = "insert" /\ w.table = "items" =>
          (w.row.quantity \in DOMAIN db.fields =>
              db.fields[w.row.quantity].version = w.row.version)
    /\ w.op = "update" /\ w.table = "rules" =>
          ("target" \in DOMAIN w.set =>
              (w.id \in DOMAIN db.rules /\ w.set.target \in DOMAIN db.fields =>
                  db.fields[w.set.target].version = db.rules[w.id].version))
    /\ w.op = "update" /\ w.table = "items" =>
          ("quantity" \in DOMAIN w.set =>
              (w.id \in DOMAIN db.items /\ w.set.quantity \in DOMAIN db.fields =>
                  db.fields[w.set.quantity].version = db.items[w.id].version))

FixedInv ==
    /\ \A i \in DOMAIN db.rules :
          db.fields[db.rules[i].target].version = db.rules[i].version
    /\ \A i \in DOMAIN db.items :
          db.items[i].quantity # None =>
              db.fields[db.items[i].quantity].version = db.items[i].version

(* What a rule says of a field that is still there: its option is a value  *)
(* of the field, and the text that it sets is that of a value other than   *)
(* one that goes.                                                          *)
OptionHolds(rule) ==
    rule.option \in DOMAIN db.values => db.values[rule.option].field = rule.target

TextHolds(rule, goes) ==
    rule.type = "CALCULATION" /\ rule.set # None
          /\ rule.target \in DOMAIN db.fields /\ ~db.fields[rule.target].free =>
        \E j \in ValuesOf(db, rule.target) \ goes : db.values[j].text = rule.set

(* A value that goes or gets another text.                                 *)
Removes(w) ==
    /\ w.op \in {"update", "delete"} /\ w.table = "values"
    /\ w.op = "update" => "text" \in DOMAIN w.set

OptionFits(w) ==
    /\ w.op = "insert" /\ w.table = "rules" =>
          OptionHolds(w.row) /\ TextHolds(w.row, {})
    /\ w.op = "update" /\ w.table = "rules" =>
          (w.id \in DOMAIN db.rules =>
              /\ OptionHolds(Over(db.rules[w.id], w.set))
              /\ TextHolds(Over(db.rules[w.id], w.set), {}))
    /\ w.op = "update" /\ w.table = "fields" =>
          ("free" \in DOMAIN w.set /\ ~w.set.free => CalculationsOf(db, w.id) = {})
    /\ Removes(w) => \A i \in DOMAIN db.rules : TextHolds(db.rules[i], {w.id})

(* At the check more is known of a value that goes: no rule sets its text. *)
Unset(w) ==
    Removes(w) => (w.id \in DOMAIN db.values =>
        SettersOf(db, db.values[w.id].field, db.values[w.id].text) = {})

OptionInv ==
    \A i \in DOMAIN db.rules : OptionHolds(db.rules[i]) /\ TextHolds(db.rules[i], {})

(* The values of a field that is to be free are gone, and none is made or  *)
(* moved there.                                                            *)
FreeFits(w) ==
    /\ w.op = "insert" /\ w.table = "values" =>
          (w.row.field \in DOMAIN db.fields => ~db.fields[w.row.field].free)
    /\ w.op = "update" /\ w.table = "fields" =>
          ("free" \in DOMAIN w.set /\ w.set.free => ValuesOf(db, w.id) = {})
    /\ w.op = "update" /\ w.table = "values" =>
          ("field" \in DOMAIN w.set /\ w.set.field \in DOMAIN db.fields =>
              ~db.fields[w.set.field].free)

Checked(w) ==
    /\ Written(w)
    /\ LinkFits(w)
    /\ DraftFits(w)
    /\ ForestFits(w)
    /\ FreeFits(w)
    /\ Unset(w)
    /\ FixedFits(w)
    /\ MoveFits(w)
    /\ OptionInv => OptionFits(w)

(* The items of every set hang somewhere outside it, or nowhere.           *)
ForestInv ==
    \A S \in SUBSET DOMAIN db.items :
        S # {} => \E j \in S : db.items[j].parent \notin S

-----------------------------------------------------------------------------
(* What the handlers submit                                                *)

LEMMA FiniteItems ==
    ASSUME TypeOK
    PROVE  IsFiniteSet(DOMAIN db.items)
<1>1. last["items"] \in Nat /\ DOMAIN db.items \subseteq 1..last["items"]
  BY TypesOf DEF Tables
<1>2. IsFiniteSet(1..last["items"])
  BY <1>1, FS_Interval
<1> QED BY <1>1, <1>2, FS_Subset

LEMMA InsertIs ==
    ASSUME NEW t \in Tables, NEW row \in RowsOf(t), NEW kind,
           kind = KindOf("insert", t), Insert(kind, t, row)
    PROVE  \E w : /\ IsInsert(w) /\ w.op = "insert" /\ w.table = t /\ w.row = row
                  /\ Submit(w)
<1> DEFINE w == [kind |-> kind, op |-> "insert", table |-> t, row |-> row]
<1>1. Submit(w)
  BY DEF Insert
<1>2. w.kind = kind /\ w.op = "insert" /\ w.table = t /\ w.row = row
  OBVIOUS
<1> HIDE DEF w
<1>3. IsInsert(w)
  BY <1>2 DEF IsInsert, Writes
<1> QED BY <1>1, <1>2, <1>3

LEMMA DeleteIs ==
    ASSUME TypeOK, NEW t \in Tables, NEW id \in DOMAIN db[t], NEW kind,
           kind = KindOf("delete", t), Delete(kind, t, id)
    PROVE  \E w : /\ IsDelete(w) /\ w.op = "delete" /\ w.table = t /\ w.id = id
                  /\ Submit(w)
<1> DEFINE w == [kind |-> kind, op |-> "delete", table |-> t, id |-> id]
<1>1. Submit(w)
  BY DEF Delete
<1>2. w.kind = kind /\ w.op = "delete" /\ w.table = t /\ w.id = id
  OBVIOUS
<1> HIDE DEF w
<1>3. IsDelete(w)
  BY <1>2, TypesOf DEF IsDelete, Writes
<1> QED BY <1>1, <1>2, <1>3

(* The columns of an UPDATE are those in which the row differs.            *)
UpdatesTo(w, t, id, row) ==
    /\ IsUpdate(w) /\ w.op = "update" /\ w.table = t /\ w.id = id
    /\ DOMAIN w.set = {c \in DOMAIN row : row[c] # db[t][id][c]}
    /\ \A c \in DOMAIN w.set : w.set[c] = row[c]
    /\ Over(db[t][id], w.set) = row

LEMMA UpdateIs ==
    ASSUME TypeOK, NEW t \in Tables, NEW id \in DOMAIN db[t],
           NEW row \in RowsOf(t), NEW kind, kind = KindOf("update", t),
           Update(kind, t, id, row)
    PROVE  \E w : UpdatesTo(w, t, id, row) /\ Submit(w)
<1> DEFINE old == db[t][id]
           changed == {c \in DOMAIN old : row[c] # old[c]}
           set == [c \in changed |-> row[c]]
           w == [kind |-> kind, op |-> "update", table |-> t, id |-> id, set |-> set]
<1>1. Submit(w)
  BY DEF Update
<1>2. /\ w.kind = kind /\ w.op = "update" /\ w.table = t /\ w.id = id
      /\ w.set = set
  OBVIOUS
<1>3. old \in RowsOf(t)
  BY DEF TypeOK
<1>4. DOMAIN old = DOMAIN row
      /\ old = [c \in DOMAIN old |-> old[c]] /\ row = [c \in DOMAIN row |-> row[c]]
  <2> HIDE DEF old
  <2>1. CASE t = "fields"
    BY <1>3, <2>1 DEF RowsOf, FieldRows
  <2>2. CASE t = "values"
    BY <1>3, <2>2 DEF RowsOf, ValueRows
  <2>3. CASE t = "rules"
    <3> HIDE DEF Criteria
    <3> QED BY <1>3, <2>3 DEF RowsOf, RuleRows
  <2>4. CASE t = "items"
    BY <1>3, <2>4 DEF RowsOf, ItemRows
  <2>5. CASE t = "uses"
    <3> HIDE DEF Criteria
    <3> QED BY <1>3, <2>5 DEF RowsOf, UseRows
  <2> QED BY <2>1, <2>2, <2>3, <2>4, <2>5 DEF Tables
<1>5. /\ DOMAIN set = {c \in DOMAIN row : row[c] # old[c]}
      /\ \A c \in DOMAIN set : set[c] = row[c]
  <2> HIDE DEF old
  <2> QED BY <1>4
<1>6. Over(old, set) = row
  <2> HIDE DEF old
  <2> QED BY <1>4 DEF Over
<1> HIDE DEF w, set
<1>7. IsUpdate(w)
  BY <1>2, <1>5, TypesOf DEF IsUpdate, Writes, PartOf
<1> QED BY <1>1, <1>2, <1>5, <1>6, <1>7 DEF UpdatesTo

LEMMA CreateFieldIs ==
    ASSUME TypeOK, NEW field \in SomeField, CreateField(field)
    PROVE  \E w : Checked(w) /\ Submit(w)
<1>1. field \in RowsOf("fields")
  BY DEF SomeField, RowsOf, FieldRows, SomeModifier
<1>2. PICK w : /\ IsInsert(w) /\ w.op = "insert" /\ w.table = "fields"
               /\ w.row = field /\ Submit(w)
  BY <1>1, InsertIs DEF CreateField, KindOf, Tables
<1>3. Written(w) /\ LinkFits(w)
  BY <1>2 DEF Written, LinkFits
<1>4. DraftFits(w)
  BY <1>2 DEF DraftFits, CreateField, Editable
<1>5. ForestFits(w) /\ FreeFits(w) /\ Unset(w) /\ FixedFits(w) /\ MoveFits(w)
      /\ OptionFits(w)
  BY <1>2 DEF ForestFits, FreeFits, Unset, Removes, FixedFits,
         MoveFits, OptionFits
<1> QED BY <1>2, <1>3, <1>4, <1>5 DEF Checked

LEMMA UpdateFieldIs ==
    ASSUME TypeOK, NEW f \in DOMAIN db.fields, NEW field \in SomeField,
           NEW asFree \in BOOLEAN, UpdateField(f, field, asFree)
    PROVE  \E w : Checked(w) /\ Submit(w)
<1>1. /\ field \in RowsOf("fields") /\ field \in FieldRows
      /\ db.fields[f] \in FieldRows
  BY TypesOf DEF SomeField, RowsOf, FieldRows, SomeModifier
<1>2. PICK w : UpdatesTo(w, "fields", f, field) /\ Submit(w)
  <2>1. Update("update field", "fields", f, field)
    BY DEF UpdateField
  <2>2. "fields" \in Tables /\ "update field" = KindOf("update", "fields")
    BY DEF Tables, KindOf
  <2> QED BY <1>1, <2>1, <2>2, UpdateIs
<1>3. Written(w) /\ LinkFits(w)
  BY <1>2 DEF UpdatesTo, Written, LinkFits
<1>4. DraftFits(w)
  BY <1>2 DEF UpdatesTo, DraftFits, Home, UpdateField, Editable
<1>5. ForestFits(w) /\ Unset(w)
  BY <1>2 DEF UpdatesTo, ForestFits, Unset, Removes
<1>6. FreeFits(w)
  BY <1>1, <1>2 DEF UpdatesTo, FreeFits, UpdateField, FieldRows
<1>7. FixedFits(w) /\ MoveFits(w)
  BY <1>2 DEF UpdatesTo, FixedFits, MoveFits
<1>8. OptionFits(w)
  <2>1. ASSUME "free" \in DOMAIN w.set, ~w.set.free
        PROVE  CalculationsOf(db, f) = {}
    <3>1. ~field.free /\ db.fields[f].free /\ ~asFree
      BY <1>1, <1>2, <2>1 DEF UpdatesTo, UpdateField, FieldRows
    <3> QED BY <3>1 DEF UpdateField
  <2> QED BY <1>2, <2>1 DEF UpdatesTo, OptionFits, Removes
<1> QED BY <1>2, <1>3, <1>4, <1>5, <1>6, <1>7, <1>8 DEF Checked

LEMMA DeleteFieldIs ==
    ASSUME TypeOK, NEW f \in DOMAIN db.fields, DeleteField(f)
    PROVE  \E w : Checked(w) /\ Submit(w)
<1>1. PICK w : /\ IsDelete(w) /\ w.op = "delete" /\ w.table = "fields" /\ w.id = f
               /\ Submit(w)
  BY DeleteIs DEF DeleteField, KindOf, Tables
<1>2. Written(w) /\ LinkFits(w)
  BY <1>1 DEF Written, LinkFits
<1>3. DraftFits(w)
  BY <1>1 DEF DraftFits, Home, DeleteField, Editable
<1>4. ForestFits(w) /\ FreeFits(w) /\ Unset(w) /\ FixedFits(w) /\ MoveFits(w)
      /\ OptionFits(w)
  BY <1>1 DEF ForestFits, FreeFits, Unset, Removes, FixedFits,
         MoveFits, OptionFits
<1> QED BY <1>1, <1>2, <1>3, <1>4 DEF Checked

LEMMA CreateValueIs ==
    ASSUME TypeOK, NEW value \in SomeValue, CreateValue(value)
    PROVE  \E w : Checked(w) /\ Submit(w)
<1>1. value \in RowsOf("values")
  BY TypesOf DEF SomeValue, RowsOf, ValueRows, SomeModifier, Tables
<1>2. PICK w : /\ IsInsert(w) /\ w.op = "insert" /\ w.table = "values"
               /\ w.row = value /\ Submit(w)
  BY <1>1, InsertIs DEF CreateValue, KindOf, Tables
<1>3. Written(w) /\ LinkFits(w)
  BY <1>2 DEF Written, LinkFits
<1>4. DraftFits(w)
  BY <1>2 DEF DraftFits, CreateValue, Editable
<1>5. ForestFits(w) /\ Unset(w) /\ FixedFits(w) /\ MoveFits(w)
      /\ OptionFits(w)
  BY <1>2 DEF ForestFits, Unset, Removes, FixedFits,
         MoveFits, OptionFits
<1>6. FreeFits(w)
  BY <1>2 DEF FreeFits, CreateValue
<1> QED BY <1>2, <1>3, <1>4, <1>5, <1>6 DEF Checked

(* Where no rule sets the text of a value, other values have the texts     *)
(* that rules set.                                                         *)
LEMMA Spared ==
    ASSUME NEW w, Removes(w), Unset(w), w.id \in DOMAIN db.values, OptionInv
    PROVE  \A i \in DOMAIN db.rules : TextHolds(db.rules[i], {w.id})
<1> SUFFICES ASSUME NEW i \in DOMAIN db.rules,
                    db.rules[i].type = "CALCULATION", db.rules[i].set # None,
                    db.rules[i].target \in DOMAIN db.fields,
                    ~db.fields[db.rules[i].target].free
             PROVE  \E j \in ValuesOf(db, db.rules[i].target) \ {w.id} :
                        db.values[j].text = db.rules[i].set
  BY DEF TextHolds
<1>1. PICK j \in ValuesOf(db, db.rules[i].target) :
            db.values[j].text = db.rules[i].set
  BY DEF OptionInv, TextHolds
<1>2. j # w.id
  BY <1>1 DEF Unset, SettersOf, CalculationsOf, ValuesOf
<1> QED BY <1>1, <1>2

LEMMA UpdateValueIs ==
    ASSUME TypeOK, NEW i \in DOMAIN db.values, NEW value \in SomeValue,
           UpdateValue(i, value)
    PROVE  \E w : Checked(w) /\ Submit(w)
<1>1. value \in RowsOf("values")
  BY TypesOf DEF SomeValue, RowsOf, ValueRows, SomeModifier, Tables
<1>2. PICK w : UpdatesTo(w, "values", i, value) /\ Submit(w)
  <2>1. Update("update value", "values", i, value)
    BY DEF UpdateValue
  <2>2. "values" \in Tables /\ "update value" = KindOf("update", "values")
    BY DEF Tables, KindOf
  <2> QED BY <1>1, <2>1, <2>2, UpdateIs
<1>3. Written(w) /\ LinkFits(w)
  BY <1>2 DEF UpdatesTo, Written, LinkFits
<1>4. DraftFits(w)
  BY <1>2 DEF UpdatesTo, DraftFits, Home, UpdateValue, Editable
<1>5. ForestFits(w) /\ FreeFits(w)
  BY <1>2 DEF UpdatesTo, ForestFits, FreeFits, UpdateValue
<1>6. Unset(w)
  BY <1>2 DEF UpdatesTo, Unset, Removes, UpdateValue
<1>7. FixedFits(w) /\ MoveFits(w)
  BY <1>2 DEF UpdatesTo, FixedFits, MoveFits, Home, Of, UpdateValue
<1>8. OptionInv => OptionFits(w)
  BY <1>2, <1>6, Spared DEF UpdatesTo, OptionFits
<1> QED BY <1>2, <1>3, <1>4, <1>5, <1>6, <1>7, <1>8 DEF Checked

LEMMA DeleteValueIs ==
    ASSUME TypeOK, NEW i \in DOMAIN db.values, DeleteValue(i)
    PROVE  \E w : Checked(w) /\ Submit(w)
<1>1. PICK w : /\ IsDelete(w) /\ w.op = "delete" /\ w.table = "values" /\ w.id = i
               /\ Submit(w)
  BY DeleteIs DEF DeleteValue, KindOf, Tables
<1>2. Written(w) /\ LinkFits(w)
  BY <1>1 DEF Written, LinkFits
<1>3. DraftFits(w)
  BY <1>1 DEF DraftFits, Home, DeleteValue, Editable
<1>4. ForestFits(w) /\ FreeFits(w) /\ FixedFits(w) /\ MoveFits(w)
  BY <1>1 DEF ForestFits, FreeFits, FixedFits, MoveFits
<1>5. Unset(w)
  BY <1>1 DEF Unset, DeleteValue
<1>6. OptionInv => OptionFits(w)
  BY <1>1, <1>5, Spared DEF OptionFits
<1> QED BY <1>1, <1>2, <1>3, <1>4, <1>5, <1>6 DEF Checked

LEMMA CreateRuleIs ==
    ASSUME TypeOK, LinkInv, NEW v \in DOMAIN versions, NEW rule \in SomeRule(v),
           CreateRule(rule)
    PROVE  \E w : Checked(w) /\ Submit(w)
<1>1. rule \in RowsOf("rules") /\ rule.version = v
      /\ rule.option \in DOMAIN db.values \cup {None}
      /\ rule.target \in Of(db, "fields", v)
  <2> HIDE DEF Criteria
  <2>1. rule \in RuleRows
    BY TypesOf DEF SomeRule, RuleRows, Tables, Of
  <2> QED BY <2>1 DEF SomeRule, RowsOf
<1>2. PICK w : /\ IsInsert(w) /\ w.op = "insert" /\ w.table = "rules"
               /\ w.row = rule /\ Submit(w)
  BY <1>1, InsertIs DEF CreateRule, KindOf, Tables
<1>3. Written(w) /\ LinkFits(w)
  BY <1>2 DEF Written, LinkFits
<1>4. DraftFits(w)
  BY <1>2 DEF DraftFits, CreateRule, Editable
<1>5. ForestFits(w) /\ FreeFits(w) /\ Unset(w)
  BY <1>2 DEF ForestFits, FreeFits, Unset, Removes
<1>6. FixedFits(w) /\ MoveFits(w)
  BY <1>1, <1>2 DEF FixedFits, MoveFits, Of
<1>7. OptionFits(w)
  <2>1. OptionHolds(rule)
    <3>1. rule.option \in DOMAIN db.values => rule.option # None
      BY TypesOf, NoneAssumption DEF Tables
    <3> QED BY <3>1 DEF CreateRule, InField, ValuesOf, OptionHolds
  <2>2. TextHolds(rule, {})
    BY DEF CreateRule, MaySet, TextsOf, ValuesOf, TextHolds
  <2> QED BY <1>2, <2>1, <2>2 DEF OptionFits, Removes
<1> QED BY <1>2, <1>3, <1>4, <1>5, <1>6, <1>7 DEF Checked

LEMMA UpdateRuleIs ==
    ASSUME TypeOK, LinkInv, NEW i \in DOMAIN db.rules,
           NEW rule \in SomeRule(db.rules[i].version), UpdateRule(i, rule)
    PROVE  \E w : Checked(w) /\ Submit(w)
<1> DEFINE old == db.rules[i]
<1>1. /\ old \in RuleRows /\ rule \in RowsOf("rules")
      /\ rule.version = old.version
      /\ rule.option \in DOMAIN db.values \cup {None}
      /\ rule.target \in Of(db, "fields", old.version)
  <2> HIDE DEF Criteria
  <2>1. old \in RuleRows
    BY TypesOf
  <2>2. rule \in RuleRows
    BY <2>1, TypesOf DEF SomeRule, RuleRows, Tables, Of
  <2> QED BY <2>1, <2>2 DEF SomeRule, RowsOf
<1>2. PICK w : UpdatesTo(w, "rules", i, rule) /\ Submit(w)
  <2>1. Update("update rule", "rules", i, rule)
    BY DEF UpdateRule
  <2>2. "rules" \in Tables /\ "update rule" = KindOf("update", "rules")
    BY DEF Tables, KindOf
  <2> QED BY <1>1, <2>1, <2>2, UpdateIs
<1>3. Written(w) /\ LinkFits(w)
  BY <1>1, <1>2 DEF UpdatesTo, Written, LinkFits
<1>4. DraftFits(w)
  BY <1>2 DEF UpdatesTo, DraftFits, Home, UpdateRule, Editable
<1>5. ForestFits(w) /\ FreeFits(w) /\ Unset(w)
  BY <1>2 DEF UpdatesTo, ForestFits, FreeFits, Unset, Removes
<1>6. FixedFits(w) /\ MoveFits(w)
  BY <1>1, <1>2 DEF UpdatesTo, FixedFits, MoveFits, Of
<1>7. OptionInv => OptionFits(w)
  <2> SUFFICES ASSUME OptionInv PROVE OptionFits(w)
    OBVIOUS
  <2>1. OptionHolds(rule)
    <3> SUFFICES ASSUME rule.option \in DOMAIN db.values
                 PROVE  db.values[rule.option].field = rule.target
      BY DEF OptionHolds
    <3>1. rule.option # None
      BY TypesOf, NoneAssumption DEF Tables
    <3>2. CASE <<rule.target, rule.option>> = <<old.target, old.option>>
      <4>1. rule.target = old.target /\ rule.option = old.option
        BY <3>2
      <4> QED BY <4>1 DEF OptionInv, OptionHolds
    <3>3. CASE <<rule.target, rule.option>> # <<old.target, old.option>>
      BY <3>1, <3>3 DEF UpdateRule, InField, ValuesOf
    <3> QED BY <3>2, <3>3
  <2>2. TextHolds(rule, {})
    <3> SUFFICES ASSUME rule.type = "CALCULATION", rule.set # None,
                        ~db.fields[rule.target].free
                 PROVE  \E j \in ValuesOf(db, rule.target) \ {} :
                            db.values[j].text = rule.set
      BY DEF TextHolds
    <3>1. MaySet(rule, rule.set)
      BY DEF UpdateRule
    <3>2. rule.set \in TextsOf(db, rule.target)
      BY <3>1 DEF MaySet
    <3> QED BY <3>2 DEF TextsOf
  <2>3. Over(db.rules[i], w.set) = rule
    BY <1>2 DEF UpdatesTo
  <2> QED BY <1>2, <2>1, <2>2, <2>3 DEF UpdatesTo, OptionFits, Removes
<1> QED BY <1>2, <1>3, <1>4, <1>5, <1>6, <1>7 DEF Checked

LEMMA DeleteRuleIs ==
    ASSUME TypeOK, NEW i \in DOMAIN db.rules, DeleteRule(i)
    PROVE  \E w : Checked(w) /\ Submit(w)
<1>1. PICK w : /\ IsDelete(w) /\ w.op = "delete" /\ w.table = "rules" /\ w.id = i
               /\ Submit(w)
  BY DeleteIs DEF DeleteRule, KindOf, Tables
<1>2. Written(w) /\ LinkFits(w)
  BY <1>1 DEF Written, LinkFits
<1>3. DraftFits(w)
  BY <1>1 DEF DraftFits, Home, DeleteRule, Editable
<1>4. ForestFits(w) /\ FreeFits(w) /\ Unset(w) /\ FixedFits(w) /\ MoveFits(w)
      /\ OptionFits(w)
  BY <1>1 DEF ForestFits, FreeFits, Unset, Removes, FixedFits,
         MoveFits, OptionFits
<1> QED BY <1>1, <1>2, <1>3, <1>4 DEF Checked

LEMMA CreateItemIs ==
    ASSUME TypeOK, NEW v \in DOMAIN versions, NEW item \in SomeItem(v),
           CreateItem(item)
    PROVE  \E w : Checked(w) /\ Submit(w)
<1>1. item \in RowsOf("items") /\ item.version = v
  BY TypesOf DEF SomeItem, RowsOf, ItemRows, Tables
<1>2. PICK w : /\ IsInsert(w) /\ w.op = "insert" /\ w.table = "items"
               /\ w.row = item /\ Submit(w)
  BY <1>1, InsertIs DEF CreateItem, KindOf, Tables
<1>3. \A t \in Tables : \A j \in DOMAIN db[t] : j # None
  BY TypesOf, NoneAssumption
<1>4. Written(w) /\ LinkFits(w)
  <2>1. item.parent \in DOMAIN db.items => item.parent # None
    BY <1>3 DEF Tables
  <2> QED BY <1>2, <2>1 DEF Written, LinkFits, CreateItem, Of
<1>5. DraftFits(w)
  BY <1>2 DEF DraftFits, CreateItem, Editable
<1>6. ForestFits(w) /\ FreeFits(w) /\ Unset(w) /\ OptionFits(w)
  BY <1>2 DEF ForestFits, FreeFits, Unset, Removes, OptionFits
<1>7. FixedFits(w) /\ MoveFits(w)
  <2>1. item.quantity \in DOMAIN db.fields => item.quantity # None
    BY <1>3 DEF Tables
  <2> QED BY <1>2, <2>1 DEF FixedFits, MoveFits, CreateItem, CountsBy, Of
<1> QED BY <1>2, <1>4, <1>5, <1>6, <1>7 DEF Checked

(* Where the walk up the parents of the new parent does not come to the    *)
(* item, what it comes to is a set of items as ForestFits asks for.        *)
LEMMA UpdateItemIs ==
    ASSUME TypeOK, LinkInv, NEW i \in DOMAIN db.items,
           NEW item \in SomeItem(db.items[i].version), UpdateItem(i, item)
    PROVE  \E w : Checked(w) /\ Submit(w)
<1> DEFINE old == db.items[i]
<1>1. old \in ItemRows /\ item \in RowsOf("items") /\ item.version = old.version
  <2>1. old \in ItemRows
    BY TypesOf
  <2>2. item \in ItemRows
    BY <2>1, TypesOf DEF SomeItem, ItemRows, Tables
  <2> QED BY <2>1, <2>2 DEF SomeItem, RowsOf
<1>2. PICK w : UpdatesTo(w, "items", i, item) /\ Submit(w)
  <2>1. Update("update item", "items", i, item)
    BY DEF UpdateItem
  <2>2. "items" \in Tables /\ "update item" = KindOf("update", "items")
    BY DEF Tables, KindOf
  <2> QED BY <1>1, <2>1, <2>2, UpdateIs
<1>3. /\ w.op = "update" /\ w.table = "items" /\ w.id = i
      /\ "parent" \in DOMAIN w.set => w.set.parent = item.parent
                                      /\ item.parent # old.parent
      /\ "quantity" \in DOMAIN w.set => w.set.quantity = item.quantity
                                        /\ item.quantity # old.quantity
      /\ "version" \notin DOMAIN w.set
      /\ Written(w)
  BY <1>1, <1>2 DEF UpdatesTo, Written
<1>4. \A t \in Tables : \A j \in DOMAIN db[t] : j # None
  BY TypesOf, NoneAssumption
<1>5. ASSUME item.parent \in DOMAIN db.items, item.parent # old.parent
      PROVE  MayHangBelow(i, item.parent, old.version)
  <2>1. item.parent # None
    BY <1>4, <1>5 DEF Tables
  <2> QED BY <1>5, <2>1 DEF UpdateItem
<1>6. LinkFits(w)
  BY <1>3, <1>5 DEF LinkFits, MayHangBelow, Of
<1>7. DraftFits(w)
  BY <1>3 DEF DraftFits, Home, UpdateItem, Editable
<1>8. FreeFits(w) /\ Unset(w) /\ OptionFits(w)
  BY <1>3 DEF FreeFits, Unset, Removes, OptionFits
<1>9. FixedFits(w) /\ MoveFits(w)
  <2>1. item.quantity \in DOMAIN db.fields => item.quantity # None
    BY <1>4 DEF Tables
  <2> QED BY <1>3, <2>1 DEF FixedFits, MoveFits, UpdateItem, CountsBy, Of
<1>10. ForestFits(w)
  <2> SUFFICES ASSUME item.parent \in DOMAIN db.items, item.parent # old.parent
               PROVE  \E S \in SUBSET DOMAIN db.items :
                        Upward(db, S) /\ item.parent \in S /\ i \notin S
    BY <1>3 DEF ForestFits
  <2>1. Hanging(db)
    BY DEF LinkInv, RefersToRows, Hanging
  <2>2. IsFiniteSet(DOMAIN db.items)
    BY FiniteItems
  <2>3. /\ item.parent \in Above(db, item.parent)
        /\ Above(db, item.parent) \subseteq DOMAIN db.items
        /\ Upward(db, Above(db, item.parent))
    BY <2>1, <2>2, AboveSelf, AboveUpward
  <2>4. i \notin Above(db, item.parent)
    BY <1>5 DEF MayHangBelow
  <2> QED BY <2>3, <2>4
<1> QED BY <1>2, <1>3, <1>6, <1>7, <1>8, <1>9, <1>10 DEF Checked

LEMMA DeleteItemIs ==
    ASSUME TypeOK, NEW i \in DOMAIN db.items, DeleteItem(i)
    PROVE  \E w : Checked(w) /\ Submit(w)
<1>1. PICK w : /\ IsDelete(w) /\ w.op = "delete" /\ w.table = "items" /\ w.id = i
               /\ Submit(w)
  BY DeleteIs DEF DeleteItem, KindOf, Tables
<1>2. Written(w) /\ LinkFits(w)
  BY <1>1 DEF Written, LinkFits
<1>3. DraftFits(w)
  BY <1>1 DEF DraftFits, Home, DeleteItem, Editable
<1>4. ForestFits(w) /\ FreeFits(w) /\ Unset(w) /\ FixedFits(w) /\ MoveFits(w)
      /\ OptionFits(w)
  BY <1>1 DEF ForestFits, FreeFits, Unset, Removes, FixedFits,
         MoveFits, OptionFits
<1> QED BY <1>1, <1>2, <1>3, <1>4 DEF Checked

LEMMA CreateUseIs ==
    ASSUME TypeOK, NEW v \in DOMAIN versions, NEW use \in SomeUse(v), CreateUse(use)
    PROVE  \E w : Checked(w) /\ Submit(w)
<1>1. use \in RowsOf("uses") /\ use.version = v
  <2> HIDE DEF Criteria
  <2> QED BY TypesOf DEF SomeUse, RowsOf, UseRows, Tables
<1>2. PICK w : /\ IsInsert(w) /\ w.op = "insert" /\ w.table = "uses"
               /\ w.row = use /\ Submit(w)
  BY <1>1, InsertIs DEF CreateUse, KindOf, Tables
<1>3. Written(w) /\ LinkFits(w)
  BY <1>2 DEF Written, LinkFits, CreateUse, Of
<1>4. DraftFits(w)
  BY <1>2 DEF DraftFits, CreateUse, Editable
<1>5. ForestFits(w) /\ FreeFits(w) /\ Unset(w) /\ FixedFits(w) /\ MoveFits(w)
      /\ OptionFits(w)
  BY <1>2 DEF ForestFits, FreeFits, Unset, Removes, FixedFits,
         MoveFits, OptionFits
<1> QED BY <1>2, <1>3, <1>4, <1>5 DEF Checked

LEMMA UpdateUseIs ==
    ASSUME TypeOK, NEW i \in DOMAIN db.uses, NEW reads \in Criteria,
           UpdateUse(i, reads)
    PROVE  \E w : Checked(w) /\ Submit(w)
<1> DEFINE use == [db.uses[i] EXCEPT !.reads = reads]
<1>1. /\ db.uses[i] \in UseRows /\ use \in RowsOf("uses")
      /\ use.version = db.uses[i].version /\ use.item = db.uses[i].item
  <2> HIDE DEF Criteria
  <2>1. db.uses[i] \in UseRows
    BY TypesOf
  <2> QED BY <2>1 DEF RowsOf, UseRows
<1>2. PICK w : UpdatesTo(w, "uses", i, use) /\ Submit(w)
  <2>1. Update("update use", "uses", i, use)
    BY DEF UpdateUse
  <2>2. "uses" \in Tables /\ "update use" = KindOf("update", "uses")
    BY DEF Tables, KindOf
  <2> HIDE DEF use
  <2> QED BY <1>1, <2>1, <2>2, UpdateIs
<1> HIDE DEF use
<1>3. Written(w) /\ LinkFits(w)
  BY <1>1, <1>2 DEF UpdatesTo, Written, LinkFits
<1>4. DraftFits(w)
  BY <1>2 DEF UpdatesTo, DraftFits, Home, UpdateUse, Editable
<1>5. ForestFits(w) /\ FreeFits(w) /\ Unset(w) /\ FixedFits(w) /\ MoveFits(w)
      /\ OptionFits(w)
  BY <1>1, <1>2 DEF UpdatesTo, ForestFits, FreeFits, Unset, Removes, FixedFits,
                    MoveFits, OptionFits
<1> QED BY <1>2, <1>3, <1>4, <1>5 DEF Checked

LEMMA DeleteUseIs ==
    ASSUME TypeOK, NEW i \in DOMAIN db.uses, DeleteUse(i)
    PROVE  \E w : Checked(w) /\ Submit(w)
<1>1. PICK w : /\ IsDelete(w) /\ w.op = "delete" /\ w.table = "uses" /\ w.id = i
               /\ Submit(w)
  BY DeleteIs DEF DeleteUse, KindOf, Tables
<1>2. Written(w) /\ LinkFits(w)
  BY <1>1 DEF Written, LinkFits
<1>3. DraftFits(w)
  BY <1>1 DEF DraftFits, Home, DeleteUse, Editable
<1>4. ForestFits(w) /\ FreeFits(w) /\ Unset(w) /\ FixedFits(w) /\ MoveFits(w)
      /\ OptionFits(w)
  BY <1>1 DEF ForestFits, FreeFits, Unset, Removes, FixedFits,
         MoveFits, OptionFits
<1> QED BY <1>1, <1>2, <1>3, <1>4 DEF Checked

LEMMA PublishIs ==
    ASSUME NEW v \in DOMAIN versions, Publish(v)
    PROVE  \E w : Checked(w) /\ Submit(w)
<1> DEFINE w == [kind |-> "publish", op |-> "publish", id |-> v]
<1>1. Submit(w)
  BY DEF Publish
<1>2. w.kind = "publish" /\ w.op = "publish" /\ w.id = v
  OBVIOUS
<1> HIDE DEF w
<1>3. Written(w) /\ LinkFits(w)
  BY <1>2 DEF Written, IsPublish, LinkFits
<1>4. /\ DraftFits(w) /\ ForestFits(w) /\ FreeFits(w) /\ Unset(w)
      /\ FixedFits(w) /\ MoveFits(w)
      /\ OptionFits(w)
  BY <1>2 DEF DraftFits, ForestFits, FreeFits, Unset, Removes, FixedFits,
         MoveFits, OptionFits
<1> QED BY <1>1, <1>3, <1>4 DEF Checked

(* A step is of a handler whose write passed its checks, of a clone, or of *)
(* the handler that was held up.                                           *)
LEMMA NextIs ==
    ASSUME TypeOK, LinkInv, Next
    PROVE  \/ \E w : Checked(w) /\ Submit(w)
           \/ \E v \in DOMAIN versions : Clones(v)
           \/ GoOn
<1>1. CASE EditFields
  BY <1>1, CreateFieldIs, UpdateFieldIs, DeleteFieldIs DEF EditFields
<1>2. CASE EditValues
  BY <1>2, CreateValueIs, UpdateValueIs, DeleteValueIs DEF EditValues
<1>3. CASE EditRules
  BY <1>3, CreateRuleIs, UpdateRuleIs, DeleteRuleIs DEF EditRules
<1>4. CASE EditItems
  BY <1>4, CreateItemIs, UpdateItemIs, DeleteItemIs DEF EditItems
<1>5. CASE EditUses
  BY <1>5, CreateUseIs, UpdateUseIs, DeleteUseIs DEF EditUses
<1>6. CASE \E v \in DOMAIN versions : Publish(v) \/ Clone(v)
  BY <1>6, PublishIs, CloneIs
<1> QED BY <1>1, <1>2, <1>3, <1>4, <1>5, <1>6 DEF Next

-----------------------------------------------------------------------------
(* A step, row by row                                                      *)

(* What a commit leaves of row i of table t.                               *)
Kept(w, t, i) ==
    \/ db'[t][i] = db[t][i]
    \/ /\ w.op = "update" /\ w.table = t /\ w.id = i
       /\ db'[t][i] = Over(db[t][i], w.set)
    \/ /\ w.op = "delete" /\ w.table = "fields" /\ t = "items"
       /\ db.items[i].quantity = w.id
       /\ db'.items[i] = Uncounted(db.items[i])
       /\ db'.items[i].version = db.items[i].version
       /\ db'.items[i].parent = db.items[i].parent
       /\ db'.items[i].quantity = None

(* Why row i of table t goes.                                              *)
Gone(w, t, i) ==
    /\ w.op = "delete"
    /\ \/ w.table = t /\ i = w.id
       \/ /\ w.table = "fields" /\ t = "values" /\ db.values[i].field = w.id
          /\ w.id \notin DOMAIN db'.fields
       \/ w.table = "items" /\ w.id \in DOMAIN db.items
          /\ t = "items" /\ i \in Below(db, w.id)
       \/ w.table = "items" /\ w.id \in DOMAIN db.items
          /\ t = "uses" /\ db.uses[i].item \in Below(db, w.id)

RowByRow(w) ==
    \A t \in Tables :
        /\ \A i \in DOMAIN db'[t] :
              IF i \in DOMAIN db[t] THEN Kept(w, t, i)
              ELSE /\ w.op = "insert" /\ w.table = t
                   /\ i = last[t] + 1 /\ db'[t][i] = w.row
        /\ \A i \in DOMAIN db[t] \ DOMAIN db'[t] : Gone(w, t, i)

LEMMA CommitRows ==
    ASSUME TypeOK, NEW w, Written(w), Commit(w)
    PROVE  RowByRow(w)
<1>1. CASE Fails
  <2> HIDE DEF Tables
  <2> QED BY <1>1 DEF Fails, RowByRow, Kept
<1>2. CASE IsInsert(w) /\ Adds(w.table, w.row)
  <2>1. w.op = "insert" /\ w.table \in Tables /\ w.row \in RowsOf(w.table)
    BY <1>2 DEF IsInsert, Writes
  <2>2. /\ last[w.table] + 1 \notin DOMAIN db[w.table]
        /\ DOMAIN db'[w.table] = DOMAIN db[w.table] \cup {last[w.table] + 1}
        /\ db'[w.table][last[w.table] + 1] = w.row
        /\ \A i \in DOMAIN db[w.table] : db'[w.table][i] = db[w.table][i]
        /\ \A u \in Tables \ {w.table} : db'[u] = db[u]
    BY <1>2, <2>1, AfterAdds
  <2> HIDE DEF Tables
  <2> QED BY <2>1, <2>2 DEF RowByRow, Kept
<1>3. CASE IsUpdate(w) /\ Changes(w.table, w.id, w.set)
  <2>1. /\ w.op = "update" /\ w.table \in Tables /\ PartOf(w.set, RowsOf(w.table))
    BY <1>3 DEF IsUpdate, Writes
  <2>2. /\ \A u \in Tables : DOMAIN db'[u] = DOMAIN db[u]
        /\ db'[w.table][w.id] = Over(db[w.table][w.id], w.set)
        /\ \A i \in DOMAIN db[w.table] \ {w.id} : db'[w.table][i] = db[w.table][i]
        /\ \A u \in Tables \ {w.table} : db'[u] = db[u]
    BY <1>3, <2>1, AfterChanges
  <2> HIDE DEF Tables
  <2> QED BY <2>1, <2>2 DEF RowByRow, Kept
<1>4. CASE IsDelete(w) /\ w.table = "fields" /\ DropsField(w.id)
  <2>1. w.op = "delete"
    BY <1>4 DEF IsDelete, Writes
  <2>2. /\ DOMAIN db'.fields = DOMAIN db.fields \ {w.id}
        /\ \A i \in DOMAIN db'.fields : db'.fields[i] = db.fields[i]
        /\ DOMAIN db'.values = DOMAIN db.values \ ValuesOf(db, w.id)
        /\ \A i \in DOMAIN db'.values : db'.values[i] = db.values[i]
        /\ DOMAIN db'.items = DOMAIN db.items
        /\ \A i \in DOMAIN db.items :
             /\ db'.items[i].version = db.items[i].version
             /\ db'.items[i].parent = db.items[i].parent
             /\ db.items[i].quantity = w.id =>
                    /\ db'.items[i].quantity = None
                    /\ db'.items[i] = Uncounted(db.items[i])
             /\ db.items[i].quantity # w.id => db'.items[i] = db.items[i]
        /\ db'.rules = db.rules
        /\ db'.uses = db.uses
    BY <1>4, AfterDropsField
  <2> QED BY <1>4, <2>1, <2>2 DEF RowByRow, Kept, Gone, ValuesOf, Tables
<1>5. CASE IsDelete(w) /\ w.table = "items" /\ DropsItem(w.id)
  <2>1. w.op = "delete" /\ w.id \in DOMAIN db.items
    BY <1>5 DEF IsDelete, Writes, DropsItem
  <2>2. /\ DOMAIN db'.items = DOMAIN db.items \ Below(db, w.id)
        /\ \A i \in DOMAIN db'.items : db'.items[i] = db.items[i]
        /\ DOMAIN db'.uses = {i \in DOMAIN db.uses :
                                 db.uses[i].item \notin Below(db, w.id)}
        /\ \A i \in DOMAIN db'.uses : db'.uses[i] = db.uses[i]
        /\ db'.fields = db.fields
        /\ db'.values = db.values
        /\ db'.rules = db.rules
    BY <1>5, AfterDropsItem
  <2> QED BY <1>5, <2>1, <2>2 DEF RowByRow, Kept, Gone, Tables
<1>6. CASE IsDelete(w) /\ w.table # "fields" /\ Drops(w.table, w.id)
  <2>1. w.op = "delete" /\ w.table \in Tables
    BY <1>6 DEF IsDelete, Writes
  <2>2. /\ DOMAIN db'[w.table] = DOMAIN db[w.table] \ {w.id}
        /\ \A i \in DOMAIN db'[w.table] : db'[w.table][i] = db[w.table][i]
        /\ \A u \in Tables \ {w.table} : db'[u] = db[u]
    BY <1>6, <2>1, AfterDrops
  <2> HIDE DEF Tables
  <2> QED BY <2>1, <2>2 DEF RowByRow, Kept, Gone
<1>7. CASE IsPublish(w) /\ CommitPublish(w.id)
  <2>1. db' = db
    BY <1>7, AfterPublish
  <2> HIDE DEF Tables
  <2> QED BY <2>1 DEF RowByRow, Kept
<1> QED BY <1>1, <1>2, <1>3, <1>4, <1>5, <1>6, <1>7, CommitIs

(* A clone keeps the rows there are.                                       *)
LEMMA CloneRows ==
    ASSUME TypeOK, NEW v, Clones(v)
    PROVE  \A t \in Tables :
              /\ DOMAIN db[t] \subseteq DOMAIN db'[t]
              /\ \A i \in DOMAIN db[t] : db'[t][i] = db[t][i]
              /\ \A i \in DOMAIN db'[t] \ DOMAIN db[t] :
                    /\ i > last[t]
                    /\ \E j \in Of(db, t, v) : i = NewId(t, v, j)
<1> TAKE t \in Tables
<1>1. Grows(t, v)
  BY DEF Clones
<1>2. \A j \in Of(db, t, v) : NewId(t, v, j) > last[t]
  BY ClonedIds
<1> HIDE DEF Tables
<1> QED BY <1>1, <1>2 DEF Grows

-----------------------------------------------------------------------------
(* Where rows stay in their versions                                       *)

Settled ==
    /\ Onward
    /\ RefersToRows(db')
    /\ \A t \in Tables : \A i \in DOMAIN db'[t] :
          i <= last[t] =>
              /\ i \in DOMAIN db[t]
              /\ IF t = "values" THEN db'.values[i].field = db.values[i].field
                                 ELSE db'[t][i].version = db[t][i].version

LEMMA CommitSettles ==
    ASSUME TypeOK, LinkInv, NEW w, Written(w), LinkFits(w), Still(w), Commit(w)
    PROVE  Settled
<1>1. Onward /\ RefersToRows(db')
  BY CommitLinks DEF LinkInv
<1>2. RowByRow(w)
  BY CommitRows
<1>3. \A t \in Tables : last[t] \in Nat
  BY TypesOf
<1> SUFFICES ASSUME NEW t \in Tables, NEW i \in DOMAIN db'[t], i <= last[t]
             PROVE  /\ i \in DOMAIN db[t]
                    /\ IF t = "values"
                       THEN db'.values[i].field = db.values[i].field
                       ELSE db'[t][i].version = db[t][i].version
  BY <1>1 DEF Settled
<1>4. i \in DOMAIN db[t] /\ Kept(w, t, i)
  BY <1>2, <1>3 DEF RowByRow
<1>5. CASE w.op = "update" /\ w.table = t /\ w.id = i
           /\ db'[t][i] = Over(db[t][i], w.set)
  <2>1. db[t][i] \in RowsOf(t)
    BY <1>4 DEF TypeOK
  <2>2. CASE t = "values"
    BY <1>4, <1>5, <2>1, <2>2 DEF RowsOf, ValueRows, Over, Still, Moving
  <2>3. CASE t # "values"
    <3>1. "version" \in DOMAIN db[t][i]
      <4> HIDE DEF Criteria
      <4> QED BY <2>1, <2>3 DEF RowsOf, FieldRows, RuleRows, ItemRows, UseRows, Tables
    <3>2. "version" \notin DOMAIN w.set
      BY <1>5, <2>3 DEF LinkFits, Still, Moving, Tables
    <3> HIDE DEF Tables
    <3> QED BY <1>4, <1>5, <2>3, <3>1, <3>2 DEF Over
  <2> QED BY <2>2, <2>3
<1> QED BY <1>4, <1>5 DEF Kept

LEMMA CloneSettles ==
    ASSUME TypeOK, LinkInv, NEW v, Clones(v)
    PROVE  Settled
<1>1. Onward /\ RefersToRows(db')
  BY CloneLinks DEF LinkInv
<1>2. \A t \in Tables : last[t] \in Nat /\ DOMAIN db'[t] \subseteq Nat
  BY <1>1, TypesOf DEF Onward, TypeOK
<1>3. \A t \in Tables :
        /\ \A i \in DOMAIN db[t] : db'[t][i] = db[t][i]
        /\ \A i \in DOMAIN db'[t] \ DOMAIN db[t] : i > last[t]
  BY CloneRows
<1>4. \A t \in Tables : \A i \in DOMAIN db'[t] :
          i <= last[t] => i \in DOMAIN db[t] /\ db'[t][i] = db[t][i]
  <2> HIDE DEF Tables
  <2> QED BY <1>2, <1>3
<1> QED BY <1>1, <1>4 DEF Settled

(* The columns of what is written.                                         *)
LEMMA WrittenIs ==
    ASSUME NEW w, Written(w)
    PROVE  /\ w.op \in {"insert", "update", "delete"} => w.table \in Tables
           /\ w.op = "insert" => w.row \in RowsOf(w.table)
           /\ w.op = "update" => PartOf(w.set, RowsOf(w.table))
           /\ w.op \in {"update", "delete"} => w.id \in 1..last[w.table]
           /\ w.op \in {"insert", "update", "delete", "publish"}
           /\ w.op # "publish" => w.kind = KindOf(w.op, w.table)
           /\ w.op = "publish" => w.kind = "publish"
  BY DEF Written, IsInsert, IsUpdate, IsDelete, IsPublish, Writes

LEMMA FixedKeeps ==
    ASSUME TypeOK, Settled, NEW w, Written(w), FixedFits(w)
    PROVE  FixedFits(w)'
<1>1. /\ \A i \in DOMAIN db'.fields : i \in 1..last["fields"] =>
            i \in DOMAIN db.fields /\ db'.fields[i].version = db.fields[i].version
      /\ \A i \in DOMAIN db'.rules : i \in 1..last["rules"] =>
            i \in DOMAIN db.rules /\ db'.rules[i].version = db.rules[i].version
      /\ \A i \in DOMAIN db'.items : i \in 1..last["items"] =>
            i \in DOMAIN db.items /\ db'.items[i].version = db.items[i].version
  BY TypesOf DEF Settled, Tables
<1>2. None \notin DOMAIN db'.fields
  BY NoneAssumption DEF Settled, Onward, TypeOK, Tables
<1>3. CASE w.op = "insert" /\ w.table = "rules"
  <2>1. w.row.target \in 1..last["fields"]
    BY <1>3, WrittenIs DEF RowsOf, RuleRows
  <2> QED BY <1>1, <1>3, <2>1 DEF FixedFits
<1>4. CASE w.op = "insert" /\ w.table = "items"
  <2>1. w.row.quantity \in 1..last["fields"] \cup {None}
    BY <1>4, WrittenIs DEF RowsOf, ItemRows
  <2> QED BY <1>1, <1>2, <1>4, <2>1 DEF FixedFits
<1>5. CASE w.op = "update" /\ w.table = "rules"
  <2>1. /\ w.id \in 1..last["rules"]
        /\ "target" \in DOMAIN w.set => w.set.target \in 1..last["fields"]
    BY <1>5, WrittenIs DEF RowsOf, RuleRows, PartOf
  <2> QED BY <1>1, <1>5, <2>1 DEF FixedFits
<1>6. CASE w.op = "update" /\ w.table = "items"
  <2>1. /\ w.id \in 1..last["items"]
        /\ "quantity" \in DOMAIN w.set =>
              w.set.quantity \in 1..last["fields"] \cup {None}
    BY <1>6, WrittenIs DEF RowsOf, ItemRows, PartOf
  <2> QED BY <1>1, <1>2, <1>6, <2>1 DEF FixedFits
<1>7. CASE w.op = "update" /\ w.table \notin {"rules", "items"}
  BY <1>7 DEF FixedFits
<1>8. CASE w.op = "insert" => w.table \notin {"rules", "items"}
  <2>1. CASE w.op # "update"
    BY <1>8, <2>1 DEF FixedFits
  <2> QED BY <1>5, <1>6, <1>7, <2>1
<1> QED BY <1>3, <1>4, <1>5, <1>6, <1>7, <1>8

LEMMA HomeIs ==
    ASSUME TypeOK, RefersToRows(db), NEW t \in Tables, NEW i \in DOMAIN db[t]
    PROVE  /\ Home(db, t, i) \in DOMAIN versions
           /\ \A v : i \in Of(db, t, v) <=> Home(db, t, i) = v
<1>1. db[t][i] \in RowsOf(t)
  BY DEF TypeOK
<1>2. CASE t = "values"
  <2>1. db.values[i].field \in DOMAIN db.fields
    BY <1>2 DEF RefersToRows
  <2> QED BY <1>2, <2>1, TypesOf DEF Home, Of, FieldRows
<1>3. CASE t # "values"
  <2>1. db[t][i].version \in DOMAIN versions
    <3> HIDE DEF Criteria
    <3> QED BY <1>1, <1>3 DEF RowsOf, FieldRows, RuleRows, ItemRows, UseRows, Tables
  <2> HIDE DEF Tables
  <2> QED BY <1>3, <2>1 DEF Home, Of
<1> QED BY <1>2, <1>3

LEMMA SettledHome ==
    ASSUME TypeOK, Settled, NEW t \in Tables, NEW i \in DOMAIN db'[t], i <= last[t]
    PROVE  i \in DOMAIN db[t] /\ Home(db', t, i) = Home(db, t, i)
<1>1. i \in DOMAIN db[t]
  BY DEF Settled
<1>2. CASE t = "values"
  <2>1. db'.values[i].field = db.values[i].field
    BY <1>2 DEF Settled
  <2>2. db'.values[i].field \in DOMAIN db'.fields
    BY <1>2 DEF Settled, RefersToRows
  <2>3. db.values[i].field \in 1..last["fields"]
    BY <1>1, <1>2, TypesOf DEF ValueRows
  <2>4. db'.fields[db.values[i].field].version = db.fields[db.values[i].field].version
    BY <2>1, <2>2, <2>3, TypesOf DEF Settled, Tables
  <2> QED BY <1>1, <1>2, <2>1, <2>4 DEF Home
<1>3. CASE t # "values"
  <2> HIDE DEF Tables
  <2> QED BY <1>1, <1>3 DEF Home, Settled
<1> QED BY <1>2, <1>3

(* What stays where a PATCH may move fields and values.                    *)
Steady ==
    /\ Onward
    /\ RefersToRows(db')
    /\ \A t \in Tables : \A i \in DOMAIN db'[t] :
          i <= last[t] =>
              /\ i \in DOMAIN db[t]
              /\ t \notin {"fields", "values"} =>
                    db'[t][i].version = db[t][i].version

LEMMA CommitSteady ==
    ASSUME TypeOK, LinkInv, NEW w, Written(w), LinkFits(w), Commit(w)
    PROVE  Steady
<1>1. Onward /\ RefersToRows(db')
  BY CommitLinks DEF LinkInv
<1>2. RowByRow(w)
  BY CommitRows
<1>3. \A t \in Tables : last[t] \in Nat
  BY TypesOf
<1> SUFFICES ASSUME NEW t \in Tables, NEW i \in DOMAIN db'[t], i <= last[t]
             PROVE  /\ i \in DOMAIN db[t]
                    /\ t \notin {"fields", "values"} =>
                          db'[t][i].version = db[t][i].version
  BY <1>1 DEF Steady
<1>4. i \in DOMAIN db[t] /\ Kept(w, t, i)
  BY <1>2, <1>3 DEF RowByRow
<1>5. CASE w.op = "update" /\ w.table = t /\ w.id = i
           /\ db'[t][i] = Over(db[t][i], w.set) /\ t \notin {"fields", "values"}
  <2>1. db[t][i] \in RowsOf(t)
    BY <1>4 DEF TypeOK
  <2>2. "version" \in DOMAIN db[t][i]
    <3> HIDE DEF Criteria
    <3> QED BY <1>5, <2>1 DEF RowsOf, RuleRows, ItemRows, UseRows, Tables
  <2>3. "version" \notin DOMAIN w.set
    BY <1>5 DEF LinkFits, Tables
  <2> HIDE DEF Tables
  <2> QED BY <1>4, <1>5, <2>2, <2>3 DEF Over
<1> QED BY <1>4, <1>5 DEF Kept

(* The versions of the fields, and those that values are in.               *)
FieldsStay ==
    \A f \in DOMAIN db'.fields :
        f \in DOMAIN db.fields => db'.fields[f].version = db.fields[f].version

HomesStay ==
    \A i \in DOMAIN db'.values :
        i \in DOMAIN db.values =>
            Home(db', "values", i) = Home(db, "values", i)

LEMMA SteadyOld ==
    ASSUME TypeOK, Steady
    PROVE  /\ \A f \in DOMAIN db'.fields :
                f \in 1..last["fields"] => f \in DOMAIN db.fields
           /\ \A i \in DOMAIN db'.values :
                i \in 1..last["values"] => i \in DOMAIN db.values
  BY TypesOf DEF Steady, Tables

(* Only an update of a field takes a field or a value to another version.  *)
LEMMA CommitHomes ==
    ASSUME TypeOK, LinkInv, NEW w, Written(w), LinkFits(w), MoveFits(w), Commit(w),
           w.kind # "update field"
    PROVE  FieldsStay /\ HomesStay
<1>1. Steady /\ RowByRow(w) /\ RefersToRows(db')
  BY CommitSteady, CommitRows DEF Steady
<1>2. \A f \in DOMAIN db'.fields :
          f \in DOMAIN db.fields => db'.fields[f] = db.fields[f]
  <2>1. ~(w.op = "update" /\ w.table = "fields")
    BY WrittenIs DEF KindOf
  <2> QED BY <1>1, <2>1 DEF RowByRow, Kept, Tables
<1>3. ASSUME NEW i \in DOMAIN db'.values, i \in DOMAIN db.values
      PROVE  Home(db', "values", i) = Home(db, "values", i)
  <2> DEFINE f == db'.values[i].field
  <2>1. f \in DOMAIN db'.fields /\ Kept(w, "values", i) /\ db.values[i] \in ValueRows
    BY <1>1, <1>3, TypesOf DEF RefersToRows, RowByRow, Tables
  <2>2. CASE f = db.values[i].field
    <3>1. f \in DOMAIN db.fields
      BY <1>3, <2>2 DEF LinkInv, RefersToRows
    <3> QED BY <1>2, <2>1, <2>2, <3>1 DEF Home
  <2>3. CASE f # db.values[i].field
    <3>1. /\ w.op = "update" /\ w.table = "values" /\ w.id = i
          /\ db'.values[i] = Over(db.values[i], w.set)
      BY <2>1, <2>3 DEF Kept
    <3>2. "field" \in DOMAIN w.set /\ f = w.set.field
      BY <2>1, <2>3, <3>1 DEF Over, ValueRows
    <3>3. f \in 1..last["fields"]
      BY <3>1, <3>2, WrittenIs DEF RowsOf, ValueRows, PartOf
    <3>4. f \in DOMAIN db.fields
      BY <1>1, <2>1, <3>3, SteadyOld
    <3>5. db.fields[f].version = Home(db, "values", i)
      BY <1>3, <3>1, <3>2, <3>4 DEF MoveFits
    <3> QED BY <1>2, <2>1, <3>4, <3>5 DEF Home
  <2> QED BY <2>2, <2>3
<1> QED BY <1>2, <1>3 DEF FieldsStay, HomesStay

LEMMA SettledHomes ==
    ASSUME TypeOK, Settled
    PROVE  Steady /\ FieldsStay /\ HomesStay
<1>1. Steady
  <2> HIDE DEF Tables
  <2>1. \A t \in Tables : t \notin {"fields", "values"} => t # "values"
    OBVIOUS
  <2> QED BY <2>1 DEF Settled, Steady
<1>2. FieldsStay
  BY TypesOf DEF Settled, FieldsStay, Tables
<1>3. HomesStay
  BY TypesOf, SettledHome DEF HomesStay, Tables
<1> QED BY <1>1, <1>2, <1>3

(* Nothing is published.                                                   *)
DraftsStay == \A v \in DOMAIN versions : versions[v] = "DRAFT" => versions'[v] = "DRAFT"

(* What rests on the version of a field that is there.                     *)
FieldKinds == {"update field", "delete field",
               "create value", "update value", "delete value"}

LEMMA DraftKeeps ==
    ASSUME TypeOK, RefersToRows(db), Steady, DraftsStay, NEW w, Written(w), DraftFits(w),
           w.kind \in FieldKinds => FieldsStay /\ HomesStay
    PROVE  DraftFits(w)'
<1>1. CASE w.op = "insert" /\ w.table # "values"
  <2>1. w.row.version \in DOMAIN versions
    <3>1. w.row \in RowsOf(w.table) /\ w.table \in Tables
      BY <1>1, WrittenIs
    <3> HIDE DEF Criteria
    <3> QED BY <1>1, <3>1 DEF RowsOf, FieldRows, RuleRows, ItemRows, UseRows, Tables
  <2> QED BY <1>1, <2>1 DEF DraftFits, DraftsStay
<1>2. CASE w.op = "insert" /\ w.table = "values"
  <2>1. w.row.field \in 1..last["fields"] /\ FieldsStay
    BY <1>2, WrittenIs DEF RowsOf, ValueRows, KindOf, FieldKinds
  <2>2. ASSUME w.row.field \in DOMAIN db'.fields
        PROVE  versions'[db'.fields[w.row.field].version] = "DRAFT"
    <3>1. /\ w.row.field \in DOMAIN db.fields
          /\ db'.fields[w.row.field].version = db.fields[w.row.field].version
      BY <2>1, <2>2, SteadyOld DEF FieldsStay
    <3>2. db.fields[w.row.field].version \in DOMAIN versions
      BY <3>1, TypesOf DEF FieldRows
    <3> QED BY <1>2, <3>1, <3>2 DEF DraftFits, DraftsStay
  <2> QED BY <1>2, <2>2 DEF DraftFits
<1>3. CASE w.op \in {"update", "delete"}
  <2>1. w.table \in Tables /\ w.id \in 1..last[w.table]
    BY <1>3, WrittenIs
  <2>2. ASSUME w.id \in DOMAIN db'[w.table]
        PROVE  versions'[Home(db', w.table, w.id)] = "DRAFT"
    <3>1. last[w.table] \in Nat /\ w.id <= last[w.table]
      BY <2>1, TypesOf
    <3>2. /\ w.id \in DOMAIN db[w.table]
          /\ Home(db', w.table, w.id) = Home(db, w.table, w.id)
      <4>1. w.id \in DOMAIN db[w.table]
        BY <2>1, <2>2, <3>1 DEF Steady
      <4>2. CASE w.table \in {"fields", "values"}
        <5>1. FieldsStay /\ HomesStay
          BY <1>3, <4>2, WrittenIs DEF KindOf, FieldKinds
        <5> QED BY <2>2, <4>1, <4>2, <5>1 DEF FieldsStay, HomesStay, Home
      <4>3. CASE w.table \notin {"fields", "values"}
        <5> HIDE DEF Tables
        <5> QED BY <2>1, <2>2, <3>1, <4>3 DEF Steady, Home
      <4> QED BY <4>1, <4>2, <4>3
    <3>3. Home(db, w.table, w.id) \in DOMAIN versions
      BY <2>1, <3>2, HomeIs
    <3> QED BY <1>3, <3>2, <3>3 DEF DraftFits, DraftsStay
  <2> QED BY <1>3, <2>2 DEF DraftFits
<1>4. CASE w.op = "publish"
  BY <1>4 DEF DraftFits
<1> QED BY <1>1, <1>2, <1>3, <1>4, WrittenIs

LEMMA CommitFixed ==
    ASSUME TypeOK, LinkInv, FixedInv, NEW w, Written(w), LinkFits(w), FixedFits(w),
           Still(w), Commit(w)
    PROVE  Settled /\ FixedInv'
<1>1. Settled
  BY CommitSettles
<1>2. RowByRow(w)
  BY CommitRows
<1>3. ASSUME NEW f \in DOMAIN db'.fields, f \in 1..last["fields"]
      PROVE  f \in DOMAIN db.fields /\ db'.fields[f].version = db.fields[f].version
  BY <1>1, <1>3, TypesOf DEF Settled, Tables
<1>4. ASSUME NEW i \in DOMAIN db'.rules
      PROVE  db'.fields[db'.rules[i].target].version = db'.rules[i].version
  <2>1. db'.rules[i].target \in DOMAIN db'.fields
    BY <1>1 DEF Settled, RefersToRows
  <2>2. CASE i \in DOMAIN db.rules
    <3>1. db.rules[i] \in RuleRows
      BY <2>2, TypesOf
    <3>2. Kept(w, "rules", i)
      BY <1>2, <2>2 DEF RowByRow, Tables
    <3>3. CASE db'.rules[i] = db.rules[i]
      BY <1>3, <2>1, <2>2, <3>1, <3>3 DEF RuleRows, FixedInv
    <3>4. CASE w.op = "update" /\ w.table = "rules" /\ w.id = i
               /\ db'.rules[i] = Over(db.rules[i], w.set)
      <4>1. /\ db'.rules[i].version = db.rules[i].version
            /\ db'.rules[i].target = IF "target" \in DOMAIN w.set THEN w.set.target
                                     ELSE db.rules[i].target
        <5> HIDE DEF Criteria
        <5> QED BY <3>1, <3>4 DEF RuleRows, Over, LinkFits
      <4>2. "target" \in DOMAIN w.set => w.set.target \in 1..last["fields"]
        BY <3>4, WrittenIs DEF RowsOf, RuleRows, PartOf
      <4>3. db.rules[i].target \in 1..last["fields"]
        BY <3>1 DEF RuleRows
      <4> QED BY <1>3, <2>1, <2>2, <3>4, <4>1, <4>2, <4>3 DEF FixedFits, FixedInv
    <3> QED BY <3>2, <3>3, <3>4 DEF Kept
  <2>3. CASE i \notin DOMAIN db.rules
    <3>1. w.op = "insert" /\ w.table = "rules" /\ db'.rules[i] = w.row
      BY <1>2, <2>3 DEF RowByRow, Tables
    <3>2. w.row.target \in 1..last["fields"]
      BY <3>1, WrittenIs DEF RowsOf, RuleRows
    <3> QED BY <1>3, <2>1, <3>1, <3>2 DEF FixedFits
  <2> QED BY <2>2, <2>3
<1>5. ASSUME NEW i \in DOMAIN db'.items, db'.items[i].quantity # None
      PROVE  db'.fields[db'.items[i].quantity].version = db'.items[i].version
  <2>1. db'.items[i].quantity \in DOMAIN db'.fields
    BY <1>1, <1>5 DEF Settled, RefersToRows
  <2>2. CASE i \in DOMAIN db.items
    <3>1. db.items[i] \in ItemRows
      BY <2>2, TypesOf
    <3>2. Kept(w, "items", i)
      BY <1>2, <2>2 DEF RowByRow, Tables
    <3>3. CASE db'.items[i] = db.items[i]
      BY <1>3, <1>5, <2>1, <2>2, <3>1, <3>3 DEF ItemRows, FixedInv
    <3>4. CASE w.op = "update" /\ w.table = "items" /\ w.id = i
               /\ db'.items[i] = Over(db.items[i], w.set)
      <4>1. /\ db'.items[i].version = db.items[i].version
            /\ db'.items[i].quantity =
                  IF "quantity" \in DOMAIN w.set THEN w.set.quantity
                  ELSE db.items[i].quantity
        BY <3>1, <3>4 DEF ItemRows, Over, LinkFits
      <4>2. "quantity" \in DOMAIN w.set =>
                w.set.quantity \in 1..last["fields"] \cup {None}
        BY <3>4, WrittenIs DEF RowsOf, ItemRows, PartOf
      <4>3. db.items[i].quantity \in 1..last["fields"] \cup {None}
        BY <3>1 DEF ItemRows
      <4> QED BY <1>3, <1>5, <2>1, <2>2, <3>4, <4>1, <4>2, <4>3 DEF FixedFits, FixedInv
    <3> QED BY <1>5, <3>2, <3>3, <3>4 DEF Kept
  <2>3. CASE i \notin DOMAIN db.items
    <3>1. w.op = "insert" /\ w.table = "items" /\ db'.items[i] = w.row
      BY <1>2, <2>3 DEF RowByRow, Tables
    <3>2. w.row.quantity \in 1..last["fields"] \cup {None}
      BY <3>1, WrittenIs DEF RowsOf, ItemRows
    <3> QED BY <1>3, <1>5, <2>1, <3>1, <3>2 DEF FixedFits
  <2> QED BY <2>2, <2>3
<1> QED BY <1>1, <1>4, <1>5 DEF FixedInv

LEMMA CloneFixed ==
    ASSUME TypeOK, LinkInv, FixedInv, NEW v, Clones(v)
    PROVE  Settled /\ FixedInv'
<1>1. Settled
  BY CloneSettles
<1>2. /\ Grows("fields", v) /\ Grows("rules", v) /\ Grows("items", v)
  BY DEF Clones, Tables
<1>3. \A j \in Of(db, "fields", v) : db'.fields[NewId("fields", v, j)].version = Fresh
  <2>1. \A j \in Of(db, "fields", v) : db.fields[j] \in FieldRows
    BY TypesOf DEF Of
  <2> QED BY <2>1 DEF Clones, CopyOfField, FieldRows
<1>4. ASSUME NEW j \in Of(db, "rules", v)
      PROVE  LET copy == db'.rules[NewId("rules", v, j)]
             IN  db'.fields[copy.target].version = copy.version
  <2>1. db.rules[j] \in RuleRows /\ db.rules[j].target \in Of(db, "fields", v)
    BY Within, TypesOf DEF Clones
  <2>2. /\ db'.rules[NewId("rules", v, j)].target = NewId("fields", v, db.rules[j].target)
        /\ db'.rules[NewId("rules", v, j)].version = Fresh
    <3> HIDE DEF Criteria
    <3> QED BY <2>1 DEF Clones, CopyOfRule, RuleRows
  <2> QED BY <1>3, <2>1, <2>2
<1>5. ASSUME NEW j \in Of(db, "items", v)
      PROVE  LET copy == db'.items[NewId("items", v, j)]
             IN  copy.quantity # None =>
                    db'.fields[copy.quantity].version = copy.version
  <2>1. db.items[j] \in ItemRows
        /\ db.items[j].quantity \in Of(db, "fields", v) \cup {None}
    BY Within, TypesOf DEF Clones
  <2>2. /\ db'.items[NewId("items", v, j)].quantity =
              NewIdOrNone("fields", v, db.items[j].quantity)
        /\ db'.items[NewId("items", v, j)].version = Fresh
    BY <2>1 DEF Clones, CopyOfItem, ItemRows
  <2> QED BY <1>3, <2>1, <2>2 DEF NewIdOrNone
<1>6. \A i \in DOMAIN db'.rules :
          db'.fields[db'.rules[i].target].version = db'.rules[i].version
  BY <1>2, <1>4 DEF Grows, LinkInv, RefersToRows, FixedInv
<1>7. \A i \in DOMAIN db'.items :
          db'.items[i].quantity # None =>
              db'.fields[db'.items[i].quantity].version = db'.items[i].version
  BY <1>2, <1>5 DEF Grows, LinkInv, RefersToRows, FixedInv
<1> QED BY <1>1, <1>6, <1>7 DEF FixedInv

-----------------------------------------------------------------------------
(* What is published stays                                                 *)

LEMMA BelowIsNear ==
    ASSUME TypeOK, LinkInv, NEW item \in DOMAIN db.items, NEW i \in Below(db, item)
    PROVE  db.items[i].version = db.items[item].version
<1> DEFINE S == {j \in DOMAIN db.items : db.items[j].version = db.items[i].version}
<1>1. i \in DOMAIN db.items /\ item \in Above(db, i)
  BY DEF Below
<1>2. Hanging(db) /\ Upward(db, S)
  BY DEF LinkInv, RefersToRows, Hanging, Upward
<1>3. Above(db, i) \subseteq S
  <2>1. i \in S
    BY <1>1
  <2> HIDE DEF S
  <2> QED BY <1>1, <1>2, <2>1, FiniteItems, AboveLeast
<1> QED BY <1>1, <1>3

LEMMA CommitStays ==
    ASSUME TypeOK, LinkInv, NEW w, Written(w), LinkFits(w), DraftFits(w), Commit(w),
           NEW v \in DOMAIN versions, versions[v] # "DRAFT"
    PROVE  Keeps(v) /\ OnlyGetsFields(v)
<1>1. Steady /\ RowByRow(w) /\ RefersToRows(db')
  BY CommitSteady, CommitRows DEF Steady
<1>2. ASSUME NEW t \in Tables, NEW i \in Of(db, t, v), Gone(w, t, i)
      PROVE  FALSE
  <2>1. i \in DOMAIN db[t] /\ Home(db, t, i) = v
    BY HomeIs DEF Of, LinkInv
  <2>2. CASE w.table = t /\ i = w.id
    BY <1>2, <2>1, <2>2 DEF Gone, DraftFits
  <2>3. CASE w.table = "fields" /\ t = "values" /\ db.values[i].field = w.id
    <3>1. w.id \in DOMAIN db.fields /\ Home(db, "fields", w.id) = v
      BY <2>1, <2>3 DEF LinkInv, RefersToRows, Home
    <3> QED BY <1>2, <2>3, <3>1 DEF Gone, DraftFits
  <2>4. CASE w.table = "items" /\ w.id \in DOMAIN db.items
             /\ t = "items" /\ i \in Below(db, w.id)
    <3>1. Home(db, "items", w.id) = v
      BY <2>1, <2>4, BelowIsNear DEF Home
    <3> QED BY <1>2, <2>4, <3>1 DEF Gone, DraftFits
  <2>5. CASE w.table = "items" /\ w.id \in DOMAIN db.items
             /\ t = "uses" /\ db.uses[i].item \in Below(db, w.id)
    <3>1. db.items[db.uses[i].item].version = v
      BY <2>1, <2>5 DEF Home, LinkInv
    <3>2. Home(db, "items", w.id) = v
      BY <2>5, <3>1, BelowIsNear DEF Home
    <3> QED BY <1>2, <2>5, <3>2 DEF Gone, DraftFits
  <2> QED BY <1>2, <2>2, <2>3, <2>4, <2>5 DEF Gone
<1>3. ASSUME NEW t \in Tables, NEW i \in Of(db, t, v)
      PROVE  /\ i \in DOMAIN db'[t]
             /\ \/ db'[t][i] = db[t][i]
                \/ t = "items" /\ db'[t][i] = Uncounted(db[t][i])
  <2>1. i \in DOMAIN db[t] /\ Home(db, t, i) = v
    BY HomeIs DEF Of, LinkInv
  <2>2. i \in DOMAIN db'[t]
    BY <1>1, <1>2, <2>1 DEF RowByRow
  <2>3. Kept(w, t, i)
    BY <1>1, <2>1, <2>2 DEF RowByRow
  <2>4. ~(w.op = "update" /\ w.table = t /\ w.id = i)
    BY <2>1 DEF DraftFits
  <2> QED BY <2>2, <2>3, <2>4 DEF Kept
<1>4. ASSUME NEW t \in Tables, NEW i \in Of(db, t, v)
      PROVE  i \in Of(db', t, v)
  <2>1. i \in DOMAIN db[t] /\ i \in DOMAIN db'[t]
    BY <1>3 DEF Of
  <2>2. CASE t = "fields"
    BY <1>3, <2>2 DEF Of
  <2>3. CASE t = "values"
    <3>1. db'.values[i] = db.values[i] /\ db.values[i].field \in Of(db, "fields", v)
      BY <1>3, <2>3 DEF Of, LinkInv, RefersToRows
    <3>2. db'.fields[db.values[i].field] = db.fields[db.values[i].field]
      BY <1>3, <3>1 DEF Tables
    <3> QED BY <2>1, <2>3, <3>1, <3>2 DEF Of
  <2>4. CASE t \notin {"fields", "values"}
    <3>1. i <= last[t]
      BY <2>1, TypesOf
    <3>2. db'[t][i].version = db[t][i].version
      BY <1>1, <2>1, <2>4, <3>1 DEF Steady
    <3> HIDE DEF Tables
    <3> QED BY <2>1, <2>4, <3>2 DEF Of
  <2> QED BY <2>2, <2>3, <2>4
<1>5. Keeps(v)
  BY <1>3, <1>4 DEF Keeps
<1>6. ASSUME NEW t \in Tables, NEW i \in DOMAIN db'[t], i \notin DOMAIN db[t]
      PROVE  i \notin Of(db', t, v)
  <2>1. w.op = "insert" /\ w.table = t /\ db'[t][i] = w.row
    BY <1>1, <1>6 DEF RowByRow
  <2>2. CASE t = "values"
    <3>1. w.row.field \in 1..last["fields"] /\ w.row.field \in DOMAIN db'.fields
      BY <1>1, <2>1, <2>2, <1>6, WrittenIs DEF RowsOf, ValueRows, RefersToRows
    <3>2. w.row.field \in DOMAIN db.fields
      BY <1>1, <3>1, SteadyOld
    <3>3. db'.fields[w.row.field] = db.fields[w.row.field]
      BY <1>1, <2>1, <3>1, <3>2 DEF RowByRow, Kept, Tables
    <3> QED BY <2>1, <2>2, <3>2, <3>3 DEF Of, DraftFits
  <2>3. CASE t # "values"
    <3> HIDE DEF Tables
    <3> QED BY <2>1, <2>3 DEF Of, DraftFits
  <2> QED BY <2>2, <2>3
<1>7. ASSUME NEW t \in Tables, NEW i \in DOMAIN db[t], i \in Of(db', t, v),
             i \notin Of(db, t, v)
      PROVE  t \in {"fields", "values"} /\ versions[Home(db, t, i)] = "DRAFT"
  <2>1. i \in DOMAIN db'[t]
    BY <1>7 DEF Of
  <2>2. Kept(w, t, i)
    BY <1>1, <2>1 DEF RowByRow
  <2>3. CASE t = "fields"
    <3>1. w.op = "update" /\ w.table = "fields" /\ w.id = i
      BY <1>7, <2>2, <2>3 DEF Kept, Of
    <3> QED BY <2>3, <3>1 DEF DraftFits
  <2>4. CASE t = "values"
    <3> DEFINE f == db.values[i].field
    <3>1. f \in DOMAIN db.fields
      BY <2>4 DEF LinkInv, RefersToRows
    <3>2. CASE db'.values[i] = db.values[i]
      <4>1. f \in DOMAIN db'.fields
        BY <1>1, <2>1, <2>4, <3>2 DEF RefersToRows
      <4>2. Kept(w, "fields", f)
        BY <1>1, <3>1, <4>1 DEF RowByRow, Tables
      <4>3. db'.fields[f] # db.fields[f]
        BY <1>7, <2>4, <3>1, <3>2 DEF Of
      <4>4. w.op = "update" /\ w.table = "fields" /\ w.id = f
        BY <4>2, <4>3 DEF Kept
      <4> QED BY <2>4, <3>1, <4>4 DEF DraftFits, Home
    <3>3. CASE w.op = "update" /\ w.table = "values" /\ w.id = i
      BY <2>4, <3>3 DEF DraftFits
    <3> QED BY <2>2, <2>4, <3>2, <3>3 DEF Kept
  <2>5. CASE t \notin {"fields", "values"}
    <3>1. i <= last[t]
      BY TypesOf
    <3>2. db'[t][i].version = db[t][i].version
      BY <1>1, <2>1, <2>5, <3>1 DEF Steady
    <3> HIDE DEF Tables
    <3> QED BY <1>7, <2>5, <3>2 DEF Of
  <2> QED BY <2>3, <2>4, <2>5
<1>8. OnlyGetsFields(v)
  <2> SUFFICES ASSUME NEW t \in Tables, NEW i \in Of(db', t, v) \ Of(db, t, v)
               PROVE  /\ t \in {"fields", "values"} /\ i \in DOMAIN db[t]
                      /\ versions[VersionOf(db, t, i)] = "DRAFT"
    BY DEF OnlyGetsFields
  <2>1. i \in DOMAIN db'[t]
    BY DEF Of
  <2>2. i \in DOMAIN db[t]
    BY <1>6, <2>1
  <2> QED BY <1>7, <2>2 DEF VersionOf, Home
<1> QED BY <1>5, <1>8

(* A version none of whose rows is touched.                                *)
LEMMA RowsStay ==
    ASSUME NEW v, Rows(db, v)' = Rows(db, v)
    PROVE  Keeps(v) /\ OnlyGetsFields(v)
<1>1. ASSUME NEW t \in Tables
      PROVE  [i \in Of(db', t, v) |-> db'[t][i]] = [i \in Of(db, t, v) |-> db[t][i]]
  <2> HIDE DEF Tables
  <2> QED BY DEF Rows
<1>2. ASSUME NEW t \in Tables
      PROVE  /\ Of(db', t, v) = Of(db, t, v)
             /\ \A i \in Of(db, t, v) : db'[t][i] = db[t][i]
  <2> DEFINE before == [i \in Of(db, t, v) |-> db[t][i]]
             after == [i \in Of(db', t, v) |-> db'[t][i]]
  <2>1. after = before
    BY <1>1
  <2>2. DOMAIN after = Of(db', t, v) /\ DOMAIN before = Of(db, t, v)
    OBVIOUS
  <2>3. \A i \in Of(db, t, v) : before[i] = db[t][i]
    OBVIOUS
  <2>4. \A i \in Of(db', t, v) : after[i] = db'[t][i]
    OBVIOUS
  <2> HIDE DEF before, after
  <2> QED BY <2>1, <2>2, <2>3, <2>4
<1> HIDE DEF Tables
<1> QED BY <1>2 DEF Keeps, OnlyGetsFields

LEMMA CloneStays ==
    ASSUME TypeOK, LinkInv, NEW n, Clones(n), NEW v \in DOMAIN versions
    PROVE  Rows(db, v)' = Rows(db, v)
<1>1. Fresh \notin DOMAIN versions
  BY FreshIs
<1>2. RefersToRows(db') /\ Settled /\ RefersToRows(db)
  BY CloneSettles DEF Settled, LinkInv
<1>3. \A j \in Of(db, "fields", n) : db'.fields[NewId("fields", n, j)].version = Fresh
  <2>1. \A j \in Of(db, "fields", n) : db.fields[j] \in FieldRows
    BY TypesOf DEF Of
  <2> QED BY <2>1 DEF Clones, CopyOfField, FieldRows
<1>4. ASSUME NEW t \in Tables, NEW j \in Of(db, t, n)
      PROVE  NewId(t, n, j) \notin Of(db', t, v)
  <2>1. CASE t = "fields"
    BY <1>1, <1>3, <2>1 DEF Of
  <2>2. CASE t = "values"
    <3>1. db.values[j] \in ValueRows /\ db.values[j].field \in Of(db, "fields", n)
      BY <2>2, Within, TypesOf DEF Clones
    <3>2. db'.values[NewId("values", n, j)].field = NewId("fields", n, db.values[j].field)
      BY <2>2, <3>1 DEF Clones, CopyOfValue, ValueRows
    <3> QED BY <1>1, <1>3, <2>2, <3>1, <3>2 DEF Of
  <2>3. CASE t = "rules"
    <3>1. db.rules[j] \in RuleRows
      BY <2>3, Within, TypesOf DEF Clones
    <3>2. db'.rules[NewId("rules", n, j)].version = Fresh
      <4> HIDE DEF Criteria
      <4> QED BY <2>3, <3>1 DEF Clones, CopyOfRule, RuleRows
    <3> QED BY <1>1, <2>3, <3>2 DEF Of
  <2>4. CASE t = "items"
    <3>1. db.items[j] \in ItemRows
      BY <2>4, Within, TypesOf DEF Clones
    <3>2. db'.items[NewId("items", n, j)].version = Fresh
      BY <2>4, <3>1 DEF Clones, CopyOfItem, ItemRows
    <3> QED BY <1>1, <2>4, <3>2 DEF Of
  <2>5. CASE t = "uses"
    <3>1. db.uses[j] \in UseRows
      BY <2>5, Within, TypesOf DEF Clones
    <3>2. db'.uses[NewId("uses", n, j)].version = Fresh
      <4> HIDE DEF Criteria
      <4> QED BY <2>5, <3>1 DEF Clones, CopyOfUse, UseRows
    <3> QED BY <1>1, <2>5, <3>2 DEF Of
  <2> QED BY <2>1, <2>2, <2>3, <2>4, <2>5 DEF Tables
<1>5. ASSUME NEW t \in Tables
      PROVE  [i \in Of(db', t, v) |-> db'[t][i]] = [i \in Of(db, t, v) |-> db[t][i]]
  <2>1. /\ DOMAIN db[t] \subseteq DOMAIN db'[t]
        /\ \A i \in DOMAIN db[t] : db'[t][i] = db[t][i]
        /\ \A i \in DOMAIN db'[t] \ DOMAIN db[t] :
              \E j \in Of(db, t, n) : i = NewId(t, n, j)
    BY CloneRows
  <2>2. \A i \in DOMAIN db[t] : Home(db', t, i) = Home(db, t, i)
    BY <1>2, <2>1, TypesOf, SettledHome
  <2> HIDE DEF Tables
  <2>3. Of(db', t, v) = Of(db, t, v)
    <3>1. Of(db', t, v) \subseteq DOMAIN db'[t] /\ Of(db, t, v) \subseteq DOMAIN db[t]
      BY DEF Of
    <3>2. \A i \in DOMAIN db[t] : i \in Of(db', t, v) <=> i \in Of(db, t, v)
      BY <2>1, <2>2 DEF Of, Home
    <3> QED BY <1>4, <2>1, <3>1, <3>2
  <2>4. \A i \in Of(db, t, v) : db'[t][i] = db[t][i]
    BY <2>1 DEF Of
  <2> QED BY <2>3, <2>4
<1> HIDE DEF Tables
<1> QED BY <1>5 DEF Rows

-----------------------------------------------------------------------------
(* The invariants that need no queue                                       *)

LEMMA Rests ==
    ASSUME TypeOK, LinkInv, UNCHANGED <<versions, db, last>>
    PROVE  Settled /\ LinkInv' /\ DraftsStay
<1>1. \A t \in Tables : last[t] <= last'[t]
  BY TypesOf
<1>2. \A t \in Tables : RowsOf(t) \subseteq RowsOf(t)'
  <2>1. last' \in [Tables -> Nat]
    BY TypesOf
  <2> QED BY <1>1, <2>1, RowsGrow
<1>3. TypeOK'
  <2>1. \A t \in Tables : /\ db[t] \in [DOMAIN db[t] -> RowsOf(t)]
                          /\ DOMAIN db[t] \subseteq 1..last[t]
    BY DEF TypeOK
  <2> HIDE DEF Tables
  <2>2. \A t \in Tables : /\ db'[t] \in [DOMAIN db'[t] -> RowsOf(t)']
                          /\ DOMAIN db'[t] \subseteq 1..last'[t]
    BY <1>2, <2>1
  <2> QED BY <2>2 DEF TypeOK
<1>4. \A t \in Tables : \A i \in DOMAIN db'[t] : i \in DOMAIN db[t] /\ db'[t][i] = db[t][i]
  <2> HIDE DEF Tables
  <2> QED OBVIOUS
<1>5. LinkInv' /\ RefersToRows(db')
  BY DEF LinkInv, RefersToRows
<1> QED BY <1>1, <1>3, <1>4, <1>5 DEF Settled, Onward, DraftsStay

(* The write that is held up, if there is one.                             *)
Waits == held # Nothing

(* How a step comes about.                                                 *)
LEMMA StepIs ==
    ASSUME TypeOK, LinkInv, [Next]_vars
    PROVE  \/ UNCHANGED <<versions, db, last, held, moved>>
           \/ /\ UNCHANGED <<versions, db, last, moved>>
              /\ \E w : Checked(w) /\ held' = w
           \/ \E w : /\ Checked(w) /\ Commit(w) /\ UNCHANGED held
                     /\ {w.kind, held.kind} \notin Conflicts
           \/ Waits /\ Commit(held) /\ held' = Nothing
           \/ UNCHANGED <<held, moved>> /\ \E v \in DOMAIN versions : Clones(v)
<1>1. CASE Next
  <2>1. CASE \E w : Checked(w) /\ Submit(w)
    BY <2>1 DEF Submit
  <2>2. CASE \E v \in DOMAIN versions : Clones(v)
    BY <2>2 DEF Clones
  <2>3. CASE GoOn
    BY <2>3 DEF GoOn, Waits
  <2> QED BY <1>1, <2>1, <2>2, <2>3, NextIs
<1>2. CASE UNCHANGED vars
  BY <1>2 DEF vars
<1> QED BY <1>1, <1>2

(* Before a PATCH has moved a row, none of the commits does.               *)
LEMMA CommitStill ==
    ASSUME NEW w, Written(w), Commit(w), ~moved'
    PROVE  ~moved /\ Still(w)
<1>1. CASE w.op = "insert"
  BY <1>1 DEF Commit, CommitInsert, Still
<1>2. CASE w.op = "update"
  BY <1>2 DEF Commit, CommitUpdate, Still
<1>3. CASE w.op = "delete"
  BY <1>3 DEF Commit, CommitDelete, Still
<1>4. CASE w.op = "publish"
  BY <1>4 DEF Commit, CommitPublish, Still
<1> QED BY <1>1, <1>2, <1>3, <1>4, WrittenIs

LEMMA WasUnmoved ==
    ASSUME BaseInv, [Next]_vars, ~moved'
    PROVE  ~moved
<1>1. TypeOK /\ LinkInv /\ (Waits => Written(held))
  BY DEF BaseInv, Waits
<1> QED BY <1>1, StepIs, CommitStill DEF Checked

LEMMA InitIs ==
    ASSUME Init
    PROVE  /\ TypeOK /\ LinkInv /\ FixedInv /\ ~Waits
           /\ \A t \in Tables : DOMAIN db[t] = {}
<1>1. \A t \in Tables : DOMAIN db[t] = {}
  BY DEF Init
<1>2. versions \in [1..1 -> Statuses]
  BY DEF Init, Statuses
<1>3. TypeOK
  <2>1. last \in [Tables -> Nat]
    BY DEF Init
  <2>2. \A t \in Tables : db[t] = << >>
    BY DEF Init
  <2>3. db = [t \in Tables |-> db[t]]
    BY DEF Init
  <2>4. \A t \in Tables : db[t] \in [DOMAIN db[t] -> RowsOf(t)]
    <3>1. \A S : << >> \in [{} -> S]
      OBVIOUS
    <3> HIDE DEF Tables
    <3> QED BY <1>1, <2>2, <3>1
  <2> HIDE DEF Tables
  <2> QED BY <1>1, <1>2, <2>1, <2>3, <2>4 DEF TypeOK
<1>4. LinkInv /\ FixedInv
  BY <1>1 DEF LinkInv, RefersToRows, FixedInv, Tables
<1> QED BY <1>1, <1>3, <1>4 DEF Init, Waits

LEMMA BaseStep ==
    ASSUME BaseInv, [Next]_vars
    PROVE  BaseInv'
<1> DEFINE HeldFits == Waits => Written(held) /\ LinkFits(held)
<1>1. TypeOK /\ LinkInv /\ HeldFits
  BY DEF BaseInv, Waits
<1>2. ASSUME Onward, LinkInv', HeldFits' PROVE BaseInv'
  BY <1>2 DEF Onward, BaseInv, Waits
<1>3. ASSUME Onward, UNCHANGED held PROVE HeldFits'
  <2>1. CASE Waits
    BY <1>1, <1>3, <2>1, WrittenKeeps
  <2>2. CASE ~Waits
    BY <1>3, <2>2 DEF Waits
  <2> QED BY <2>1, <2>2
<1>4. CASE UNCHANGED <<versions, db, last, held, moved>>
  BY <1>1, <1>2, <1>3, <1>4, Rests DEF Settled
<1>5. CASE UNCHANGED <<versions, db, last, moved>> /\ \E w : Checked(w) /\ held' = w
  <2>1. PICK w : Checked(w) /\ held' = w
    BY <1>5
  <2>2. Onward /\ LinkInv'
    BY <1>1, <1>5, Rests DEF Settled
  <2>3. Written(w)' /\ LinkFits(w)'
    BY <1>1, <2>1, <2>2, WrittenKeeps DEF Checked
  <2> QED BY <1>2, <2>1, <2>2, <2>3
<1>6. CASE \E w : /\ Checked(w) /\ Commit(w) /\ UNCHANGED held
                  /\ {w.kind, held.kind} \notin Conflicts
  BY <1>1, <1>2, <1>3, <1>6, CommitLinks DEF Checked
<1>7. CASE Waits /\ Commit(held) /\ held' = Nothing
  <2>1. Onward /\ LinkInv'
    BY <1>1, <1>7, CommitLinks
  <2>2. HeldFits'
    BY <1>7 DEF Waits
  <2> QED BY <1>2, <2>1, <2>2
<1>8. CASE UNCHANGED <<held, moved>> /\ \E v \in DOMAIN versions : Clones(v)
  BY <1>1, <1>2, <1>3, <1>8, CloneLinks
<1> QED BY <1>1, <1>4, <1>5, <1>6, <1>7, <1>8, StepIs

LEMMA BaseInit == Init => BaseInv
  BY InitIs DEF BaseInv, Waits

LEMMA BaseHolds == Spec => []BaseInv
  BY BaseInit, BaseStep, PTL DEF Spec

-----------------------------------------------------------------------------
(* Theorems                                                                *)

(* Until a PATCH moves rows, they stay in the version they are in, and     *)
(* rules and items keep to fields of theirs.                               *)
SettledInv ==
    /\ BaseInv
    /\ ~moved => FixedInv /\ (Waits => FixedFits(held))

LEMMA SettledStep ==
    ASSUME SettledInv, [Next]_vars
    PROVE  SettledInv'
<1> DEFINE HeldFits == Waits => FixedFits(held)
<1>1. BaseInv'
  BY BaseStep DEF SettledInv
<1> SUFFICES ASSUME ~moved' PROVE FixedInv' /\ HeldFits'
  BY <1>1 DEF SettledInv
<1>2. /\ TypeOK /\ LinkInv /\ FixedInv /\ HeldFits
      /\ Waits => Written(held) /\ LinkFits(held)
  BY WasUnmoved DEF SettledInv, BaseInv, Waits
<1>3. ASSUME Settled, UNCHANGED held PROVE HeldFits'
  <2>1. CASE Waits
    BY <1>2, <1>3, <2>1, FixedKeeps
  <2>2. CASE ~Waits
    BY <1>3, <2>2 DEF Waits
  <2> QED BY <2>1, <2>2
<1>4. CASE UNCHANGED <<versions, db, last>>
  <2>1. FixedInv' /\ Settled
    BY <1>2, <1>4, Rests DEF FixedInv
  <2>2. CASE UNCHANGED held
    BY <1>3, <2>1, <2>2
  <2>3. CASE \E w : Checked(w) /\ held' = w
    <3>1. PICK w : Checked(w) /\ held' = w
      BY <2>3
    <3>2. FixedFits(w)'
      BY <1>2, <2>1, <3>1, FixedKeeps DEF Checked
    <3> QED BY <2>1, <3>1, <3>2
  <2>4. CASE held' = Nothing
    BY <2>1, <2>4 DEF Waits
  <2> QED BY <1>2, <2>2, <2>3, <2>4, StepIs
<1>5. CASE \E w : /\ Checked(w) /\ Commit(w) /\ UNCHANGED held
                  /\ {w.kind, held.kind} \notin Conflicts
  BY <1>2, <1>3, <1>5, CommitStill, CommitFixed DEF Checked
<1>6. CASE Waits /\ Commit(held) /\ held' = Nothing
  <2>1. FixedInv'
    BY <1>2, <1>6, CommitStill, CommitFixed
  <2>2. HeldFits'
    BY <1>6 DEF Waits
  <2> QED BY <2>1, <2>2
<1>7. CASE UNCHANGED <<held, moved>> /\ \E v \in DOMAIN versions : Clones(v)
  BY <1>2, <1>3, <1>7, CloneFixed
<1> QED BY <1>2, <1>4, <1>5, <1>6, <1>7, StepIs

LEMMA SettledInit == Init => SettledInv
  BY BaseInit, InitIs DEF SettledInv

PublishedInv ==
    /\ BaseInv
    /\ Waits => DraftFits(held)

(* Publication waits for every edit, and they for it.                      *)
PublicationQueues == \A kind \in Kinds : {"publish", kind} \in Conflicts

(* So does an update of a field for what rests on the field's version.     *)
FieldsQueue == \A kind \in FieldKinds : {"update field", kind} \in Conflicts

LEMMA VersionsAfter ==
    ASSUME NEW w, Written(w), Commit(w), w.op # "publish"
    PROVE  UNCHANGED versions
<1>1. w.op \in {"insert", "update", "delete"}
  BY WrittenIs
<1> QED BY <1>1 DEF Commit, CommitInsert, CommitUpdate, CommitDelete

(* Of two overlapping handlers neither is a publication.                   *)
LEMMA NoPublication ==
    ASSUME PublicationQueues, NEW w, Written(w), NEW h, Written(h),
           {w.kind, h.kind} \notin Conflicts
    PROVE  w.op # "publish" /\ h.op # "publish"
<1>1. ASSUME NEW x, Written(x) PROVE x.kind \in Kinds
  BY <1>1, WrittenIs DEF KindOf, Kinds, Tables
<1>2. \A x, y : {x, y} = {y, x}
  OBVIOUS
<1> QED BY <1>1, <1>2, WrittenIs DEF PublicationQueues

LEMMA PublishedStep ==
    ASSUME PublicationQueues, FieldsQueue, PublishedInv, [Next]_vars
    PROVE  /\ PublishedInv'
           /\ \A v \in DOMAIN versions :
                versions[v] # "DRAFT" => Keeps(v) /\ OnlyGetsFields(v)
<1> DEFINE HeldFits == Waits => DraftFits(held)
           Stay == \A v \in DOMAIN versions :
                      versions[v] # "DRAFT" => Keeps(v) /\ OnlyGetsFields(v)
<1>1. /\ TypeOK /\ LinkInv /\ HeldFits /\ RefersToRows(db)
      /\ Waits => Written(held) /\ LinkFits(held)
  BY DEF PublishedInv, BaseInv, Waits, LinkInv
<1>2. BaseInv'
  BY BaseStep DEF PublishedInv
<1>3. ASSUME HeldFits', Stay PROVE PublishedInv' /\ Stay
  BY <1>2, <1>3 DEF PublishedInv
<1>4. ASSUME Steady, DraftsStay, UNCHANGED held,
             Waits /\ held.kind \in FieldKinds => FieldsStay /\ HomesStay
      PROVE  HeldFits'
  <2>1. CASE Waits
    BY <1>1, <1>4, <2>1, DraftKeeps
  <2>2. CASE ~Waits
    BY <1>4, <2>2 DEF Waits
  <2> QED BY <2>1, <2>2
<1>5. CASE UNCHANGED <<versions, db, last>>
  <2>1. Steady /\ DraftsStay /\ FieldsStay /\ HomesStay
    BY <1>1, <1>5, Rests, SettledHomes
  <2>2. Stay
    <3>1. \A v : Rows(db, v)' = Rows(db, v)
      BY <1>5 DEF Rows
    <3> QED BY <3>1, RowsStay
  <2>3. CASE UNCHANGED held
    BY <1>3, <1>4, <2>1, <2>2, <2>3
  <2>4. CASE \E w : Checked(w) /\ held' = w
    <3>1. PICK w : Checked(w) /\ held' = w
      BY <2>4
    <3>2. DraftFits(w)'
      BY <1>1, <2>1, <3>1, DraftKeeps DEF Checked
    <3> QED BY <1>3, <2>2, <3>1, <3>2
  <2>5. CASE held' = Nothing
    BY <1>3, <2>2, <2>5 DEF Waits
  <2> QED BY <1>1, <2>3, <2>4, <2>5, StepIs
<1>6. CASE \E w : /\ Checked(w) /\ Commit(w) /\ UNCHANGED held
                  /\ {w.kind, held.kind} \notin Conflicts
  <2>1. PICK w : /\ Checked(w) /\ Commit(w) /\ UNCHANGED held
                 /\ {w.kind, held.kind} \notin Conflicts
    BY <1>6
  <2>2. Stay
    BY <1>1, <2>1, CommitStays DEF Checked
  <2>3. Steady
    BY <1>1, <2>1, CommitSteady DEF Checked
  <2>4. HeldFits'
    <3>1. CASE Waits
      <4>1. w.op # "publish"
        BY <1>1, <2>1, <3>1, NoPublication DEF Checked
      <4>2. DraftsStay
        BY <2>1, <4>1, VersionsAfter DEF Checked, DraftsStay
      <4>3. held.kind \in FieldKinds => w.kind # "update field"
        BY <2>1 DEF FieldsQueue
      <4>4. held.kind \in FieldKinds => FieldsStay /\ HomesStay
        BY <1>1, <2>1, <4>3, CommitHomes DEF Checked
      <4> QED BY <1>4, <2>1, <2>3, <4>2, <4>4
    <3>2. CASE ~Waits
      BY <2>1, <3>2 DEF Waits
    <3> QED BY <3>1, <3>2
  <2> QED BY <1>3, <2>2, <2>4
<1>7. CASE Waits /\ Commit(held) /\ held' = Nothing
  <2>1. Stay
    BY <1>1, <1>7, CommitStays
  <2>2. HeldFits'
    BY <1>7 DEF Waits
  <2> QED BY <1>3, <2>1, <2>2
<1>8. CASE UNCHANGED <<held, moved>> /\ \E v \in DOMAIN versions : Clones(v)
  <2>1. PICK n \in DOMAIN versions : Clones(n)
    BY <1>8
  <2>2. Stay
    BY <1>1, <2>1, CloneStays, RowsStay
  <2>3. Settled /\ DraftsStay
    BY <1>1, <2>1, CloneSettles DEF Clones, DraftsStay
  <2> QED BY <1>1, <1>3, <1>4, <1>8, <2>2, <2>3, SettledHomes
<1> QED BY <1>1, <1>5, <1>6, <1>7, <1>8, StepIs

(* validate_version_is_draft: where publications queue with every edit,    *)
(* and updates of fields with what is done to fields and their values, no  *)
(* handler changes or takes away a row of a version that is no DRAFT, and  *)
(* all that comes in is a field of a DRAFT that a PATCH moves there.       *)
THEOREM PublishedContentStays ==
    ASSUME PublicationQueues, FieldsQueue
    PROVE  Spec => PublishedOnlyGetsFields
<1>1. Init => PublishedInv
  BY BaseInit, InitIs DEF PublishedInv
<1>2. PublishedInv /\ [Next]_vars => PublishedInv'
  BY PublishedStep
<1>3. PublishedInv /\ [Next]_vars =>
          [\A v \in DOMAIN versions :
              versions[v] # "DRAFT" => Keeps(v) /\ OnlyGetsFields(v)]_vars
  BY PublishedStep
<1> QED BY <1>1, <1>2, <1>3, PTL DEF Spec, PublishedOnlyGetsFields

-----------------------------------------------------------------------------
(* The BOM is a forest                                                     *)

LEMMA CommitForest ==
    ASSUME TypeOK, LinkInv, ForestInv, NEW w, Written(w), LinkFits(w), ForestFits(w),
           Commit(w)
    PROVE  ForestInv'
<1>1. RowByRow(w) /\ RefersToRows(db') /\ TypeOK'
  BY CommitRows, CommitLinks DEF LinkInv, Onward
<1>2. /\ \A i \in DOMAIN db.items : db.items[i].parent \in DOMAIN db.items \cup {None}
      /\ None \notin DOMAIN db'.items
      /\ None \notin DOMAIN db.items
  BY <1>1, TypesOf, NoneAssumption DEF LinkInv, RefersToRows, TypeOK, Tables
<1> SUFFICES ASSUME NEW S \in SUBSET DOMAIN db'.items, S # {}
             PROVE  \E j \in S : db'.items[j].parent \notin S
  BY DEF ForestInv
<1> DEFINE Old == S \cap DOMAIN db.items
<1>3. ASSUME \A i \in Old : db'.items[i].parent = db.items[i].parent, Old # {}
      PROVE  \E j \in S : db'.items[j].parent \notin S
  <2>1. PICK j \in Old : db.items[j].parent \notin Old
    BY <1>3 DEF ForestInv
  <2> QED BY <1>2, <1>3, <2>1
<1>4. ASSUME NEW i \in Old
      PROVE  \/ db'.items[i].parent = db.items[i].parent
             \/ /\ w.op = "update" /\ w.table = "items" /\ w.id = i
                /\ "parent" \in DOMAIN w.set
                /\ db'.items[i].parent = w.set.parent
  <2>1. Kept(w, "items", i) /\ db.items[i] \in ItemRows
    BY <1>1, TypesOf DEF RowByRow, Tables
  <2>2. CASE w.op = "update" /\ w.table = "items" /\ w.id = i
             /\ db'.items[i] = Over(db.items[i], w.set)
    BY <2>1, <2>2 DEF Over, ItemRows
  <2> QED BY <2>1, <2>2 DEF Kept
<1>5. CASE Old = {}
  <2>1. PICK i \in S : i \notin DOMAIN db.items
    BY <1>5
  <2>2. w.op = "insert" /\ w.table = "items" /\ db'.items[i] = w.row
    BY <1>1, <2>1 DEF RowByRow, Tables
  <2>3. i = last["items"] + 1
    BY <1>1, <2>1 DEF RowByRow, Tables
  <2>4. S = {i}
    BY <1>1, <1>5, <2>3 DEF RowByRow, Tables
  <2>5. w.row.parent \in 1..last["items"] \cup {None} /\ last["items"] \in Nat
    BY <2>2, WrittenIs, TypesOf DEF RowsOf, ItemRows, Tables
  <2>6. w.row.parent # i
    BY <2>3, <2>5, NoneAssumption
  <2> QED BY <2>2, <2>4, <2>6
<1>6. CASE w.op = "update" /\ w.table = "items" /\ w.id \in Old
           /\ "parent" \in DOMAIN w.set /\ db'.items[w.id].parent = w.set.parent
           /\ w.set.parent \in Old
  <2>1. PICK T \in SUBSET DOMAIN db.items :
            Upward(db, T) /\ w.set.parent \in T /\ w.id \notin T
    BY <1>6 DEF ForestFits
  <2>2. PICK j \in S \cap T : db.items[j].parent \notin S \cap T
    <3>1. S \cap T \in SUBSET DOMAIN db.items /\ S \cap T # {}
      BY <1>6, <2>1
    <3> QED BY <3>1 DEF ForestInv
  <2>3. db'.items[j].parent = db.items[j].parent
    BY <1>4, <2>1, <2>2
  <2>4. db.items[j].parent \notin S
    BY <1>2, <2>1, <2>2 DEF Upward
  <2> QED BY <2>2, <2>3, <2>4
<1>7. CASE w.op = "update" /\ w.table = "items" /\ w.id \in Old
           /\ "parent" \in DOMAIN w.set /\ db'.items[w.id].parent = w.set.parent
           /\ w.set.parent \notin Old
  <2>1. w.set.parent \notin S
    BY <1>1, <1>7 DEF RowByRow, Tables
  <2> QED BY <1>7, <2>1
<1> QED BY <1>3, <1>4, <1>5, <1>6, <1>7

(* Another commit than of an update of an item leaves the links alone.     *)
ParentsStay ==
    \A i \in DOMAIN db'.items :
        i \in DOMAIN db.items => db'.items[i].parent = db.items[i].parent

LEMMA ForestKeeps ==
    ASSUME TypeOK, Onward, RefersToRows(db'), ParentsStay, NEW w, Written(w),
           ForestFits(w)
    PROVE  ForestFits(w)'
<1> SUFFICES ASSUME w.op = "update", w.table = "items", "parent" \in DOMAIN w.set,
                    {w.id, w.set.parent} \subseteq DOMAIN db'.items
             PROVE  \E S \in SUBSET DOMAIN db'.items :
                        Upward(db', S) /\ w.set.parent \in S /\ w.id \notin S
  BY DEF ForestFits
<1>1. /\ w.id \in 1..last["items"]
      /\ w.set.parent \in 1..last["items"] \cup {None}
  BY WrittenIs DEF RowsOf, ItemRows, PartOf
<1>2. last["items"] \in Nat /\ None \notin DOMAIN db'.items
  BY TypesOf, NoneAssumption DEF Onward, TypeOK, Tables
<1>3. {w.id, w.set.parent} \subseteq DOMAIN db.items
  BY <1>1, <1>2 DEF Onward
<1>4. PICK S \in SUBSET DOMAIN db.items :
            Upward(db, S) /\ w.set.parent \in S /\ w.id \notin S
  BY <1>3 DEF ForestFits
<1>5. Upward(db', S \cap DOMAIN db'.items)
  BY <1>4 DEF Upward, ParentsStay, RefersToRows
<1> QED BY <1>4, <1>5

LEMMA CommitParents ==
    ASSUME TypeOK, NEW w, Written(w), Commit(w), w.kind # "update item"
    PROVE  ParentsStay
<1>1. RowByRow(w)
  BY CommitRows
<1>2. ~(w.op = "update" /\ w.table = "items")
  BY WrittenIs DEF KindOf
<1> QED BY <1>1, <1>2 DEF RowByRow, Kept, ParentsStay, Tables

LEMMA CloneForest ==
    ASSUME TypeOK, LinkInv, ForestInv, NEW v, Clones(v)
    PROVE  ForestInv' /\ ParentsStay
<1>1. /\ DOMAIN db.items \subseteq DOMAIN db'.items
      /\ \A i \in DOMAIN db.items : db'.items[i] = db.items[i]
      /\ \A i \in DOMAIN db'.items \ DOMAIN db.items :
            \E j \in Of(db, "items", v) : i = NewId("items", v, j)
  BY CloneRows DEF Tables
<1>2. ParentsStay
  BY <1>1 DEF ParentsStay
<1>3. /\ \A i \in DOMAIN db.items : db.items[i].parent \in DOMAIN db.items \cup {None}
      /\ None \notin DOMAIN db'.items
  <2>1. TypeOK'
    BY CloneLinks DEF Onward
  <2> QED BY <2>1, NoneAssumption DEF LinkInv, RefersToRows, TypeOK, Tables
<1>4. ASSUME NEW S \in SUBSET DOMAIN db'.items, S # {}
      PROVE  \E j \in S : db'.items[j].parent \notin S
  <2> DEFINE Old == S \cap DOMAIN db.items
             Copied == {j \in Of(db, "items", v) : NewId("items", v, j) \in S}
  <2>1. CASE Old # {}
    <3>1. PICK j \in Old : db.items[j].parent \notin Old
      BY <2>1 DEF ForestInv
    <3> QED BY <1>1, <1>3, <3>1
  <2>2. CASE Old = {}
    <3>1. Copied # {} /\ Copied \in SUBSET DOMAIN db.items
      <4>1. PICK i \in S : i \notin DOMAIN db.items
        BY <1>4, <2>2
      <4>2. PICK k \in Of(db, "items", v) : i = NewId("items", v, k)
        BY <1>1, <4>1
      <4>3. k \in Copied
        BY <4>2
      <4>4. Of(db, "items", v) \subseteq DOMAIN db.items
        BY DEF Of
      <4> QED BY <4>3, <4>4
    <3>2. PICK j \in Copied : db.items[j].parent \notin Copied
      <4> HIDE DEF Copied
      <4> QED BY <3>1 DEF ForestInv
    <3>3. db.items[j] \in ItemRows
          /\ db.items[j].parent \in Of(db, "items", v) \cup {None}
      BY <3>2, Within, TypesOf DEF Clones
    <3>4. db'.items[NewId("items", v, j)].parent
              = NewIdOrNone("items", v, db.items[j].parent)
      BY <3>2, <3>3 DEF Clones, CopyOfItem, ItemRows
    <3>5. NewIdOrNone("items", v, db.items[j].parent) \notin S
      <4>1. CASE db.items[j].parent = None
        BY <1>3, <4>1 DEF NewIdOrNone
      <4>2. CASE db.items[j].parent \in Of(db, "items", v)
        BY <3>2, <4>2, ClonedIds DEF Tables
      <4> QED BY <3>3, <4>1, <4>2
    <3> QED BY <3>2, <3>4, <3>5
  <2> QED BY <2>1, <2>2
<1> QED BY <1>2, <1>4 DEF ForestInv

BomInv ==
    /\ BaseInv
    /\ ForestInv
    /\ Waits => ForestFits(held)

(* Updates of items queue.                                                 *)
ItemsQueue == {"update item"} \in Conflicts

LEMMA BomStep ==
    ASSUME ItemsQueue, BomInv, [Next]_vars
    PROVE  BomInv'
<1> DEFINE HeldFits == Waits => ForestFits(held)
<1>1. /\ TypeOK /\ LinkInv /\ ForestInv /\ HeldFits
      /\ Waits => Written(held) /\ LinkFits(held)
  BY DEF BomInv, BaseInv, Waits
<1>2. BaseInv'
  BY BaseStep DEF BomInv
<1>3. ASSUME ForestInv', HeldFits' PROVE BomInv'
  BY <1>2, <1>3 DEF BomInv
<1>4. /\ TypeOK' /\ RefersToRows(db')
  BY <1>2 DEF BaseInv, LinkInv
<1>5. ASSUME Waits => Onward /\ ParentsStay, UNCHANGED held PROVE HeldFits'
  <2>1. CASE Waits
    BY <1>1, <1>4, <1>5, <2>1, ForestKeeps
  <2>2. CASE ~Waits
    BY <1>5, <2>2 DEF Waits
  <2> QED BY <2>1, <2>2
<1>6. CASE UNCHANGED <<versions, db, last>>
  <2>1. ForestInv' /\ Onward /\ ParentsStay
    BY <1>1, <1>6, Rests DEF ForestInv, Settled, ParentsStay
  <2>2. CASE UNCHANGED held
    BY <1>3, <1>5, <2>1, <2>2
  <2>3. CASE \E w : Checked(w) /\ held' = w
    <3>1. PICK w : Checked(w) /\ held' = w
      BY <2>3
    <3>2. ForestFits(w)'
      BY <1>1, <1>4, <2>1, <3>1, ForestKeeps DEF Checked
    <3> QED BY <1>3, <2>1, <3>1, <3>2
  <2>4. CASE held' = Nothing
    BY <1>3, <2>1, <2>4 DEF Waits
  <2> QED BY <1>1, <2>2, <2>3, <2>4, StepIs
<1>7. CASE \E w : /\ Checked(w) /\ Commit(w) /\ UNCHANGED held
                  /\ {w.kind, held.kind} \notin Conflicts
  <2>1. PICK w : /\ Checked(w) /\ Commit(w) /\ UNCHANGED held
                 /\ {w.kind, held.kind} \notin Conflicts
    BY <1>7
  <2>2. ForestInv' /\ Onward
    BY <1>1, <2>1, CommitForest, CommitLinks DEF Checked
  <2>3. CASE w.kind # "update item"
    <3>1. ParentsStay
      BY <1>1, <2>1, <2>3, CommitParents DEF Checked
    <3> QED BY <1>3, <1>5, <2>1, <2>2, <3>1
  <2>4. CASE w.kind = "update item"
    <3>1. Waits => held.kind # "update item"
      BY <2>1, <2>4 DEF ItemsQueue
    <3>2. HeldFits'
      <4>1. CASE Waits
        <5>1. ~(held.op = "update" /\ held.table = "items")
          BY <1>1, <3>1, <4>1, WrittenIs DEF KindOf
        <5> QED BY <2>1, <5>1 DEF ForestFits
      <4>2. CASE ~Waits
        BY <2>1, <4>2 DEF Waits
      <4> QED BY <4>1, <4>2
    <3> QED BY <1>3, <2>2, <3>2
  <2> QED BY <2>3, <2>4
<1>8. CASE Waits /\ Commit(held) /\ held' = Nothing
  <2>1. ForestInv'
    BY <1>1, <1>8, CommitForest
  <2>2. HeldFits'
    BY <1>8 DEF Waits
  <2> QED BY <1>3, <2>1, <2>2
<1>9. CASE UNCHANGED <<held, moved>> /\ \E v \in DOMAIN versions : Clones(v)
  BY <1>1, <1>3, <1>5, <1>9, CloneForest, CloneLinks
<1> QED BY <1>1, <1>6, <1>7, <1>8, <1>9, StepIs

LEMMA BomInvMeans == BomInv => BomIsForest
<1> SUFFICES ASSUME BomInv, NEW i \in DOMAIN db.items
             PROVE  \E j \in Above(db, i) :
                        /\ db.items[j].parent = None
                        /\ Above(db, i) \subseteq Of(db, "items", db.items[i].version)
  BY DEF BomIsForest
<1>1. TypeOK /\ LinkInv /\ ForestInv
  BY DEF BomInv, BaseInv
<1>2. Hanging(db) /\ IsFiniteSet(DOMAIN db.items)
  BY <1>1, FiniteItems DEF LinkInv, RefersToRows, Hanging
<1>3. /\ i \in Above(db, i) /\ Above(db, i) \subseteq DOMAIN db.items
      /\ Upward(db, Above(db, i))
  BY <1>2, AboveSelf, AboveUpward
<1>4. PICK j \in Above(db, i) : db.items[j].parent \notin Above(db, i)
  BY <1>1, <1>3 DEF ForestInv
<1>5. db.items[j].parent = None
  BY <1>3, <1>4 DEF Upward
<1> DEFINE S == Of(db, "items", db.items[i].version)
<1>6. i \in S /\ Upward(db, S)
  BY <1>1 DEF LinkInv, RefersToRows, Upward, Of
<1>7. Above(db, i) \subseteq S
  <2> HIDE DEF S
  <2> QED BY <1>2, <1>6, AboveLeast
<1> QED BY <1>5, <1>7

(* _validate_parent_bom_item: where updates of items queue, the items of   *)
(* every version are a forest, whatever else overlaps: a walk up the       *)
(* parents ends at a root of the same version.                             *)
THEOREM BomStaysForest ==
    ASSUME ItemsQueue
    PROVE  Spec => []BomIsForest
<1>1. Init => BomInv
  BY BaseInit, InitIs DEF BomInv, ForestInv, Tables
<1>2. BomInv /\ [Next]_vars => BomInv'
  BY BomStep
<1> QED BY <1>1, <1>2, BomInvMeans, PTL DEF Spec

-----------------------------------------------------------------------------
(* Free fields and their values                                            *)

(* A field that is created or updated changes no value.                    *)
LEMMA FieldsApart ==
    ASSUME TypeOK, NEW w, Written(w), Commit(w), w.op # "delete",
           w.op # "publish", w.table = "fields"
    PROVE  db'.values = db.values
<1>1. CASE Fails
  BY <1>1 DEF Fails
<1>2. CASE IsInsert(w) /\ Adds(w.table, w.row)
  BY <1>2, AfterAdds DEF IsInsert, Writes, Tables
<1>3. CASE IsUpdate(w) /\ Changes(w.table, w.id, w.set)
  BY <1>3, AfterChanges DEF IsUpdate, Writes, Tables
<1> QED BY <1>1, <1>2, <1>3, CommitIs DEF IsDelete, IsPublish, Writes

LEMMA CommitFree ==
    ASSUME TypeOK, LinkInv, FreeFieldsHaveNoValues, NEW w, Written(w), LinkFits(w),
           FreeFits(w), Commit(w)
    PROVE  FreeFieldsHaveNoValues'
<1>1. Steady /\ RowByRow(w) /\ RefersToRows(db') /\ RefersToRows(db)
  BY CommitSteady, CommitRows DEF Steady, LinkInv
<1> SUFFICES ASSUME NEW i \in DOMAIN db'.values, NEW f, f = db'.values[i].field
             PROVE  ~db'.fields[f].free
  BY DEF FreeFieldsHaveNoValues
<1>2. f \in DOMAIN db'.fields
  BY <1>1 DEF RefersToRows
<1>3. \/ i \in DOMAIN db.values /\ f = db.values[i].field
      \/ /\ w.op = "update" /\ w.table = "values"
         /\ "field" \in DOMAIN w.set /\ f = w.set.field
      \/ w.op = "insert" /\ w.table = "values" /\ f = w.row.field
  <2>1. CASE i \in DOMAIN db.values
    <3>1. Kept(w, "values", i) /\ db.values[i] \in ValueRows
      BY <1>1, <2>1, TypesOf DEF RowByRow, Tables
    <3>2. CASE w.op = "update" /\ w.table = "values" /\ w.id = i
               /\ db'.values[i] = Over(db.values[i], w.set)
      BY <2>1, <3>1, <3>2 DEF Over, ValueRows
    <3> QED BY <2>1, <3>1, <3>2 DEF Kept
  <2>2. CASE i \notin DOMAIN db.values
    BY <1>1, <2>2 DEF RowByRow, Tables
  <2> QED BY <2>1, <2>2
<1>4. f \in DOMAIN db.fields /\ db.fields[f] \in FieldRows /\ Kept(w, "fields", f)
  <2>1. f \in 1..last["fields"]
    <3>1. CASE i \in DOMAIN db.values /\ f = db.values[i].field
      BY <3>1, TypesOf DEF ValueRows
    <3>2. CASE w.op = "update" /\ w.table = "values"
               /\ "field" \in DOMAIN w.set /\ f = w.set.field
      BY <3>2, WrittenIs DEF RowsOf, ValueRows, PartOf
    <3>3. CASE w.op = "insert" /\ w.table = "values" /\ f = w.row.field
      BY <3>3, WrittenIs DEF RowsOf, ValueRows
    <3> QED BY <1>3, <3>1, <3>2, <3>3
  <2>2. f \in DOMAIN db.fields
    BY <1>1, <1>2, <2>1, SteadyOld
  <2> QED BY <1>1, <1>2, <2>2, TypesOf DEF RowByRow, Tables
<1>5. CASE ~db.fields[f].free
  <2>1. CASE db'.fields[f] = db.fields[f]
    BY <1>5, <2>1
  <2>2. CASE w.op = "update" /\ w.table = "fields" /\ w.id = f
             /\ db'.fields[f] = Over(db.fields[f], w.set)
    <3>1. CASE "free" \in DOMAIN w.set /\ w.set.free
      <4>1. db'.values = db.values
        BY <2>2, FieldsApart
      <4>2. ValuesOf(db, f) = {}
        BY <2>2, <3>1 DEF FreeFits
      <4> QED BY <4>1, <4>2 DEF ValuesOf
    <3>2. CASE ~("free" \in DOMAIN w.set /\ w.set.free)
      <4>1. db'.fields[f].free = IF "free" \in DOMAIN w.set THEN w.set.free
                                 ELSE db.fields[f].free
        BY <1>4, <2>2 DEF Over, FieldRows
      <4> QED BY <1>5, <3>2, <4>1
    <3> QED BY <3>1, <3>2
  <2> QED BY <1>4, <2>1, <2>2 DEF Kept
<1>6. CASE db.fields[f].free
  BY <1>3, <1>4, <1>6 DEF FreeFieldsHaveNoValues, FreeFits
<1> QED BY <1>5, <1>6

LEMMA CloneFree ==
    ASSUME TypeOK, LinkInv, FreeFieldsHaveNoValues, NEW v, Clones(v)
    PROVE  FreeFieldsHaveNoValues'
<1>1. /\ \A i \in DOMAIN db.fields : db'.fields[i] = db.fields[i]
      /\ \A i \in DOMAIN db.values : db'.values[i] = db.values[i]
      /\ \A i \in DOMAIN db'.values \ DOMAIN db.values :
            \E j \in Of(db, "values", v) : i = NewId("values", v, j)
  BY CloneRows DEF Tables
<1>2. ASSUME NEW j \in Of(db, "values", v)
      PROVE  ~db'.fields[db'.values[NewId("values", v, j)].field].free
  <2> DEFINE f == db.values[j].field
  <2>1. /\ j \in DOMAIN db.values /\ db.values[j] \in ValueRows
        /\ f \in Of(db, "fields", v) /\ db.fields[f] \in FieldRows
    BY Within, TypesOf DEF Clones
  <2>2. db'.values[NewId("values", v, j)].field = NewId("fields", v, f)
    BY <2>1 DEF Clones, CopyOfValue, ValueRows
  <2>3. db'.fields[NewId("fields", v, f)].free = db.fields[f].free
    <3> HIDE DEF f
    <3> QED BY <2>1 DEF Clones, CopyOfField, FieldRows
  <2> QED BY <2>1, <2>2, <2>3 DEF FreeFieldsHaveNoValues
<1>3. \A i \in DOMAIN db.values : ~db'.fields[db'.values[i].field].free
  BY <1>1 DEF FreeFieldsHaveNoValues, LinkInv, RefersToRows
<1> QED BY <1>1, <1>2, <1>3 DEF FreeFieldsHaveNoValues

LEMMA SettledOld ==
    ASSUME TypeOK, Settled
    PROVE  /\ \A f \in DOMAIN db'.fields :
                f \in 1..last["fields"] => f \in DOMAIN db.fields
           /\ \A i \in DOMAIN db'.values :
                i \in 1..last["values"] => i \in DOMAIN db.values
           /\ \A i \in DOMAIN db'.values :
                i \in DOMAIN db.values => db'.values[i].field = db.values[i].field
           /\ \A i \in DOMAIN db'.rules :
                i \in 1..last["rules"] => i \in DOMAIN db.rules
  BY TypesOf DEF Settled, Tables

(* What is free stays as it is, and no field there was gets a value.       *)
FreeStays ==
    \A f \in DOMAIN db'.fields :
          f \in DOMAIN db.fields => db'.fields[f].free = db.fields[f].free

NoNewValues ==
    \A i \in DOMAIN db'.values :
        db'.values[i].field \in 1..last["fields"] =>
            /\ i \in DOMAIN db.values
            /\ db'.values[i].field = db.values[i].field

LEMMA FreeKeeps ==
    ASSUME TypeOK, Steady, NEW w, Written(w), FreeFits(w),
           w.kind \in {"create value", "update value"} => FreeStays,
           w.kind = "update field" => NoNewValues
    PROVE  FreeFits(w)'
<1>1. CASE w.op = "insert" /\ w.table = "values"
  <2>1. w.kind = "create value" /\ w.row.field \in 1..last["fields"]
    BY <1>1, WrittenIs DEF KindOf, RowsOf, ValueRows
  <2>2. w.row.field \in DOMAIN db'.fields => w.row.field \in DOMAIN db.fields
    BY <2>1, SteadyOld
  <2> QED BY <1>1, <2>1, <2>2 DEF FreeFits, FreeStays
<1>2. CASE w.op = "update" /\ w.table = "fields"
  <2>1. w.kind = "update field" /\ w.id \in 1..last["fields"]
    BY <1>2, WrittenIs DEF KindOf
  <2>2. ASSUME ValuesOf(db, w.id) = {} PROVE ValuesOf(db', w.id) = {}
    <3>1. \A i \in DOMAIN db'.values : db'.values[i].field # w.id
      BY <2>1, <2>2 DEF NoNewValues, ValuesOf
    <3> QED BY <3>1 DEF ValuesOf
  <2> QED BY <1>2, <2>2 DEF FreeFits
<1>3. CASE w.op = "update" /\ w.table = "values"
  <2>1. /\ w.kind = "update value"
        /\ "field" \in DOMAIN w.set => w.set.field \in 1..last["fields"]
    BY <1>3, WrittenIs DEF KindOf, RowsOf, ValueRows, PartOf
  <2>2. "field" \in DOMAIN w.set =>
            (w.set.field \in DOMAIN db'.fields => w.set.field \in DOMAIN db.fields)
    BY <2>1, SteadyOld
  <2> QED BY <1>3, <2>1, <2>2 DEF FreeFits, FreeStays
<1>4. CASE ~(w.op = "insert" /\ w.table = "values")
           /\ ~(w.op = "update" /\ w.table \in {"fields", "values"})
  BY <1>4 DEF FreeFits
<1> QED BY <1>1, <1>2, <1>3, <1>4

LEMMA CommitFreeStays ==
    ASSUME TypeOK, NEW w, Written(w), Commit(w)
    PROVE  /\ w.kind # "update field" => FreeStays
           /\ w.kind \notin {"create value", "update value"} => NoNewValues
<1>1. RowByRow(w)
  BY CommitRows
<1>2. ASSUME w.kind # "update field" PROVE FreeStays
  <2>1. ~(w.op = "update" /\ w.table = "fields")
    BY <1>2, WrittenIs DEF KindOf
  <2> QED BY <1>1, <2>1 DEF RowByRow, Kept, FreeStays, Tables
<1>3. ASSUME w.kind \notin {"create value", "update value"} PROVE NoNewValues
  <2>1. ~(w.op \in {"insert", "update"} /\ w.table = "values")
    BY <1>3, WrittenIs DEF KindOf
  <2>2. \A i \in DOMAIN db'.values :
            i \in DOMAIN db.values /\ db'.values[i] = db.values[i]
    BY <1>1, <2>1 DEF RowByRow, Kept, Tables
  <2> QED BY <2>2 DEF NoNewValues
<1> QED BY <1>2, <1>3

LEMMA CloneFreeStays ==
    ASSUME TypeOK, LinkInv, NEW v, Clones(v)
    PROVE  FreeStays /\ NoNewValues
<1>1. /\ \A i \in DOMAIN db.fields : db'.fields[i] = db.fields[i]
      /\ \A i \in DOMAIN db.values : db'.values[i] = db.values[i]
      /\ \A i \in DOMAIN db'.values \ DOMAIN db.values :
            \E j \in Of(db, "values", v) : i = NewId("values", v, j)
  BY CloneRows DEF Tables
<1>2. ASSUME NEW j \in Of(db, "values", v)
      PROVE  db'.values[NewId("values", v, j)].field \notin 1..last["fields"]
  <2>1. db.values[j] \in ValueRows /\ db.values[j].field \in Of(db, "fields", v)
    BY Within, TypesOf DEF Clones
  <2>2. db'.values[NewId("values", v, j)].field = NewId("fields", v, db.values[j].field)
    BY <2>1 DEF Clones, CopyOfValue, ValueRows
  <2>3. NewId("fields", v, db.values[j].field) > last["fields"]
        /\ NewId("fields", v, db.values[j].field) \in 1..last'["fields"]
    BY <2>1, ClonedIds DEF Tables
  <2>4. last["fields"] \in Nat
    BY TypesOf DEF Tables
  <2> QED BY <2>2, <2>3, <2>4
<1> QED BY <1>1, <1>2 DEF FreeStays, NoNewValues

FreeInv ==
    /\ BaseInv
    /\ FreeFieldsHaveNoValues
    /\ Waits => FreeFits(held)

(* Updates of fields wait for creations and updates of values, and they    *)
(* for them.                                                               *)
FreeQueues ==
    \A kind \in {"create value", "update value"} :
        {"update field", kind} \in Conflicts

LEMMA FreeStep ==
    ASSUME FreeQueues, FreeInv, [Next]_vars
    PROVE  FreeInv'
<1> DEFINE HeldFits == Waits => FreeFits(held)
<1>1. /\ TypeOK /\ LinkInv /\ FreeFieldsHaveNoValues /\ HeldFits
      /\ Waits => Written(held) /\ LinkFits(held)
  BY DEF FreeInv, BaseInv, Waits
<1>2. BaseInv'
  BY BaseStep DEF FreeInv
<1>3. ASSUME FreeFieldsHaveNoValues', HeldFits' PROVE FreeInv'
  BY <1>2, <1>3 DEF FreeInv
<1>4. ASSUME Steady, UNCHANGED held,
             Waits /\ held.kind \in {"create value", "update value"} => FreeStays,
             Waits /\ held.kind = "update field" => NoNewValues
      PROVE  HeldFits'
  <2>1. CASE Waits
    BY <1>1, <1>4, <2>1, FreeKeeps
  <2>2. CASE ~Waits
    BY <1>4, <2>2 DEF Waits
  <2> QED BY <2>1, <2>2
<1>5. CASE UNCHANGED <<versions, db, last>>
  <2>1. Steady /\ FreeFieldsHaveNoValues' /\ FreeStays /\ NoNewValues
    BY <1>1, <1>5, Rests, SettledHomes DEF FreeFieldsHaveNoValues, FreeStays, NoNewValues
  <2>2. CASE UNCHANGED held
    BY <1>3, <1>4, <2>1, <2>2
  <2>3. CASE \E w : Checked(w) /\ held' = w
    <3>1. PICK w : Checked(w) /\ held' = w
      BY <2>3
    <3>2. FreeFits(w)'
      BY <1>1, <2>1, <3>1, FreeKeeps DEF Checked
    <3> QED BY <1>3, <2>1, <3>1, <3>2
  <2>4. CASE held' = Nothing
    BY <1>3, <2>1, <2>4 DEF Waits
  <2> QED BY <1>1, <2>2, <2>3, <2>4, StepIs
<1>6. CASE \E w : /\ Checked(w) /\ Commit(w) /\ UNCHANGED held
                  /\ {w.kind, held.kind} \notin Conflicts
  <2>1. PICK w : /\ Checked(w) /\ Commit(w) /\ UNCHANGED held
                 /\ {w.kind, held.kind} \notin Conflicts
    BY <1>6
  <2>2. Steady /\ FreeFieldsHaveNoValues'
    BY <1>1, <2>1, CommitFree, CommitSteady DEF Checked
  <2>3. /\ held.kind \in {"create value", "update value"} => w.kind # "update field"
        /\ held.kind = "update field" => w.kind \notin {"create value", "update value"}
    <3>1. {w.kind, held.kind} = {held.kind, w.kind}
      OBVIOUS
    <3> QED BY <2>1, <3>1 DEF FreeQueues
  <2>4. /\ held.kind \in {"create value", "update value"} => FreeStays
        /\ held.kind = "update field" => NoNewValues
    BY <1>1, <2>1, <2>3, CommitFreeStays DEF Checked
  <2> QED BY <1>3, <1>4, <2>1, <2>2, <2>4
<1>7. CASE Waits /\ Commit(held) /\ held' = Nothing
  <2>1. FreeFieldsHaveNoValues'
    BY <1>1, <1>7, CommitFree
  <2>2. HeldFits'
    BY <1>7 DEF Waits
  <2> QED BY <1>3, <2>1, <2>2
<1>8. CASE UNCHANGED <<held, moved>> /\ \E v \in DOMAIN versions : Clones(v)
  <2>1. Steady
    BY <1>1, <1>8, CloneSettles, SettledHomes
  <2> QED BY <1>1, <1>3, <1>4, <1>8, <2>1, CloneFree, CloneFreeStays
<1> QED BY <1>1, <1>5, <1>6, <1>7, <1>8, StepIs

(* create_value, update_value, update_field: where the last queues with    *)
(* the others, a field that takes any text has no values, wherever PATCHes *)
(* move values and fields.                                                 *)
THEOREM FreeFieldsStayEmpty ==
    ASSUME FreeQueues
    PROVE  Spec => []FreeFieldsHaveNoValues
<1>1. Init => FreeInv
  BY BaseInit, InitIs DEF FreeInv, FreeFieldsHaveNoValues, Tables
<1>2. FreeInv /\ [Next]_vars => FreeInv'
  BY FreeStep
<1>3. FreeInv => FreeFieldsHaveNoValues
  BY DEF FreeInv
<1> QED BY <1>1, <1>2, <1>3, PTL DEF Spec

-----------------------------------------------------------------------------
(* What rules refer to                                                     *)

LEMMA OptionStays ==
    ASSUME TypeOK, Settled, NEW rule, rule.option \in 1..last["values"] \cup {None},
           OptionHolds(rule)
    PROVE  OptionHolds(rule)'
<1>1. None \notin DOMAIN db'.values
  BY NoneAssumption DEF Settled, Onward, TypeOK, Tables
<1> QED BY <1>1, SettledOld DEF OptionHolds

(* What a rule sets stays the text of a value, if the value that a commit  *)
(* removes is not the only one with it, and the field does not only now    *)
(* get its options.                                                        *)
LEMMA TextStays ==
    ASSUME TypeOK, Settled, NEW w, RowByRow(w), NEW rule, NEW goes,
           rule.target \in 1..last["fields"], TextHolds(rule, goes),
           Removes(w) => TextHolds(rule, goes \cup {w.id}),
           w.op = "update" /\ w.table = "fields" /\ w.id = rule.target
               /\ "free" \in DOMAIN w.set /\ ~w.set.free
               => rule.type # "CALCULATION"
    PROVE  TextHolds(rule, goes)'
<1> DEFINE f == rule.target
<1> SUFFICES ASSUME rule.type = "CALCULATION", rule.set # None,
                    f \in DOMAIN db'.fields, ~db'.fields[f].free
             PROVE  \E j \in ValuesOf(db', f) \ goes : db'.values[j].text = rule.set
  BY DEF TextHolds
<1>1. f \in DOMAIN db.fields /\ db.fields[f] \in FieldRows /\ Kept(w, "fields", f)
  BY SettledOld, TypesOf DEF RowByRow, Tables
<1>2. ~db.fields[f].free
  <2>1. CASE w.op = "update" /\ w.table = "fields" /\ w.id = f
             /\ db'.fields[f] = Over(db.fields[f], w.set)
    <3>1. db'.fields[f].free = IF "free" \in DOMAIN w.set THEN w.set.free
                               ELSE db.fields[f].free
      BY <1>1, <2>1 DEF Over, FieldRows
    <3> QED BY <2>1, <3>1
  <2> QED BY <1>1, <2>1 DEF Kept
<1>3. PICK j \in ValuesOf(db, f) \ goes :
            /\ db.values[j].text = rule.set
            /\ Removes(w) => j # w.id
  <2>1. CASE Removes(w)
    BY <1>1, <1>2, <2>1 DEF TextHolds
  <2>2. CASE ~Removes(w)
    BY <1>1, <1>2, <2>2 DEF TextHolds
  <2> QED BY <2>1, <2>2
<1>4. j \in DOMAIN db.values /\ db.values[j].field = f /\ db.values[j] \in ValueRows
  BY TypesOf DEF ValuesOf
<1>5. j \in DOMAIN db'.values
  <2>1. ASSUME Gone(w, "values", j) PROVE FALSE
    BY <1>3, <1>4, <2>1 DEF Gone, Removes
  <2> QED BY <1>4, <2>1 DEF RowByRow, Tables
<1>6. db'.values[j].field = f
  BY <1>4, <1>5, SettledOld
<1>7. db'.values[j].text = rule.set
  <2>1. Kept(w, "values", j)
    BY <1>4, <1>5 DEF RowByRow, Tables
  <2>2. CASE w.op = "update" /\ w.table = "values" /\ w.id = j
             /\ db'.values[j] = Over(db.values[j], w.set)
    <3>1. "text" \notin DOMAIN w.set
      BY <1>3, <2>2 DEF Removes
    <3>2. db'.values[j].text = db.values[j].text
      BY <1>4, <2>2, <3>1 DEF Over, ValueRows
    <3> QED BY <1>3, <3>2
  <2> QED BY <1>3, <2>1, <2>2 DEF Kept
<1> QED BY <1>3, <1>5, <1>6, <1>7 DEF ValuesOf

LEMMA OptionInvIs ==
    ASSUME \A i \in DOMAIN db'.rules : \A r : r = db'.rules[i] =>
               OptionHolds(r)' /\ TextHolds(r, {})'
    PROVE  OptionInv'
  BY DEF OptionInv, OptionHolds, TextHolds, ValuesOf

LEMMA CommitOption ==
    ASSUME TypeOK, LinkInv, OptionInv, NEW w, Written(w), LinkFits(w), Still(w),
           OptionFits(w), Commit(w)
    PROVE  OptionInv'
<1>1. Settled /\ RowByRow(w)
  BY CommitSettles, CommitRows
<1> SUFFICES ASSUME NEW i \in DOMAIN db'.rules, NEW r, r = db'.rules[i]
             PROVE  OptionHolds(r)' /\ TextHolds(r, {})'
  BY OptionInvIs
<1>2. ASSUME r \in RuleRows, OptionHolds(r), TextHolds(r, {}),
             Removes(w) => TextHolds(r, {w.id}),
             w.op = "update" /\ w.table = "fields" /\ w.id = r.target
               /\ "free" \in DOMAIN w.set /\ ~w.set.free
               => r.type # "CALCULATION"
      PROVE  OptionHolds(r)' /\ TextHolds(r, {})'
  <2>1. r.option \in 1..last["values"] \cup {None} /\ r.target \in 1..last["fields"]
    BY <1>2 DEF RuleRows
  <2>2. {} \cup {w.id} = {w.id}
    OBVIOUS
  <2> QED BY <1>1, <1>2, <2>1, <2>2, OptionStays, TextStays
<1>3. CASE i \notin DOMAIN db.rules
  <2>1. w.op = "insert" /\ w.table = "rules" /\ r = w.row
    BY <1>1, <1>3 DEF RowByRow, Tables
  <2>2. r \in RuleRows
    BY <2>1, WrittenIs DEF RowsOf
  <2> QED BY <1>2, <2>1, <2>2 DEF OptionFits, Removes
<1>4. CASE i \in DOMAIN db.rules /\ r = db.rules[i]
  <2>1. r \in RuleRows
    BY <1>4, TypesOf
  <2>2. OptionHolds(r) /\ TextHolds(r, {}) /\ (Removes(w) => TextHolds(r, {w.id}))
    BY <1>4 DEF OptionInv, OptionFits
  <2>3. ASSUME w.op = "update", w.table = "fields", w.id = r.target,
               "free" \in DOMAIN w.set, ~w.set.free
        PROVE  r.type # "CALCULATION"
    BY <1>4, <2>3 DEF OptionFits, CalculationsOf
  <2> QED BY <1>2, <2>1, <2>2, <2>3
<1>5. CASE /\ i \in DOMAIN db.rules /\ r # db.rules[i]
  <2>1. /\ w.op = "update" /\ w.table = "rules" /\ w.id = i
        /\ r = Over(db.rules[i], w.set)
    BY <1>1, <1>5 DEF RowByRow, Kept, Tables
  <2>2. r \in RuleRows
    BY <1>5, <2>1, WrittenIs, OverIs, TypesOf DEF RowsOf, Tables
  <2> QED BY <1>2, <1>5, <2>1, <2>2 DEF OptionFits, Removes
<1> QED BY <1>3, <1>4, <1>5

LEMMA CloneKeepsText ==
    ASSUME TypeOK, LinkInv, NEW v, Clones(v), NEW rule \in RuleRows, NEW goes,
           TextHolds(rule, goes)
    PROVE  TextHolds(rule, goes)'
<1>1. /\ \A i \in DOMAIN db.fields : db'.fields[i] = db.fields[i]
      /\ \A i \in DOMAIN db.values : /\ i \in DOMAIN db'.values
                                     /\ db'.values[i] = db.values[i]
  BY CloneRows DEF Tables
<1>2. Settled
  BY CloneSettles
<1>3. rule.target \in DOMAIN db'.fields => rule.target \in DOMAIN db.fields
  BY <1>2, SettledOld DEF RuleRows
<1> QED BY <1>1, <1>3 DEF TextHolds, ValuesOf

(* A rule that is copied has the copies of its option and of the value     *)
(* with its text, whatever old values go.                                  *)
LEMMA CopiedRule ==
    ASSUME TypeOK, LinkInv, OptionInv, NEW v, Clones(v), NEW k \in Of(db, "rules", v),
           NEW r, r = db'.rules[NewId("rules", v, k)],
           NEW goes \in SUBSET (1..last["values"])
    PROVE  OptionHolds(r)' /\ TextHolds(r, goes)'
<1> DEFINE rule == db.rules[k]
<1>1. None \notin DOMAIN db'.values
  <2>1. TypeOK'
    BY AfterClone
  <2> QED BY <2>1, NoneAssumption DEF TypeOK, Tables
<1>2. /\ k \in DOMAIN db.rules /\ rule \in RuleRows
      /\ rule.target \in Of(db, "fields", v) /\ rule.target \in DOMAIN db.fields
      /\ rule.option \in Of(db, "values", v) \cup {None}
  BY Within, TypesOf DEF Clones
<1>3. OptionHolds(rule) /\ TextHolds(rule, {})
  BY <1>2 DEF OptionInv
<1>4. r = CopyOfRule(rule, v, Fresh)
  BY DEF Clones
<1> HIDE DEF rule
<1>5. /\ r.target = NewId("fields", v, rule.target)
      /\ r.option = NewIdOrNone("values", v, rule.option)
      /\ r.type = rule.type
      /\ r.set = rule.set
  BY <1>2, <1>4 DEF CopyOfRule, RuleRows
<1>6. ASSUME NEW j \in ValuesOf(db, rule.target)
      PROVE  /\ NewId("values", v, j) \in ValuesOf(db', r.target) \ goes
             /\ db'.values[NewId("values", v, j)].text = db.values[j].text
  <2>1. j \in DOMAIN db.values /\ db.values[j].field = rule.target
        /\ db.values[j] \in ValueRows
    BY TypesOf DEF ValuesOf
  <2>2. j \in Of(db, "values", v)
    BY <1>2, <2>1, Within DEF Clones, Of
  <2>3. db'.values[NewId("values", v, j)] = CopyOfValue(db.values[j], v)
    BY <2>2 DEF Clones
  <2>4. /\ NewId("values", v, j) \in DOMAIN db'.values
        /\ NewId("values", v, j) > last["values"]
    BY <2>2, ClonedIds DEF Tables
  <2>5. NewId("values", v, j) \notin goes
    BY <2>4, TypesOf DEF Tables
  <2> QED BY <1>5, <2>1, <2>3, <2>4, <2>5 DEF CopyOfValue, ValueRows, ValuesOf
<1>7. OptionHolds(r)'
  <2>1. CASE rule.option = None
    BY <1>1, <1>5, <2>1 DEF OptionHolds, NewIdOrNone
  <2>2. CASE rule.option # None
    <3>1. /\ rule.option \in Of(db, "values", v)
          /\ r.option = NewId("values", v, rule.option)
      BY <1>2, <1>5, <2>2 DEF NewIdOrNone
    <3>2. rule.option \in ValuesOf(db, rule.target)
      BY <1>3, <3>1 DEF OptionHolds, ValuesOf, Of
    <3> QED BY <1>6, <3>1, <3>2 DEF OptionHolds, ValuesOf
  <2> QED BY <2>1, <2>2
<1>8. TextHolds(r, goes)'
  <2>1. db'.fields[r.target].free = db.fields[rule.target].free
    <3>1. db'.fields[r.target] = CopyOfField(db.fields[rule.target], Fresh)
      BY <1>2, <1>5 DEF Clones
    <3>2. db.fields[rule.target] \in FieldRows
      BY <1>2, TypesOf
    <3> QED BY <3>1, <3>2 DEF CopyOfField, FieldRows
  <2>2. CASE rule.type = "CALCULATION" /\ rule.set # None
             /\ ~db.fields[rule.target].free
    <3>1. PICK j \in ValuesOf(db, rule.target) : db.values[j].text = rule.set
      BY <1>2, <1>3, <2>2 DEF TextHolds
    <3> QED BY <1>5, <1>6, <3>1 DEF TextHolds
  <2> QED BY <1>5, <2>1, <2>2 DEF TextHolds
<1> QED BY <1>7, <1>8

LEMMA CloneOption ==
    ASSUME TypeOK, LinkInv, OptionInv, NEW v, Clones(v)
    PROVE  OptionInv'
<1>1. /\ \A i \in DOMAIN db.rules : db'.rules[i] = db.rules[i]
      /\ \A i \in DOMAIN db'.rules \ DOMAIN db.rules :
            \E j \in Of(db, "rules", v) : i = NewId("rules", v, j)
  BY CloneRows DEF Tables
<1> SUFFICES ASSUME NEW i \in DOMAIN db'.rules, NEW r, r = db'.rules[i]
             PROVE  OptionHolds(r)' /\ TextHolds(r, {})'
  BY OptionInvIs
<1>2. CASE i \in DOMAIN db.rules
  <2>1. r = db.rules[i] /\ r \in RuleRows /\ OptionHolds(r) /\ TextHolds(r, {})
    BY <1>1, <1>2, TypesOf DEF OptionInv
  <2>2. Settled
    BY CloneSettles
  <2>3. r.option \in 1..last["values"] \cup {None}
    BY <2>1 DEF RuleRows
  <2> QED BY <2>1, <2>2, <2>3, OptionStays, CloneKeepsText
<1>3. CASE i \notin DOMAIN db.rules
  <2>1. PICK k \in Of(db, "rules", v) : i = NewId("rules", v, k)
    BY <1>1, <1>3
  <2>2. {} \in SUBSET (1..last["values"])
    OBVIOUS
  <2> QED BY <2>1, <2>2, CopiedRule
<1> QED BY <1>2, <1>3

(* What a held write may rely on, by its kind.                             *)
TextsStay ==
    \A rule \in RuleRows : TextHolds(rule, {}) => TextHolds(rule, {})'

RulesStay ==
    \A i \in DOMAIN db'.rules : i \in DOMAIN db.rules => db'.rules[i] = db.rules[i]

NoNewRules ==
    \A i \in DOMAIN db'.rules :
        db'.rules[i].target \in 1..last["fields"] => i \in DOMAIN db.rules

TextsSpared(id) ==
    \A i \in DOMAIN db'.rules : TextHolds(db.rules[i], {id})'

LEMMA OptionKeeps ==
    ASSUME TypeOK, Settled, NEW h, Written(h), OptionFits(h),
           h.kind \in {"create rule", "update rule"} => TextsStay,
           h.kind \in {"update rule", "update field"} => RulesStay,
           h.kind = "update field" => NoNewRules,
           Removes(h) => TextsSpared(h.id)
    PROVE  OptionFits(h)'
<1>1. CASE h.op = "insert" /\ h.table = "rules"
  <2>1. h.kind = "create rule" /\ h.row \in RuleRows
    BY <1>1, WrittenIs DEF KindOf, RowsOf
  <2>2. OptionHolds(h.row) /\ TextHolds(h.row, {})
    BY <1>1 DEF OptionFits
  <2>3. OptionHolds(h.row)' /\ TextHolds(h.row, {})'
    BY <2>1, <2>2, OptionStays DEF TextsStay, RuleRows
  <2> QED BY <1>1, <2>3 DEF OptionFits, Removes
<1>2. CASE h.op = "update" /\ h.table = "rules"
  <2> SUFFICES ASSUME h.id \in DOMAIN db'.rules, NEW r, r = Over(db'.rules[h.id], h.set)
               PROVE  OptionHolds(r)' /\ TextHolds(r, {})'
    BY <1>2 DEF OptionFits, Removes, OptionHolds, TextHolds, ValuesOf, Over
  <2>1. h.kind = "update rule" /\ h.id \in 1..last["rules"] /\ PartOf(h.set, RuleRows)
    BY <1>2, WrittenIs DEF KindOf, RowsOf
  <2>2. h.id \in DOMAIN db.rules /\ r = Over(db.rules[h.id], h.set)
    BY <2>1, SettledOld DEF RulesStay
  <2>3. r \in RuleRows
    <3>1. db.rules[h.id] \in RuleRows
      BY <2>2, TypesOf
    <3> QED BY <2>1, <2>2, <3>1, OverIs DEF RowsOf, Tables
  <2>4. OptionHolds(r) /\ TextHolds(r, {})
    BY <1>2, <2>2 DEF OptionFits
  <2> QED BY <2>1, <2>3, <2>4, OptionStays DEF TextsStay, RuleRows
<1>3. CASE h.op = "update" /\ h.table = "fields"
  <2>1. h.kind = "update field" /\ h.id \in 1..last["fields"]
    BY <1>3, WrittenIs DEF KindOf
  <2>2. ASSUME CalculationsOf(db, h.id) = {} PROVE CalculationsOf(db', h.id) = {}
    <3>1. ASSUME NEW i \in DOMAIN db'.rules, db'.rules[i].target = h.id
          PROVE  i \in DOMAIN db.rules /\ db'.rules[i] = db.rules[i]
      BY <2>1, <3>1 DEF NoNewRules, RulesStay
    <3> QED BY <2>2, <3>1 DEF CalculationsOf
  <2> QED BY <1>3, <2>2 DEF OptionFits, Removes
<1>4. CASE Removes(h)
  BY <1>4 DEF OptionFits, Removes, TextsSpared
<1> QED BY <1>1, <1>2, <1>3, <1>4 DEF OptionFits, Removes

LEMMA CommitRules ==
    ASSUME TypeOK, Settled, NEW w, Written(w), Commit(w)
    PROVE  /\ w.kind \notin {"update field", "update value", "delete value"} => TextsStay
           /\ w.kind # "update rule" => RulesStay
           /\ w.kind # "create rule" => NoNewRules
<1>1. RowByRow(w)
  BY CommitRows
<1>2. ASSUME w.kind \notin {"update field", "update value", "delete value"}
      PROVE  TextsStay
  <2>1. ~Removes(w) /\ ~(w.op = "update" /\ w.table = "fields")
    BY <1>2, WrittenIs DEF Removes, KindOf
  <2>2. \A rule \in RuleRows : rule.target \in 1..last["fields"]
    BY DEF RuleRows
  <2> QED BY <1>1, <2>1, <2>2, TextStays DEF TextsStay
<1>3. ASSUME w.kind # "update rule" PROVE RulesStay
  <2>1. ~(w.op = "update" /\ w.table = "rules")
    BY <1>3, WrittenIs DEF KindOf
  <2> QED BY <1>1, <2>1 DEF RowByRow, Kept, RulesStay, Tables
<1>4. ASSUME w.kind # "create rule" PROVE NoNewRules
  <2>1. ~(w.op = "insert" /\ w.table = "rules")
    BY <1>4, WrittenIs DEF KindOf
  <2> QED BY <1>1, <2>1 DEF RowByRow, NoNewRules, Tables
<1> QED BY <1>2, <1>3, <1>4

(* Two values that go one after the other: no rule sets the text of the    *)
(* one that goes first, and so the rules that are left without the other   *)
(* have a third.                                                           *)
LEMMA CommitSpares ==
    ASSUME TypeOK, Settled, NEW w, Written(w), Commit(w), OptionFits(w), Unset(w),
           w.kind \notin {"create rule", "update rule"}, NEW id,
           \A i \in DOMAIN db.rules : TextHolds(db.rules[i], {id})
    PROVE  TextsSpared(id)
<1>1. RowByRow(w)
  BY CommitRows
<1> SUFFICES ASSUME NEW i \in DOMAIN db'.rules, NEW r, r = db'.rules[i]
             PROVE  TextHolds(r, {id})'
  BY DEF TextsSpared, TextHolds, ValuesOf
<1>2. i \in DOMAIN db.rules
  <2>1. ~(w.op = "insert" /\ w.table = "rules")
    BY WrittenIs DEF KindOf
  <2> QED BY <1>1, <2>1 DEF RowByRow, Tables
<1>3. r = db.rules[i]
  <2>1. ~(w.op = "update" /\ w.table = "rules")
    BY WrittenIs DEF KindOf
  <2> QED BY <1>1, <1>2, <2>1 DEF RowByRow, Kept, Tables
<1>4. r \in RuleRows /\ r.target \in 1..last["fields"] /\ TextHolds(r, {id})
  <2>1. r \in RuleRows
    BY <1>2, <1>3, TypesOf
  <2> QED BY <1>2, <1>3, <2>1 DEF RuleRows
<1>5. ASSUME Removes(w) PROVE TextHolds(r, {id} \cup {w.id})
  <2>1. SUFFICES ASSUME r.type = "CALCULATION", r.set # None,
                        r.target \in DOMAIN db.fields, ~db.fields[r.target].free
                 PROVE  \E j \in ValuesOf(db, r.target) \ ({id} \cup {w.id}) :
                            db.values[j].text = r.set
    BY DEF TextHolds
  <2>2. PICK j \in ValuesOf(db, r.target) \ {id} : db.values[j].text = r.set
    BY <1>4, <2>1 DEF TextHolds
  <2>3. j # w.id
    BY <1>2, <1>3, <1>5, <2>1, <2>2 DEF Unset, SettersOf, CalculationsOf, ValuesOf
  <2> QED BY <2>2, <2>3
<1>6. ASSUME w.op = "update", w.table = "fields", w.id = r.target,
             "free" \in DOMAIN w.set, ~w.set.free
      PROVE  r.type # "CALCULATION"
  BY <1>2, <1>3, <1>6 DEF OptionFits, CalculationsOf
<1> QED BY <1>1, <1>4, <1>5, <1>6, TextStays

LEMMA CloneRules ==
    ASSUME TypeOK, LinkInv, OptionInv, NEW v, Clones(v)
    PROVE  /\ TextsStay /\ RulesStay /\ NoNewRules
           /\ \A id \in 1..last["values"] :
                (\A i \in DOMAIN db.rules : TextHolds(db.rules[i], {id})) =>
                    TextsSpared(id)
<1>1. /\ \A i \in DOMAIN db.rules : db'.rules[i] = db.rules[i]
      /\ \A i \in DOMAIN db'.rules \ DOMAIN db.rules :
            \E j \in Of(db, "rules", v) : i = NewId("rules", v, j)
  BY CloneRows DEF Tables
<1>2. TextsStay /\ RulesStay
  BY <1>1, CloneKeepsText DEF TextsStay, RulesStay
<1>3. NoNewRules
  <2>1. ASSUME NEW k \in Of(db, "rules", v)
        PROVE  db'.rules[NewId("rules", v, k)].target \notin 1..last["fields"]
    <3>1. db.rules[k] \in RuleRows /\ db.rules[k].target \in Of(db, "fields", v)
      BY Within, TypesOf DEF Clones
    <3>2. db'.rules[NewId("rules", v, k)].target =
             NewId("fields", v, db.rules[k].target)
      BY <3>1 DEF Clones, CopyOfRule, RuleRows
    <3>3. /\ NewId("fields", v, db.rules[k].target) > last["fields"]
          /\ NewId("fields", v, db.rules[k].target) \in 1..last'["fields"]
      BY <3>1, ClonedIds DEF Tables
    <3>4. last["fields"] \in Nat
      BY TypesOf DEF Tables
    <3> QED BY <3>2, <3>3, <3>4
  <2> QED BY <1>1, <2>1 DEF NoNewRules
<1>4. ASSUME NEW id \in 1..last["values"],
             \A i \in DOMAIN db.rules : TextHolds(db.rules[i], {id})
      PROVE  TextsSpared(id)
  <2> SUFFICES ASSUME NEW i \in DOMAIN db'.rules, NEW r, r = db'.rules[i]
               PROVE  TextHolds(r, {id})'
    BY DEF TextsSpared, TextHolds, ValuesOf
  <2>1. CASE i \in DOMAIN db.rules
    <3>1. r = db.rules[i] /\ r \in RuleRows
      BY <1>1, <2>1, TypesOf
    <3> QED BY <1>4, <2>1, <3>1, CloneKeepsText
  <2>2. CASE i \notin DOMAIN db.rules
    <3>1. PICK k \in Of(db, "rules", v) : i = NewId("rules", v, k)
      BY <1>1, <2>2
    <3>2. {id} \in SUBSET (1..last["values"])
      BY <1>4
    <3> QED BY <3>1, <3>2, CopiedRule
  <2> QED BY <2>1, <2>2
<1> QED BY <1>2, <1>3, <1>4

RuleInv ==
    /\ SettledInv
    /\ ~moved => OptionInv /\ (Waits => OptionFits(held))

(* Whoever edits rules waits for the edits of fields and values that their *)
(* checks rest on.                                                         *)
RulesQueue ==
    /\ \A kind \in {"create rule", "update rule"},
          other \in {"update field", "update value", "delete value"} :
             {kind, other} \in Conflicts
    /\ {"update rule"} \in Conflicts

LEMMA RuleStep ==
    ASSUME RulesQueue, RuleInv, [Next]_vars
    PROVE  RuleInv'
<1> DEFINE HeldFits == Waits => OptionFits(held)
<1>1. SettledInv'
  BY SettledStep DEF RuleInv
<1> SUFFICES ASSUME ~moved' PROVE OptionInv' /\ HeldFits'
  BY <1>1 DEF RuleInv
<1>2. ~moved
  BY WasUnmoved DEF RuleInv, SettledInv
<1>3. /\ TypeOK /\ LinkInv /\ OptionInv /\ HeldFits
      /\ Waits => Written(held) /\ LinkFits(held)
  BY <1>2 DEF RuleInv, SettledInv, BaseInv, Waits
<1>4. CASE UNCHANGED <<versions, db, last>>
  <2>1. OptionInv'
    BY <1>3, <1>4 DEF OptionInv, OptionHolds, TextHolds, ValuesOf
  <2>2. ASSUME NEW w, Written(w), OptionFits(w) PROVE OptionFits(w)'
    <3>1. Settled /\ RulesStay /\ NoNewRules
      BY <1>3, <1>4, Rests DEF RulesStay, NoNewRules
    <3>2. TextsStay
      BY <1>4 DEF TextsStay, TextHolds, ValuesOf
    <3>3. ASSUME Removes(w) PROVE TextsSpared(w.id)
      <4>1. \A i \in DOMAIN db.rules : TextHolds(db.rules[i], {w.id})
        BY <2>2, <3>3 DEF OptionFits
      <4> QED BY <1>4, <4>1 DEF TextsSpared, TextHolds, ValuesOf
    <3> QED BY <1>3, <2>2, <3>1, <3>2, <3>3, OptionKeeps
  <2>3. CASE UNCHANGED held
    BY <1>3, <2>1, <2>2, <2>3 DEF Waits
  <2>4. CASE \E w : Checked(w) /\ held' = w
    <3>1. PICK w : Checked(w) /\ held' = w
      BY <2>4
    <3>2. OptionFits(w)'
      BY <1>3, <2>2, <3>1 DEF Checked
    <3> QED BY <1>3, <2>1, <3>1, <3>2
  <2>5. CASE held' = Nothing
    BY <1>3, <2>1, <2>5 DEF Waits
  <2> QED BY <1>3, <2>3, <2>4, <2>5, StepIs
<1>5. CASE \E w : /\ Checked(w) /\ Commit(w) /\ UNCHANGED held
                  /\ {w.kind, held.kind} \notin Conflicts
  <2>1. PICK w : /\ Checked(w) /\ Commit(w) /\ UNCHANGED held
                 /\ {w.kind, held.kind} \notin Conflicts
    BY <1>5
  <2>2. OptionFits(w) /\ Written(w) /\ Unset(w)
    BY <1>3, <2>1 DEF Checked
  <2>3. Settled /\ OptionInv'
    BY <1>3, <2>1, <2>2, CommitStill, CommitOption, CommitSettles DEF Checked
  <2>4. CASE Waits
    <3> DEFINE touching == {"update field", "update value", "delete value"}
    <3>1. /\ held.kind \in {"create rule", "update rule"} => w.kind \notin touching
          /\ held.kind \in touching => w.kind \notin {"create rule", "update rule"}
          /\ ~(held.kind = "update rule" /\ w.kind = "update rule")
      <4>1. {w.kind, held.kind} = {held.kind, w.kind}
        OBVIOUS
      <4>2. w.kind = held.kind => {w.kind, held.kind} = {w.kind}
        OBVIOUS
      <4> QED BY <2>1, <4>1, <4>2 DEF RulesQueue
    <3>2. ASSUME Removes(held) PROVE TextsSpared(held.id)
      <4>1. held.kind \in touching
        BY <1>3, <2>4, <3>2, WrittenIs DEF Removes, KindOf
      <4>2. \A i \in DOMAIN db.rules : TextHolds(db.rules[i], {held.id})
        BY <1>3, <2>4, <3>2 DEF OptionFits
      <4> QED BY <1>3, <2>1, <2>2, <2>3, <3>1, <4>1, <4>2, CommitSpares
    <3>3. /\ held.kind \in {"create rule", "update rule"} => TextsStay
          /\ held.kind \in {"update rule", "update field"} => RulesStay
          /\ held.kind = "update field" => NoNewRules
      BY <1>3, <2>1, <2>2, <2>3, <3>1, CommitRules
    <3> HIDE DEF touching
    <3>4. UNCHANGED held
      BY <2>1
    <3>5. Written(held) /\ OptionFits(held)
      BY <1>3, <2>4
    <3>6. OptionFits(held)'
      BY <1>3, <2>3, <3>2, <3>3, <3>4, <3>5, OptionKeeps
    <3> QED BY <1>3, <2>3, <3>6
  <2>5. CASE ~Waits
    BY <1>3, <2>1, <2>3, <2>5 DEF Waits
  <2> QED BY <2>4, <2>5
<1>6. CASE Waits /\ Commit(held) /\ held' = Nothing
  <2>1. OptionInv'
    BY <1>3, <1>6, CommitStill, CommitOption
  <2>2. HeldFits'
    BY <1>6 DEF Waits
  <2> QED BY <1>3, <2>1, <2>2
<1>7. CASE UNCHANGED <<held, moved>> /\ \E v \in DOMAIN versions : Clones(v)
  <2>1. PICK v \in DOMAIN versions : Clones(v)
    BY <1>7
  <2>2. Settled /\ OptionInv'
    BY <1>3, <2>1, CloneOption, CloneSettles
  <2>3. CASE Waits
    <3>1. ASSUME Removes(held) PROVE TextsSpared(held.id)
      <4>1. held.id \in 1..last["values"]
        BY <1>3, <2>3, <3>1, WrittenIs DEF Removes
      <4>2. \A i \in DOMAIN db.rules : TextHolds(db.rules[i], {held.id})
        BY <1>3, <2>3, <3>1 DEF OptionFits
      <4> QED BY <1>3, <2>1, <4>1, <4>2, CloneRules
    <3>2. OptionFits(held)'
      BY <1>3, <1>7, <2>1, <2>2, <2>3, <3>1, CloneRules, OptionKeeps
    <3> QED BY <1>3, <1>7, <2>2, <3>2
  <2>4. CASE ~Waits
    BY <1>3, <1>7, <2>2, <2>4 DEF Waits
  <2> QED BY <2>3, <2>4
<1> QED BY <1>3, <1>4, <1>5, <1>6, <1>7, StepIs

LEMMA RuleInvMeans == RuleInv => RulesMeanSomethingUnmoved
<1> SUFFICES ASSUME RuleInv, ~moved, NEW i \in DOMAIN db.rules, NEW r, r = db.rules[i]
             PROVE  /\ r.target \in Of(db, "fields", r.version)
                    /\ r.option # None => InField(r.option, r.target)
                    /\ MaySet(r, r.set)
  BY DEF RulesMeanSomethingUnmoved, RulesMeanSomething
<1>1. /\ r.target \in DOMAIN db.fields
      /\ r.option \in DOMAIN db.values \cup {None}
      /\ db.fields[r.target].version = r.version
      /\ OptionHolds(r) /\ TextHolds(r, {})
  BY DEF RuleInv, SettledInv, BaseInv, LinkInv, RefersToRows, FixedInv, OptionInv
<1>2. r.target \in Of(db, "fields", r.version)
  BY <1>1 DEF Of
<1>3. r.option # None => InField(r.option, r.target)
  BY <1>1 DEF OptionHolds, InField, ValuesOf
<1>4. MaySet(r, r.set)
  BY <1>1 DEF TextHolds, MaySet, TextsOf
<1> QED BY <1>2, <1>3, <1>4

(* create_rule, update_rule, update_field, update_value, delete_value:     *)
(* where edits of rules queue with those of the fields and values that     *)
(* their checks look at, every rule has a target in its version, an option *)
(* of that target and a text that one of its values has: as long as no     *)
(* PATCH has moved a value to another field or a field to another version. *)
THEOREM RulesStayMeaningful ==
    ASSUME RulesQueue
    PROVE  Spec => []RulesMeanSomethingUnmoved
<1>1. Init => RuleInv
  BY SettledInit, InitIs DEF RuleInv, OptionInv, Tables
<1>2. RuleInv /\ [Next]_vars => RuleInv'
  BY RuleStep
<1> QED BY <1>1, <1>2, RuleInvMeans, PTL DEF Spec

-----------------------------------------------------------------------------
(* The copy has the structure of its source                                *)

LEMMA CopyHome ==
    ASSUME TypeOK, LinkInv, NEW v, Clones(v), NEW t \in Tables,
           NEW j \in Of(db, t, v)
    PROVE  Home(db', t, NewId(t, v, j)) = Fresh
<1>1. CASE t = "fields"
  <2>1. db'.fields[NewId("fields", v, j)] = CopyOfField(db.fields[j], Fresh)
    BY <1>1 DEF Clones
  <2>2. db.fields[j] \in FieldRows
    BY <1>1, Within, TypesOf DEF Clones
  <2> QED BY <1>1, <2>1, <2>2 DEF Home, CopyOfField, FieldRows
<1>2. CASE t = "values"
  <2> DEFINE f == db.values[j].field
  <2>1. db'.values[NewId("values", v, j)] = CopyOfValue(db.values[j], v)
    BY <1>2 DEF Clones
  <2>2. db.values[j] \in ValueRows /\ f \in Of(db, "fields", v) /\ db.fields[f] \in FieldRows
    BY <1>2, Within, TypesOf DEF Clones
  <2>3. db'.values[NewId("values", v, j)].field = NewId("fields", v, f)
    BY <2>1, <2>2 DEF CopyOfValue, ValueRows
  <2>4. db'.fields[NewId("fields", v, f)] = CopyOfField(db.fields[f], Fresh)
    <3> HIDE DEF f
    <3> QED BY <2>2 DEF Clones
  <2>5. db'.fields[NewId("fields", v, f)].version = Fresh
    <3> HIDE DEF f
    <3> QED BY <2>2, <2>4 DEF CopyOfField, FieldRows
  <2> QED BY <1>2, <2>3, <2>5 DEF Home
<1>3. CASE t = "rules"
  <2>1. db'.rules[NewId("rules", v, j)] = CopyOfRule(db.rules[j], v, Fresh)
    BY <1>3 DEF Clones
  <2>2. db.rules[j] \in RuleRows
    BY <1>3, Within, TypesOf DEF Clones
  <2> HIDE DEF Criteria
  <2> QED BY <1>3, <2>1, <2>2 DEF Home, CopyOfRule, RuleRows
<1>4. CASE t = "items"
  <2>1. db'.items[NewId("items", v, j)] = CopyOfItem(db.items[j], v, Fresh)
    BY <1>4 DEF Clones
  <2>2. db.items[j] \in ItemRows
    BY <1>4, Within, TypesOf DEF Clones
  <2> QED BY <1>4, <2>1, <2>2 DEF Home, CopyOfItem, ItemRows
<1>5. CASE t = "uses"
  <2>1. db'.uses[NewId("uses", v, j)] = CopyOfUse(db.uses[j], v, Fresh)
    BY <1>5 DEF Clones
  <2>2. db.uses[j] \in UseRows
    BY <1>5, Within, TypesOf DEF Clones
  <2> HIDE DEF Criteria
  <2> QED BY <1>5, <2>1, <2>2 DEF Home, CopyOfUse, UseRows
<1> QED BY <1>1, <1>2, <1>3, <1>4, <1>5 DEF Tables

NewIdOf(t, v) == [i \in Of(db, t, v) |-> NewId(t, v, i)]

(* The rows of the new version are the copies, and no other rows.          *)
LEMMA CopyIsWhole ==
    ASSUME TypeOK, LinkInv, NEW v, Clones(v), NEW t \in Tables
    PROVE  /\ Of(db', t, v) = Of(db, t, v)
           /\ Of(db', t, Fresh) = {NewId(t, v, j) : j \in Of(db, t, v)}
           /\ NewIdOf(t, v) \in Bijections(Of(db', t, v), Of(db', t, Fresh))
<1>1. \A d, u : Of(d, t, u) = {i \in DOMAIN d[t] : Home(d, t, i) = u}
  BY DEF Of, Home
<1>2. ASSUME NEW i \in DOMAIN db[t]
      PROVE  /\ Home(db', t, i) = Home(db, t, i)
             /\ Home(db, t, i) \in DOMAIN versions
             /\ i \in DOMAIN db'[t]
  <2>1. Home(db, t, i) \in DOMAIN versions
    BY HomeIs DEF LinkInv
  <2>2. i \in DOMAIN db'[t]
    BY CloneRows
  <2>3. i <= last[t]
    BY TypesOf
  <2>4. Home(db', t, i) = Home(db, t, i)
    BY <2>2, <2>3, CloneSettles, SettledHome
  <2> QED BY <2>1, <2>2, <2>4
<1>3. ASSUME NEW j \in Of(db, t, v)
      PROVE  NewId(t, v, j) \in DOMAIN db'[t] /\ Home(db', t, NewId(t, v, j)) = Fresh
  BY CopyHome, ClonedIds
<1>4. ASSUME NEW i \in DOMAIN db'[t] \ DOMAIN db[t]
      PROVE  \E j \in Of(db, t, v) : i = NewId(t, v, j)
  BY CloneRows
<1>5. v \in DOMAIN versions /\ Fresh \notin DOMAIN versions
  BY FreshIs DEF Clones
<1> HIDE DEF Tables
<1>6. Of(db', t, v) = Of(db, t, v)
  <2>1. ASSUME NEW i \in Of(db', t, v) PROVE i \in DOMAIN db[t]
    <3>1. i \in DOMAIN db'[t] /\ Home(db', t, i) = v
      BY <1>1
    <3>2. CASE i \notin DOMAIN db[t]
      BY <1>3, <1>4, <1>5, <3>1, <3>2
    <3> QED BY <3>2
  <2>2. Of(db', t, v) = {i \in DOMAIN db'[t] : Home(db', t, i) = v}
    BY <1>1
  <2>3. Of(db, t, v) = {i \in DOMAIN db[t] : Home(db, t, i) = v}
    BY <1>1
  <2>4. \A i : i \in Of(db', t, v) <=> i \in Of(db, t, v)
    BY <1>2, <2>1, <2>2, <2>3
  <2> QED BY <2>4
<1>7. Of(db', t, Fresh) = {NewId(t, v, j) : j \in Of(db, t, v)}
  <2>1. ASSUME NEW i \in Of(db', t, Fresh)
        PROVE  \E j \in Of(db, t, v) : i = NewId(t, v, j)
    <3>1. i \in DOMAIN db'[t] /\ Home(db', t, i) = Fresh
      BY <1>1
    <3>2. i \notin DOMAIN db[t]
      BY <1>2, <1>5, <3>1
    <3> QED BY <1>4, <3>1, <3>2
  <2> QED BY <1>1, <1>3, <2>1
<1>8. NewIdOf(t, v) \in Bijections(Of(db', t, v), Of(db', t, Fresh))
  <2>1. \A x, y \in Of(db, t, v) : NewId(t, v, x) = NewId(t, v, y) => x = y
    BY NewIds
  <2> QED BY <1>6, <1>7, <2>1 DEF NewIdOf, Bijections
<1> QED BY <1>6, <1>7, <1>8

LEMMA OneRule ==
    ASSUME NEW version, NEW type, NEW target, NEW option, NEW set, NEW reads,
           NEW r \in [version : {version}, type : {type}, target : {target},
                      option : {option}, set : {set}, reads : {reads}]
    PROVE  r = [version |-> version, type |-> type, target |-> target,
                option |-> option, set |-> set, reads |-> reads]
<1>1. r = [version |-> r.version, type |-> r.type, target |-> r.target,
           option |-> r.option, set |-> r.set, reads |-> r.reads]
  OBVIOUS
<1>2. /\ r.version = version /\ r.type = type /\ r.target = target
      /\ r.option = option /\ r.set = set /\ r.reads = reads
  OBVIOUS
<1> QED BY <1>1, <1>2

LEMMA OneUse ==
    ASSUME NEW version, NEW item, NEW reads,
           NEW r \in [version : {version}, item : {item}, reads : {reads}]
    PROVE  r = [version |-> version, item |-> item, reads |-> reads]
<1>1. r = [version |-> r.version, item |-> r.item, reads |-> r.reads]
  OBVIOUS
<1>2. r.version = version /\ r.item = item /\ r.reads = reads
  OBVIOUS
<1> QED BY <1>1, <1>2

LEMMA CopyIsSame ==
    ASSUME TypeOK, LinkInv, NEW v, Clones(v)
    PROVE  SameStructure(db', v, Fresh)
<1> DEFINE f == NewIdOf("fields", v)
           g == NewIdOf("values", v)
           h == NewIdOf("items", v)
<1>1. /\ f \in Bijections(Of(db', "fields", v), Of(db', "fields", Fresh))
      /\ g \in Bijections(Of(db', "values", v), Of(db', "values", Fresh))
      /\ h \in Bijections(Of(db', "items", v), Of(db', "items", Fresh))
  BY CopyIsWhole DEF Tables
<1>2. /\ DOMAIN f = Of(db, "fields", v)
      /\ DOMAIN g = Of(db, "values", v)
      /\ DOMAIN h = Of(db, "items", v)
      /\ \A i \in Of(db, "fields", v) : f[i] = NewId("fields", v, i)
      /\ \A i \in Of(db, "values", v) : g[i] = NewId("values", v, i)
      /\ \A i \in Of(db, "items", v) : h[i] = NewId("items", v, i)
  BY DEF NewIdOf
<1>3. /\ \A i \in Of(db, "fields", v) :
            db'.fields[i] = db.fields[i] /\ db.fields[i] \in FieldRows
      /\ \A i \in Of(db, "values", v) :
            db'.values[i] = db.values[i] /\ db.values[i] \in ValueRows
      /\ \A i \in Of(db, "rules", v) :
            db'.rules[i] = db.rules[i] /\ db.rules[i] \in RuleRows
      /\ \A i \in Of(db, "items", v) :
            db'.items[i] = db.items[i] /\ db.items[i] \in ItemRows
      /\ \A i \in Of(db, "uses", v) :
            db'.uses[i] = db.uses[i] /\ db.uses[i] \in UseRows
  BY CloneRows, TypesOf DEF Of, Tables
<1>4. /\ \A t \in Tables : None \notin Of(db, t, v)
  BY TypesOf, NoneAssumption DEF Of
<1> HIDE DEF f, g, h
<1>5. ASSUME NEW i \in Of(db, "fields", v)
      PROVE  /\ db'.fields[f[i]].free = db'.fields[i].free
             /\ db'.fields[f[i]].number = db'.fields[i].number
  <2>1. db'.fields[f[i]] = CopyOfField(db.fields[i], Fresh)
    BY <1>2 DEF Clones
  <2> QED BY <1>3, <2>1 DEF CopyOfField, FieldRows
<1>6. ASSUME NEW i \in Of(db, "values", v)
      PROVE  /\ db'.values[g[i]].field = f[db'.values[i].field]
             /\ db'.values[g[i]].text = db'.values[i].text
  <2>1. db'.values[g[i]] = CopyOfValue(db.values[i], v)
    BY <1>2 DEF Clones
  <2>2. f[db.values[i].field] = NewId("fields", v, db.values[i].field)
    BY <1>2, Within DEF Clones
  <2> QED BY <1>3, <2>1, <2>2 DEF CopyOfValue, ValueRows
<1>7. ASSUME NEW i \in Of(db, "items", v)
      PROVE  /\ db'.items[h[i]].commercial = db'.items[i].commercial
             /\ db'.items[h[i]].parent = OrNone(h, db'.items[i].parent)
             /\ db'.items[h[i]].quantity = OrNone(f, db'.items[i].quantity)
  <2>1. db'.items[h[i]] = CopyOfItem(db.items[i], v, Fresh)
    BY <1>2 DEF Clones
  <2>2. OrNone(h, db.items[i].parent) = NewIdOrNone("items", v, db.items[i].parent)
    BY <1>2, Within DEF Clones, OrNone, NewIdOrNone
  <2>3. OrNone(f, db.items[i].quantity) =
            NewIdOrNone("fields", v, db.items[i].quantity)
    BY <1>2, Within DEF Clones, OrNone, NewIdOrNone
  <2> QED BY <1>3, <2>1, <2>2, <2>3 DEF CopyOfItem, ItemRows
<1> DEFINE RuleOf(i) == [db'.rules[i] EXCEPT !.version = Fresh, !.target = f[@],
                             !.option = OrNone(g, @), !.reads.field = f[@]]
           UseOf(i) == [db'.uses[i] EXCEPT !.version = Fresh, !.item = h[@],
                            !.reads.field = f[@]]
<1>8. ASSUME NEW i \in Of(db, "rules", v)
      PROVE  db'.rules[NewId("rules", v, i)] = RuleOf(i)
  <2> DEFINE rule == db.rules[i]
  <2>1. db'.rules[NewId("rules", v, i)] = CopyOfRule(rule, v, Fresh)
    BY DEF Clones
  <2>2. /\ f[rule.target] = NewId("fields", v, rule.target)
        /\ f[rule.reads.field] = NewId("fields", v, rule.reads.field)
        /\ OrNone(g, rule.option) = NewIdOrNone("values", v, rule.option)
    BY <1>2, Within DEF Clones, OrNone, NewIdOrNone
  <2>3. rule \in RuleRows /\ db'.rules[i] = rule
    BY <1>3
  <2> DEFINE reads == [rule.reads EXCEPT !.field = f[@]]
             OnlyRule == [version : {Fresh}, type : {rule.type},
                          target : {f[rule.target]}, option : {OrNone(g, rule.option)},
                          set : {rule.set}, reads : {reads}]
  <2> HIDE DEF rule
  <2>4. CopyOfRule(rule, v, Fresh) \in OnlyRule
    BY <2>2, <2>3 DEF CopyOfRule, Rewritten, RuleRows
  <2>5. RuleOf(i) \in OnlyRule
    BY <2>3 DEF RuleRows
  <2> HIDE DEF RuleOf, reads
  <2> QED BY <2>1, <2>4, <2>5, OneRule
<1>9. ASSUME NEW i \in Of(db, "uses", v)
      PROVE  db'.uses[NewId("uses", v, i)] = UseOf(i)
  <2> DEFINE use == db.uses[i]
  <2>1. db'.uses[NewId("uses", v, i)] = CopyOfUse(use, v, Fresh)
    BY DEF Clones
  <2>2. /\ h[use.item] = NewId("items", v, use.item)
        /\ f[use.reads.field] = NewId("fields", v, use.reads.field)
    BY <1>2, Within DEF Clones
  <2>3. use \in UseRows /\ db'.uses[i] = use
    BY <1>3
  <2> DEFINE reads == [use.reads EXCEPT !.field = f[@]]
             OnlyUse == [version : {Fresh}, item : {h[use.item]}, reads : {reads}]
  <2> HIDE DEF use
  <2>4. CopyOfUse(use, v, Fresh) \in OnlyUse
    BY <2>2, <2>3 DEF CopyOfUse, Rewritten, UseRows
  <2>5. UseOf(i) \in OnlyUse
    BY <2>3 DEF UseRows
  <2> HIDE DEF UseOf, reads
  <2> QED BY <2>1, <2>4, <2>5, OneUse
<1>10. /\ {db'.rules[i] : i \in Of(db', "rules", Fresh)} =
              {RuleOf(i) : i \in Of(db', "rules", v)}
       /\ {db'.uses[i] : i \in Of(db', "uses", Fresh)} =
              {UseOf(i) : i \in Of(db', "uses", v)}
  <2>1. ASSUME NEW t \in Tables
        PROVE  /\ Of(db', t, v) = Of(db, t, v)
               /\ Of(db', t, Fresh) = {NewId(t, v, j) : j \in Of(db, t, v)}
    BY CopyIsWhole
  <2>2. /\ Of(db', "rules", v) = Of(db, "rules", v)
        /\ Of(db', "rules", Fresh) = {NewId("rules", v, j) : j \in Of(db, "rules", v)}
        /\ Of(db', "uses", v) = Of(db, "uses", v)
        /\ Of(db', "uses", Fresh) = {NewId("uses", v, j) : j \in Of(db, "uses", v)}
    BY <2>1 DEF Tables
  <2> HIDE DEF RuleOf, UseOf
  <2> QED BY <1>8, <1>9, <2>2
<1>11. /\ \A i \in DOMAIN f :
             /\ db'.fields[f[i]].free = db'.fields[i].free
             /\ db'.fields[f[i]].number = db'.fields[i].number
       /\ \A i \in DOMAIN g :
             /\ db'.values[g[i]].field = f[db'.values[i].field]
             /\ db'.values[g[i]].text = db'.values[i].text
       /\ \A i \in DOMAIN h :
             /\ db'.items[h[i]].commercial = db'.items[i].commercial
             /\ db'.items[h[i]].parent = OrNone(h, db'.items[i].parent)
             /\ db'.items[h[i]].quantity = OrNone(f, db'.items[i].quantity)
  BY <1>2, <1>5, <1>6, <1>7
<1> QED BY <1>1, <1>10, <1>11 DEF SameStructure

(* clone_version: however the handlers overlap, a version that appears is  *)
(* a structural copy of another one, with the references of its rows       *)
(* mapped to its own rows.                                                 *)
THEOREM CopiesAreStructural == Spec => CopyIsStructural
<1>1. BaseInv /\ [Next]_vars =>
          [\A n \in DOMAIN versions' \ DOMAIN versions :
              \E v \in DOMAIN versions : SameStructure(db', v, n)]_vars
  <2> SUFFICES ASSUME BaseInv, [Next]_vars,
                      NEW n \in DOMAIN versions' \ DOMAIN versions
               PROVE  \E v \in DOMAIN versions : SameStructure(db', v, n)
    OBVIOUS
  <2>1. TypeOK /\ LinkInv
    BY DEF BaseInv
  <2>2. ASSUME NEW w, Written(w), Commit(w) PROVE FALSE
    <3>1. CASE w.op = "publish"
      BY <2>2, <3>1 DEF Commit, CommitPublish
    <3>2. CASE w.op # "publish"
      BY <2>2, <3>2, VersionsAfter
    <3> QED BY <3>1, <3>2
  <2>3. PICK v \in DOMAIN versions : Clones(v)
    BY <2>1, <2>2, StepIs DEF BaseInv, Checked, Waits
  <2>4. n = Fresh
    BY <2>1, <2>3, FreshIs DEF Clones, Statuses
  <2> QED BY <2>1, <2>3, <2>4, CopyIsSame
<1> QED BY <1>1, BaseHolds, PTL DEF Spec, CopyIsStructural

=============================================================================
