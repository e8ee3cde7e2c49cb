-------------------------- MODULE PriceCatalogProofs --------------------------
(* What the checks of the price handlers keep, and what has to queue for   *)
(* it, for every number of lists, items, parts and days.                   *)
EXTENDS PriceCatalog, TLAPS

(* The handlers that move windows run one at a time, and none that gives a *)
(* part a price overlaps one that retires or removes a part.               *)
Moves == {"update list", "create item", "update item"}

EnoughQueue ==
    /\ \A x, y \in Moves : {x, y} \in Conflicts
    /\ \A x \in {"create item", "update item"},
          y \in {"update part", "delete part"} : {x, y} \in Conflicts

-----------------------------------------------------------------------------
(* The invariant: the tables are in order, and what is held up would still *)
(* be let through                                                          *)

TablesInv ==
    /\ lastList \in Nat /\ lastItem \in Nat
    /\ DOMAIN lists \subseteq 1..lastList
    /\ DOMAIN items \subseteq 1..lastItem
    /\ \A l \in DOMAIN lists : lists[l] \in Window /\ Ordered(lists[l])
    /\ \A i \in DOMAIN items : items[i] \in Item /\ Ordered(items[i])

WithinInv ==
    \A i \in DOMAIN items : /\ items[i].list \in DOMAIN lists
                            /\ Within(items[i], lists[items[i].list])

DisjointInv ==
    \A i, j \in DOMAIN items :
        i # j /\ Alike(items[i], items[j]) => ~Overlap(items[i], items[j])

(* A new window of a list.                                                 *)
WindowFits(l, window) ==
    /\ window \in Window
    /\ Ordered(window)
    /\ \A i \in DOMAIN items : items[i].list = l => Within(items[i], window)

(* An item that is to be row i, or a new one.                              *)
ItemFits(item, i) ==
    /\ item \in Item
    /\ Ordered(item)
    /\ item.list \in 1..lastList
    /\ item.list \in DOMAIN lists => Within(item, lists[item.list])
    /\ FitsIn(item, i)

NewItemFits(item) == ItemFits(item, 0) /\ Referable(item.part)

ItemMayBecome(i, item) ==
    /\ item.list = items[i].list
    /\ ItemFits(item, i)
    /\ item.part # items[i].part => Referable(item.part)

Fits(w) ==
    /\ w.kind \in Kinds
    /\ w.kind = "create list" => w.row \in Window /\ Ordered(w.row)
    /\ w.kind = "update list" =>
          /\ w.id \in 1..lastList
          /\ w.id \in DOMAIN lists =>
                WindowFits(w.id, Merged(lists[w.id], w.set))
    /\ w.kind = "create item" => NewItemFits(w.row)
    /\ w.kind = "update item" =>
          /\ w.id \in 1..lastItem
          /\ w.id \in DOMAIN items =>
                ItemMayBecome(w.id, Merged(items[w.id], w.set))

HeldInv == held = Nothing \/ Fits(held)

Inv == TablesInv /\ WithinInv /\ DisjointInv /\ HeldInv

-----------------------------------------------------------------------------
(* The columns that changed, written into the row as it was, are the row.  *)

LEMMA MergedWindow ==
    ASSUME NEW old \in Window, NEW new \in Window
    PROVE  Merged(old, Changes(old, new)) = new
<1>1. /\ DOMAIN old = {"from", "to"}
      /\ DOMAIN new = {"from", "to"}
      /\ new = [c \in {"from", "to"} |-> new[c]]
  BY DEF Window
<1>2. \A c \in {"from", "to"} : Merged(old, Changes(old, new))[c] = new[c]
  BY <1>1 DEF Merged, Changes
<1>3. Merged(old, Changes(old, new)) =
        [c \in {"from", "to"} |-> Merged(old, Changes(old, new))[c]]
  BY <1>1 DEF Merged
<1> QED BY <1>1, <1>2, <1>3

LEMMA MergedItem ==
    ASSUME NEW old \in Item, NEW new \in Item
    PROVE  Merged(old, Changes(old, new)) = new
<1> DEFINE Columns == {"list", "part", "price", "from", "to"}
<1>1. /\ DOMAIN old = Columns
      /\ DOMAIN new = Columns
      /\ new = [c \in Columns |-> new[c]]
  BY DEF Item
<1>2. \A c \in Columns : Merged(old, Changes(old, new))[c] = new[c]
  BY <1>1 DEF Merged, Changes
<1>3. Merged(old, Changes(old, new)) =
        [c \in Columns |-> Merged(old, Changes(old, new))[c]]
  BY <1>1 DEF Merged
<1> QED BY <1>1, <1>2, <1>3

-----------------------------------------------------------------------------
(* The first state                                                         *)

LEMMA InitInv == Init => Inv
<1> SUFFICES ASSUME Init PROVE Inv
  OBVIOUS
<1>1. DOMAIN lists = {} /\ DOMAIN items = {}
  BY DEF Init
<1> QED
  BY <1>1 DEF Init, Inv, TablesInv, WithinInv, DisjointInv, HeldInv

-----------------------------------------------------------------------------
(* What the handlers submit has been checked                               *)

LEMMA CheckedUpdateList ==
    ASSUME Inv, NEW window \in Window, NEW l \in DOMAIN lists,
           UpdateList(l, window)
    PROVE  \E w : Fits(w) /\ Submit(w)
<1> DEFINE w == [kind |-> "update list", id |-> l,
                 set |-> Changes(lists[l], window)]
<1>1. Merged(lists[l], w.set) = window
  BY MergedWindow DEF Inv, TablesInv
<1>2. WindowFits(l, window)
  BY DEF UpdateList, WindowFits
<1>3. Fits(w)
  BY <1>1, <1>2 DEF Fits, Kinds, Inv, TablesInv
<1>4. Submit(w)
  BY DEF UpdateList
<1> QED BY <1>3, <1>4

LEMMA CheckedCreateItem ==
    ASSUME Inv, NEW item \in Item, CreateItem(item)
    PROVE  \E w : Fits(w) /\ Submit(w)
<1> DEFINE w == [kind |-> "create item", row |-> item]
<1>1. item.list \in 1..lastList
  BY DEF CreateItem, Inv, TablesInv
<1>2. NewItemFits(item)
  BY <1>1 DEF CreateItem, NewItemFits, ItemFits
<1>3. Fits(w)
  BY <1>2 DEF Fits, Kinds
<1>4. Submit(w)
  BY DEF CreateItem
<1> QED BY <1>3, <1>4

(* Where the price alone changes, the windows are checked as they are.     *)
LEMMA CheckedUpdateItem ==
    ASSUME Inv, NEW item \in Item, NEW i \in DOMAIN items,
           UpdateItem(i, item)
    PROVE  \E w : Fits(w) /\ Submit(w)
<1> DEFINE old == items[i]
           w == [kind |-> "update item", id |-> i,
                 set |-> Changes(items[i], item)]
<1>1. old \in Item /\ i \in 1..lastItem /\ old.list \in DOMAIN lists
      /\ old.list \in 1..lastList
  BY DEF Inv, TablesInv, WithinInv
<1>2. Merged(old, w.set) = item
  BY <1>1, MergedItem
<1>3. item.list = old.list /\ Ordered(item)
      /\ (item.part # old.part => Referable(item.part))
  BY DEF UpdateItem
<1>4. Within(item, lists[item.list]) /\ FitsIn(item, i)
  <2>1. CASE [item EXCEPT !.price = old.price] # old
    BY <1>3, <2>1 DEF UpdateItem
  <2>2. CASE [item EXCEPT !.price = old.price] = old
    <3>1. /\ item.from = old.from
          /\ item.to = old.to
          /\ item.part = old.part
      <4>1. /\ [item EXCEPT !.price = old.price].from = item.from
            /\ [item EXCEPT !.price = old.price].to = item.to
            /\ [item EXCEPT !.price = old.price].part = item.part
        BY DEF Item
      <4> QED BY <4>1, <2>2
    <3>2. Within(item, lists[item.list])
      BY <1>3, <3>1 DEF Within, Inv, WithinInv
    <3>3. FitsIn(item, i)
      BY <1>3, <3>1 DEF FitsIn, Overlap, Alike, Inv, DisjointInv
    <3> QED BY <3>2, <3>3
  <2> QED BY <2>1, <2>2
<1>5. ItemMayBecome(i, item)
  BY <1>1, <1>3, <1>4 DEF ItemMayBecome, ItemFits
<1>6. Fits(w)
  BY <1>1, <1>2, <1>5 DEF Fits, Kinds
<1>7. Submit(w)
  BY DEF UpdateItem
<1> QED BY <1>6, <1>7

LEMMA Checked ==
    ASSUME Inv, Next
    PROVE  GoOn \/ \E w : Fits(w) /\ Submit(w)
<1>1. CASE \E window \in Window : CreateList(window)
  <2> PICK window \in Window : CreateList(window)
    BY <1>1
  <2> DEFINE w == [kind |-> "create list", row |-> window]
  <2>1. Fits(w) /\ Submit(w)
    BY DEF CreateList, Fits, Kinds
  <2> QED BY <2>1
<1>2. CASE \E window \in Window : \E l \in DOMAIN lists : UpdateList(l, window)
  BY <1>2, CheckedUpdateList
<1>3. CASE \E l \in DOMAIN lists : DeleteList(l)
  <2> PICK l \in DOMAIN lists : DeleteList(l)
    BY <1>3
  <2> DEFINE w == [kind |-> "delete list", id |-> l]
  <2>1. Fits(w) /\ Submit(w)
    BY DEF DeleteList, Fits, Kinds
  <2> QED BY <2>1
<1>4. CASE \E item \in Item : CreateItem(item)
  BY <1>4, CheckedCreateItem
<1>5. CASE \E item \in Item : \E i \in DOMAIN items : UpdateItem(i, item)
  BY <1>5, CheckedUpdateItem
<1>6. CASE \E i \in DOMAIN items : DeleteItem(i)
  <2> PICK i \in DOMAIN items : DeleteItem(i)
    BY <1>6
  <2> DEFINE w == [kind |-> "delete item", id |-> i]
  <2>1. Fits(w) /\ Submit(w)
    BY DEF DeleteItem, Fits, Kinds
  <2> QED BY <2>1
<1>7. CASE \E p \in Parts, status \in Statuses : CreatePart(p, status)
  <2> PICK p \in Parts, status \in Statuses : CreatePart(p, status)
    BY <1>7
  <2> DEFINE w == [kind |-> "create part", part |-> p, status |-> status]
  <2>1. Fits(w) /\ Submit(w)
    BY DEF CreatePart, Fits, Kinds
  <2> QED BY <2>1
<1>8. CASE \E p \in DOMAIN catalog : DeletePart(p)
  <2> PICK p \in DOMAIN catalog : DeletePart(p)
    BY <1>8
  <2> DEFINE w == [kind |-> "delete part", part |-> p]
  <2>1. Fits(w) /\ Submit(w)
    BY DEF DeletePart, Fits, Kinds
  <2> QED BY <2>1
<1>9. CASE \E p \in DOMAIN catalog : \E status \in Statuses :
             UpdatePart(p, status)
  <2> PICK p \in DOMAIN catalog, status \in Statuses : UpdatePart(p, status)
    BY <1>9
  <2> DEFINE w == [kind |-> "update part", part |-> p, status |-> status]
  <2>1. Fits(w) /\ Submit(w)
    BY DEF UpdatePart, Fits, Kinds
  <2> QED BY <2>1
<1> QED
  BY <1>1, <1>2, <1>3, <1>4, <1>5, <1>6, <1>7, <1>8, <1>9 DEF Next

-----------------------------------------------------------------------------
(* What fits can be committed                                              *)

Tables == TablesInv /\ WithinInv /\ DisjointInv

LEMMA CommittedCreateList ==
    ASSUME Tables, NEW window \in Window, Ordered(window),
           CommitCreateList(window)
    PROVE  Tables'
<1>1. CASE lastList < MaxLists
  <2> DEFINE n == lastList + 1
  <2>1. /\ lists' = With(lists, n, window)
        /\ lastList' = n
        /\ items' = items /\ lastItem' = lastItem
        /\ n \notin DOMAIN lists
    BY <1>1 DEF CommitCreateList, Tables, TablesInv
  <2>2. /\ DOMAIN lists' = DOMAIN lists \cup {n}
        /\ lists'[n] = window
        /\ \A l \in DOMAIN lists : lists'[l] = lists[l]
    BY <2>1 DEF With
  <2>3. TablesInv'
    BY <2>1, <2>2 DEF Tables, TablesInv, Ordered
  <2>4. WithinInv' /\ DisjointInv'
    BY <2>1, <2>2 DEF Tables, WithinInv, DisjointInv, Within, Alike, Overlap
  <2> QED BY <2>3, <2>4 DEF Tables
<1>2. CASE ~(lastList < MaxLists)
  BY <1>2 DEF CommitCreateList, Tables, TablesInv, WithinInv, DisjointInv,
              Ordered, Within, Alike, Overlap
<1> QED BY <1>1, <1>2

LEMMA CommittedUpdateList ==
    ASSUME Tables, NEW l, NEW set,
           l \in DOMAIN lists => WindowFits(l, Merged(lists[l], set)),
           CommitUpdateList(l, set)
    PROVE  Tables'
<1>1. CASE l \in DOMAIN lists
  <2> DEFINE window == Merged(lists[l], set)
  <2>1. /\ lists' = With(lists, l, window)
        /\ lastList' = lastList
        /\ items' = items /\ lastItem' = lastItem
        /\ WindowFits(l, window)
    BY <1>1 DEF CommitUpdateList
  <2> HIDE DEF window
  <2>2. /\ DOMAIN lists' = DOMAIN lists
        /\ lists'[l] = window
        /\ \A k \in DOMAIN lists \ {l} : lists'[k] = lists[k]
    BY <2>1, <1>1 DEF With
  <2>3. TablesInv'
    <3>1. \A k \in DOMAIN lists' : lists'[k] \in Window /\ Ordered(lists'[k])
      BY <2>1, <2>2 DEF Tables, TablesInv, WindowFits
    <3> QED BY <2>1, <2>2, <3>1 DEF Tables, TablesInv, Ordered
  <2>4. WithinInv'
    <3> SUFFICES ASSUME NEW i \in DOMAIN items
                 PROVE  /\ items[i].list \in DOMAIN lists'
                        /\ Within(items[i], lists'[items[i].list])
      BY <2>1 DEF WithinInv, Within
    <3> QED BY <2>1, <2>2 DEF Tables, WithinInv, WindowFits
  <2>5. DisjointInv'
    BY <2>1 DEF Tables, DisjointInv, Alike, Overlap
  <2> QED BY <2>3, <2>4, <2>5 DEF Tables
<1>2. CASE l \notin DOMAIN lists
  BY <1>2 DEF CommitUpdateList, Tables, TablesInv, WithinInv, DisjointInv,
              Ordered, Within, Alike, Overlap
<1> QED BY <1>1, <1>2

LEMMA CommittedDeleteList ==
    ASSUME Tables, NEW l, CommitDeleteList(l)
    PROVE  Tables'
<1>1. /\ lastList' = lastList /\ lastItem' = lastItem
      /\ DOMAIN lists' = DOMAIN lists \ {l}
      /\ \A k \in DOMAIN lists' : lists'[k] = lists[k]
      /\ DOMAIN items' = {i \in DOMAIN items : items[i].list # l}
      /\ \A i \in DOMAIN items' : items'[i] = items[i]
  BY DEF CommitDeleteList, Without
<1>2. TablesInv'
  BY <1>1 DEF Tables, TablesInv, Ordered
<1>3. WithinInv'
  BY <1>1 DEF Tables, WithinInv, Within
<1>4. DisjointInv'
  BY <1>1 DEF Tables, DisjointInv, Alike, Overlap
<1> QED BY <1>2, <1>3, <1>4 DEF Tables

LEMMA CommittedCreateItem ==
    ASSUME Tables, NEW item, NewItemFits(item), CommitCreateItem(item)
    PROVE  Tables'
<1> DEFINE n == lastItem + 1
<1>1. CASE lastItem < MaxItems /\ item.list \in DOMAIN lists
           /\ item.part \in DOMAIN catalog
  <2>1. /\ items' = With(items, n, item)
        /\ lastItem' = n
        /\ lists' = lists /\ lastList' = lastList
        /\ n \notin DOMAIN items
    BY <1>1 DEF CommitCreateItem, Tables, TablesInv
  <2>2. /\ DOMAIN items' = DOMAIN items \cup {n}
        /\ items'[n] = item
        /\ \A i \in DOMAIN items : items'[i] = items[i]
    BY <2>1 DEF With
  <2>3. /\ item \in Item
        /\ Ordered(item)
        /\ Within(item, lists[item.list])
        /\ \A i \in DOMAIN items :
              Alike(items[i], item) => ~Overlap(items[i], item)
    <3>1. 0 \notin DOMAIN items
      BY DEF Tables, TablesInv
    <3> QED BY <1>1, <3>1 DEF NewItemFits, ItemFits, FitsIn
  <2>4. TablesInv'
    <3>1. \A i \in DOMAIN items' : items'[i] \in Item /\ Ordered(items'[i])
      BY <2>2, <2>3 DEF Tables, TablesInv
    <3>2. /\ lastItem' \in Nat
          /\ DOMAIN items' \subseteq 1..lastItem'
      BY <2>1, <2>2 DEF Tables, TablesInv
    <3> QED BY <2>1, <3>1, <3>2 DEF Tables, TablesInv, Ordered
  <2>5. WithinInv'
    <3> SUFFICES ASSUME NEW i \in DOMAIN items'
                 PROVE  /\ items'[i].list \in DOMAIN lists
                        /\ Within(items'[i], lists[items'[i].list])
      BY <2>1 DEF WithinInv, Within
    <3> QED BY <1>1, <2>2, <2>3 DEF Tables, WithinInv
  <2>6. DisjointInv'
    <3> SUFFICES ASSUME NEW i \in DOMAIN items', NEW j \in DOMAIN items',
                        i # j, Alike(items'[i], items'[j])
                 PROVE  ~Overlap(items'[i], items'[j])
      BY DEF DisjointInv, Alike, Overlap
    <3>1. CASE i # n /\ j # n
      BY <3>1, <2>2 DEF Tables, DisjointInv
    <3>2. CASE j = n
      BY <3>2, <2>2, <2>3
    <3>3. CASE i = n
      <4>1. Alike(items'[j], items'[i])
        BY DEF Alike
      <4>2. ~Overlap(items'[j], item)
        BY <3>3, <4>1, <2>2, <2>3
      <4>3. items'[j] \in Item
        BY <2>2, <2>3 DEF Tables, TablesInv
      <4> QED
        BY <3>3, <4>2, <4>3, <2>2, <2>3, DaysAssumption DEF Overlap, Item
    <3> QED BY <3>1, <3>2, <3>3
  <2> QED BY <2>4, <2>5, <2>6 DEF Tables
<1>2. CASE ~(lastItem < MaxItems /\ item.list \in DOMAIN lists
             /\ item.part \in DOMAIN catalog)
  BY <1>2 DEF CommitCreateItem, Tables, TablesInv, WithinInv, DisjointInv,
              Ordered, Within, Alike, Overlap
<1> QED BY <1>1, <1>2

LEMMA CommittedUpdateItem ==
    ASSUME Tables, NEW k, NEW set,
           k \in DOMAIN items => ItemMayBecome(k, Merged(items[k], set)),
           CommitUpdateItem(k, set)
    PROVE  Tables'
<1> DEFINE item == Merged(items[k], set)
<1>1. CASE k \in DOMAIN items /\ item.part \in DOMAIN catalog
  <2>1. /\ items' = With(items, k, item)
        /\ lastItem' = lastItem
        /\ lists' = lists /\ lastList' = lastList
    BY <1>1 DEF CommitUpdateItem
  <2>2. ItemMayBecome(k, item)
    BY <1>1
  <2> HIDE DEF item
  <2>3. /\ DOMAIN items' = DOMAIN items
        /\ items'[k] = item
        /\ \A i \in DOMAIN items \ {k} : items'[i] = items[i]
    BY <1>1, <2>1 DEF With
  <2>4. /\ item \in Item
        /\ Ordered(item)
        /\ item.list \in DOMAIN lists
        /\ Within(item, lists[item.list])
        /\ \A i \in DOMAIN items \ {k} :
              Alike(items[i], item) => ~Overlap(items[i], item)
    BY <1>1, <2>2 DEF ItemMayBecome, ItemFits, FitsIn, Tables, WithinInv
  <2>5. TablesInv'
    <3>1. \A i \in DOMAIN items' : items'[i] \in Item /\ Ordered(items'[i])
      BY <2>3, <2>4 DEF Tables, TablesInv
    <3> QED BY <2>1, <2>3, <3>1 DEF Tables, TablesInv, Ordered
  <2>6. WithinInv'
    <3> SUFFICES ASSUME NEW i \in DOMAIN items'
                 PROVE  /\ items'[i].list \in DOMAIN lists
                        /\ Within(items'[i], lists[items'[i].list])
      BY <2>1 DEF WithinInv, Within
    <3> QED BY <2>3, <2>4 DEF Tables, WithinInv
  <2>7. DisjointInv'
    <3> SUFFICES ASSUME NEW i \in DOMAIN items', NEW j \in DOMAIN items',
                        i # j, Alike(items'[i], items'[j])
                 PROVE  ~Overlap(items'[i], items'[j])
      BY DEF DisjointInv, Alike, Overlap
    <3>1. CASE i # k /\ j # k
      BY <3>1, <2>3 DEF Tables, DisjointInv
    <3>2. CASE j = k
      BY <3>2, <2>3, <2>4
    <3>3. CASE i = k
      <4>1. Alike(items'[j], items'[i])
        BY DEF Alike
      <4>2. ~Overlap(items'[j], item)
        BY <3>3, <4>1, <2>3, <2>4
      <4>3. items'[j] \in Item
        BY <2>3, <2>4 DEF Tables, TablesInv
      <4> QED
        BY <3>3, <4>2, <4>3, <2>3, <2>4, DaysAssumption DEF Overlap, Item
    <3> QED BY <3>1, <3>2, <3>3
  <2> QED BY <2>5, <2>6, <2>7 DEF Tables
<1>2. CASE ~(k \in DOMAIN items /\ item.part \in DOMAIN catalog)
  BY <1>2 DEF CommitUpdateItem, Tables, TablesInv, WithinInv, DisjointInv,
              Ordered, Within, Alike, Overlap
<1> QED BY <1>1, <1>2

LEMMA CommittedDeleteItem ==
    ASSUME Tables, NEW k, CommitDeleteItem(k)
    PROVE  Tables'
<1>1. /\ lastList' = lastList /\ lastItem' = lastItem /\ lists' = lists
      /\ DOMAIN items' = DOMAIN items \ {k}
      /\ \A i \in DOMAIN items' : items'[i] = items[i]
  BY DEF CommitDeleteItem, Without
<1>2. TablesInv'
  BY <1>1 DEF Tables, TablesInv, Ordered
<1>3. WithinInv'
  BY <1>1 DEF Tables, WithinInv, Within
<1>4. DisjointInv'
  BY <1>1 DEF Tables, DisjointInv, Alike, Overlap
<1> QED BY <1>2, <1>3, <1>4 DEF Tables

LEMMA SameTables ==
    ASSUME Tables, UNCHANGED <<lists, items, lastList, lastItem>>
    PROVE  Tables'
BY DEF Tables, TablesInv, WithinInv, DisjointInv, Ordered, Within, Alike,
       Overlap

LEMMA Committed ==
    ASSUME Tables, NEW w, Fits(w), Commit(w)
    PROVE  Tables'
<1>1. CASE w.kind = "create list"
  BY <1>1, CommittedCreateList DEF Commit, Fits
<1>2. CASE w.kind = "update list"
  BY <1>2, CommittedUpdateList DEF Commit, Fits
<1>3. CASE w.kind = "delete list"
  BY <1>3, CommittedDeleteList DEF Commit
<1>4. CASE w.kind = "create item"
  BY <1>4, CommittedCreateItem DEF Commit, Fits
<1>5. CASE w.kind = "update item"
  BY <1>5, CommittedUpdateItem DEF Commit, Fits
<1>6. CASE w.kind = "delete item"
  BY <1>6, CommittedDeleteItem DEF Commit
<1>7. CASE w.kind = "create part"
  BY <1>7, SameTables DEF Commit, CommitCreatePart
<1>8. CASE w.kind = "update part"
  BY <1>8, SameTables DEF Commit, CommitUpdatePart
<1>9. CASE w.kind = "delete part"
  BY <1>9, SameTables DEF Commit, CommitDeletePart
<1> QED
  BY <1>1, <1>2, <1>3, <1>4, <1>5, <1>6, <1>7, <1>8, <1>9 DEF Fits, Kinds

-----------------------------------------------------------------------------
(* What a handler that is held up would write goes on to fit               *)

(* A commit that moves no window takes rows away, or adds a list.          *)
LEMMA Unmoved ==
    ASSUME TablesInv, NEW w, Fits(w), Commit(w), w.kind \notin Moves
    PROVE  /\ lastItem' = lastItem
           /\ lastList' \in Nat /\ lastList <= lastList'
           /\ \A l \in DOMAIN lists' : l \in 1..lastList =>
                  l \in DOMAIN lists /\ lists'[l] = lists[l]
           /\ \A i \in DOMAIN items' :
                  i \in DOMAIN items /\ items'[i] = items[i]
<1>1. CASE w.kind = "create list"
  <2>1. CommitCreateList(w.row)
    BY <1>1 DEF Commit
  <2> QED
    BY <2>1 DEF CommitCreateList, With, TablesInv
<1>2. CASE w.kind = "delete list"
  <2>1. CommitDeleteList(w.id)
    BY <1>2 DEF Commit
  <2> QED
    BY <2>1 DEF CommitDeleteList, Without, TablesInv
<1>3. CASE w.kind = "delete item"
  <2>1. CommitDeleteItem(w.id)
    BY <1>3 DEF Commit
  <2> QED
    BY <2>1 DEF CommitDeleteItem, Without, TablesInv
<1>4. CASE w.kind \in {"create part", "update part", "delete part"}
  <2>1. UNCHANGED <<lists, items, lastList, lastItem>>
    BY <1>4 DEF Commit, CommitCreatePart, CommitUpdatePart, CommitDeletePart
  <2> QED
    BY <2>1 DEF TablesInv
<1> QED BY <1>1, <1>2, <1>3, <1>4 DEF Fits, Kinds, Moves

LEMMA StillReferable ==
    ASSUME NEW w, Fits(w), Commit(w),
           w.kind \notin {"update part", "delete part"},
           NEW p, Referable(p)
    PROVE  Referable(p)'
<1>1. CASE w.kind = "create part"
  <2>1. CommitCreatePart(w.part, w.status)
    BY <1>1 DEF Commit
  <2> QED BY <2>1 DEF CommitCreatePart, With, Referable
<1>2. CASE w.kind # "create part"
  <2>1. catalog' = catalog
    BY <1>2 DEF Fits, Kinds, Commit, CommitCreateList, CommitUpdateList,
                CommitDeleteList, CommitCreateItem, CommitUpdateItem,
                CommitDeleteItem
  <2> QED BY <2>1 DEF Referable
<1> QED BY <1>1, <1>2

(* An item that fits does so when windows do not move.                     *)
LEMMA StillFits ==
    ASSUME TablesInv, NEW w, Fits(w), Commit(w), w.kind \notin Moves,
           NEW item, NEW i, ItemFits(item, i)
    PROVE  ItemFits(item, i)'
<1>1. item.list \in 1..lastList'
  BY Unmoved DEF ItemFits, TablesInv
<1>2. item.list \in DOMAIN lists' => Within(item, lists'[item.list])
  BY Unmoved DEF ItemFits
<1>3. \A j \in DOMAIN items' \ {i} :
         Alike(items'[j], item) => ~Overlap(items'[j], item)
  BY Unmoved DEF ItemFits, FitsIn
<1> QED
  BY <1>1, <1>2, <1>3 DEF ItemFits, FitsIn, Ordered, Within, Alike, Overlap

LEMMA StillFitting ==
    ASSUME EnoughQueue,
           TablesInv, NEW w, Fits(w), Commit(w),
           NEW h, Fits(h), {w.kind, h.kind} \notin Conflicts
    PROVE  Fits(h)'
<1>1. h.kind \in Kinds
  BY DEF Fits
<1>2. ASSUME h.kind \in Moves
      PROVE  w.kind \notin Moves
  BY <1>2 DEF EnoughQueue
<1>3. ASSUME h.kind \in {"create item", "update item"}
      PROVE  w.kind \notin {"update part", "delete part"}
  <2>1. {h.kind, w.kind} = {w.kind, h.kind}
    OBVIOUS
  <2> QED BY <1>3, <2>1 DEF EnoughQueue
<1>4. CASE h.kind = "create list"
  BY <1>1, <1>4 DEF Fits, Ordered
<1>5. CASE h.kind = "update list"
  <2>0. w.kind \notin Moves /\ h.id \in 1..lastList
    BY <1>2, <1>5 DEF Moves, Fits
  <2>1. h.id \in 1..lastList'
    BY <2>0, Unmoved DEF TablesInv
  <2>2. ASSUME h.id \in DOMAIN lists'
        PROVE  WindowFits(h.id, Merged(lists[h.id], h.set))'
    <3> DEFINE window == Merged(lists[h.id], h.set)
    <3>1. h.id \in DOMAIN lists /\ lists'[h.id] = lists[h.id]
      BY <2>0, <2>2, Unmoved
    <3>2. WindowFits(h.id, window)
      BY <1>5, <3>1 DEF Fits
    <3>3. \A i \in DOMAIN items' : items'[i].list = h.id =>
             Within(items'[i], window)
      BY <2>0, <3>2, Unmoved DEF WindowFits
    <3>4. Merged(lists'[h.id], h.set) = window
      BY <3>1
    <3> HIDE DEF window
    <3> QED BY <3>2, <3>3, <3>4 DEF WindowFits
  <2> QED
    BY <1>1, <1>5, <2>1, <2>2 DEF Fits
<1>6. CASE h.kind = "create item"
  <2>1. ItemFits(h.row, 0) /\ Referable(h.row.part)
    BY <1>6 DEF Fits, NewItemFits
  <2>2. (ItemFits(h.row, 0) /\ Referable(h.row.part))'
    BY <1>2, <1>3, <1>6, <2>1, StillFits, StillReferable DEF Moves
  <2> QED
    BY <1>1, <1>6, <2>2 DEF Fits, NewItemFits
<1>7. CASE h.kind = "update item"
  <2>0. /\ w.kind \notin Moves /\ w.kind \notin {"update part", "delete part"}
        /\ h.id \in 1..lastItem
    BY <1>2, <1>3, <1>7 DEF Moves, Fits
  <2>1. h.id \in 1..lastItem'
    BY <2>0, Unmoved
  <2>2. ASSUME h.id \in DOMAIN items'
        PROVE  ItemMayBecome(h.id, Merged(items[h.id], h.set))'
    <3>1. PICK item : item = Merged(items[h.id], h.set)
      OBVIOUS
    <3>2. h.id \in DOMAIN items /\ items'[h.id] = items[h.id]
      BY <2>0, <2>2, Unmoved
    <3>3. ItemMayBecome(h.id, item)
      BY <1>7, <3>1, <3>2 DEF Fits
    <3>4. ItemFits(item, h.id)'
      BY <2>0, <3>3, StillFits DEF ItemMayBecome
    <3>5. item.part # items[h.id].part => Referable(item.part)'
      BY <2>0, <3>3, StillReferable DEF ItemMayBecome
    <3>6. Merged(items'[h.id], h.set) = item
      BY <3>1, <3>2
    <3>7. ItemMayBecome(h.id, item)'
      BY <3>2, <3>3, <3>4, <3>5 DEF ItemMayBecome
    <3> QED BY <3>6, <3>7 DEF ItemMayBecome, ItemFits, FitsIn, Referable
  <2> QED
    BY <1>1, <1>7, <2>1, <2>2 DEF Fits
<1>8. CASE h.kind \notin {"create list", "update list",
                        "create item", "update item"}
  BY <1>1, <1>8 DEF Fits
<1> QED BY <1>4, <1>5, <1>6, <1>7, <1>8

-----------------------------------------------------------------------------
(* The theorems                                                            *)

LEMMA NextInv ==
    ASSUME EnoughQueue, Inv, [Next]_vars
    PROVE  Inv'
<1>1. CASE UNCHANGED vars
  <2>1. Tables'
    BY <1>1, SameTables DEF vars, Inv, Tables
  <2>2. HeldInv'
    BY <1>1 DEF vars, Inv, HeldInv, Fits, NewItemFits, ItemMayBecome,
                ItemFits, WindowFits, FitsIn, Referable
  <2> QED BY <2>1, <2>2 DEF Inv, Tables
<1>2. CASE GoOn
  <2>1. PICK w : w = held
    OBVIOUS
  <2>2. Fits(w) /\ Commit(w)
    BY <1>2, <2>1 DEF GoOn, Inv, HeldInv
  <2>3. Tables'
    BY <2>2, Committed DEF Inv, Tables
  <2> QED BY <1>2, <2>3 DEF GoOn, Inv, Tables, HeldInv, Nothing
<1>3. CASE \E w : Fits(w) /\ Submit(w)
  <2>1. PICK w : Fits(w) /\ Submit(w)
    BY <1>3
  <2>2. CASE Commit(w) /\ UNCHANGED held
    <3>1. Tables'
      BY <2>1, <2>2, Committed DEF Inv, Tables
    <3>2. HeldInv'
      <4>1. PICK h : h = held
        OBVIOUS
      <4>2. CASE h = Nothing
        BY <2>2, <4>1, <4>2 DEF HeldInv, Nothing
      <4>3. CASE h # Nothing
        <5>1. Fits(h) /\ {w.kind, h.kind} \notin Conflicts
          BY <2>1, <4>1, <4>3 DEF Submit, Inv, HeldInv
        <5>2. Fits(h)'
          BY <2>1, <2>2, <5>1, StillFitting DEF Inv
        <5> QED
          BY <2>2, <4>1, <5>2
             DEF HeldInv, Fits, NewItemFits, ItemMayBecome, ItemFits,
                 WindowFits, FitsIn, Referable
      <4> QED BY <4>2, <4>3
    <3> QED BY <3>1, <3>2 DEF Inv, Tables
  <2>3. CASE /\ held' = w
             /\ UNCHANGED <<catalog, lists, items, lastList, lastItem>>
    <3>1. Tables'
      BY <2>3, SameTables DEF Inv, Tables
    <3>2. HeldInv'
      BY <2>1, <2>3 DEF HeldInv, Fits, NewItemFits, ItemMayBecome,
                  ItemFits, WindowFits, FitsIn, Referable
    <3> QED BY <3>1, <3>2 DEF Inv, Tables
  <2> QED BY <2>1, <2>2, <2>3 DEF Submit
<1> QED BY <1>1, <1>2, <1>3, Checked

LEMMA Invariance == EnoughQueue => (Spec => []Inv)
<1> SUFFICES ASSUME EnoughQueue PROVE Spec => []Inv
  OBVIOUS
<1>1. Init => Inv
  BY InitInv
<1>2. Inv /\ [Next]_vars => Inv'
  BY NextInv
<1> QED BY <1>1, <1>2, PTL DEF Spec

(* If the handlers that move windows run one at a time, every window is in *)
(* order and every price stays within the window of its list.              *)
THEOREM PricesWithinLists ==
    EnoughQueue => (Spec => []ItemsAreWithinTheirList)
<1> SUFFICES ASSUME EnoughQueue
             PROVE  Spec => []ItemsAreWithinTheirList
  OBVIOUS
<1>1. Inv => ItemsAreWithinTheirList
  BY DEF Inv, TablesInv, WithinInv, ItemsAreWithinTheirList
<1> QED BY <1>1, Invariance, PTL

(* ... and a lookup finds two prices of a part for a day only where one of *)
(* them ends and the other begins.                                         *)
THEOREM PricesOnlyMeet ==
    EnoughQueue => (Spec => []TwoPricesOnlyWhereTheyMeet)
<1> SUFFICES ASSUME EnoughQueue
             PROVE  Spec => []TwoPricesOnlyWhereTheyMeet
  OBVIOUS
<1>1. Inv => TwoPricesOnlyWhereTheyMeet
  <2> SUFFICES ASSUME Inv, NEW i \in DOMAIN items, NEW j \in DOMAIN items,
                      i # j, NEW day \in Days,
                      {i, j} \subseteq
                         PricedOn(items[i].list, items[i].part, day)
               PROVE  \/ items[i].to = day /\ items[j].from = day
                      \/ items[j].to = day /\ items[i].from = day
    BY DEF TwoPricesOnlyWhereTheyMeet
  <2>1. /\ Alike(items[i], items[j])
        /\ items[i].from <= day /\ day <= items[i].to
        /\ items[j].from <= day /\ day <= items[j].to
    BY DEF PricedOn, Alike
  <2>2. ~Overlap(items[i], items[j])
    BY <2>1 DEF Inv, DisjointInv
  <2>3. /\ items[i].from \in Int /\ items[i].to \in Int
        /\ items[j].from \in Int /\ items[j].to \in Int
        /\ day \in Int
    BY DaysAssumption DEF Inv, TablesInv, Item
  <2> QED BY <2>1, <2>2, <2>3 DEF Overlap
<1> QED BY <1>1, Invariance, PTL

(* A commit that fits writes no price for a part that is retired.          *)
LEMMA CommittedPrices ==
    ASSUME TablesInv, NEW w, Fits(w), Commit(w), NEW i \in DOMAIN items',
           i \in DOMAIN items => items'[i].part # items[i].part
    PROVE  Referable(items'[i].part)
<1>1. CASE w.kind = "create item"
  <2>1. CommitCreateItem(w.row) /\ Referable(w.row.part)
    BY <1>1 DEF Commit, Fits, NewItemFits
  <2>2. items' # items
    OBVIOUS
  <2>3. items' = With(items, lastItem + 1, w.row)
    BY <2>1, <2>2 DEF CommitCreateItem
  <2>4. lastItem + 1 \notin DOMAIN items
    BY DEF TablesInv
  <2> QED BY <2>1, <2>3, <2>4 DEF With
<1>2. CASE w.kind = "update item"
  <2> DEFINE item == Merged(items[w.id], w.set)
  <2>1. CommitUpdateItem(w.id, w.set)
    BY <1>2 DEF Commit
  <2>2. items' # items
    OBVIOUS
  <2>3. w.id \in DOMAIN items /\ items' = With(items, w.id, item)
    BY <2>1, <2>2 DEF CommitUpdateItem
  <2>4. item.part # items[w.id].part => Referable(item.part)
    BY <1>2, <2>3 DEF Fits, ItemMayBecome
  <2> HIDE DEF item
  <2> QED BY <2>3, <2>4 DEF With
<1>3. CASE w.kind = "update list"
  BY <1>3 DEF Commit, CommitUpdateList
<1>4. CASE w.kind \notin Moves
  BY <1>4, Unmoved
<1> QED BY <1>1, <1>2, <1>3, <1>4 DEF Moves

(* If none that gives a part a price overlaps one that retires or removes  *)
(* it, either, no part that is not ACTIVE is given a price.                *)
THEOREM RetiredStayWithoutPrices ==
    EnoughQueue => (Spec => RetiredGetNoPrices)
<1> SUFFICES ASSUME EnoughQueue
             PROVE  Spec => RetiredGetNoPrices
  OBVIOUS
<1> DEFINE Kept == \A i \in DOMAIN items' :
                      (i \in DOMAIN items => items'[i].part # items[i].part)
                          => Referable(items'[i].part)
<1>1. Inv /\ [Next]_vars => [Kept]_vars
  <2> SUFFICES ASSUME Inv, Next PROVE Kept
    OBVIOUS
  <2>1. CASE GoOn
    <3>1. PICK w : w = held
      OBVIOUS
    <3>2. Fits(w) /\ Commit(w)
      BY <2>1, <3>1 DEF GoOn, Inv, HeldInv
    <3> QED BY <3>2, CommittedPrices DEF Inv
  <2>2. CASE \E w : Fits(w) /\ Submit(w)
    <3>1. PICK w : Fits(w) /\ Submit(w)
      BY <2>2
    <3>2. CASE Commit(w)
      BY <3>1, <3>2, CommittedPrices DEF Inv
    <3>3. CASE UNCHANGED items
      BY <3>3
    <3> QED BY <3>1, <3>2, <3>3 DEF Submit
  <2> QED BY <2>1, <2>2, Checked
<1> QED BY <1>1, Invariance, PTL DEF Spec, RetiredGetNoPrices
=============================================================================
