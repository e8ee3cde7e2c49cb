----------------------------- MODULE PriceCatalog -----------------------------
(***************************************************************************)
(* Price lists, the dated prices on them, and the catalog of parts         *)
(* (app/routers/price_lists.py, price_list_items.py and catalog_items.py). *)
(*                                                                         *)
(* A list and each of its items have a window of days.  The windows are    *)
(* related by checks of the handlers only: an item stays within its list,  *)
(* the items of one part do not overlap.  As in VersionEditor, a handler   *)
(* writes when it commits, and one at a time may be held up between its    *)
(* checks and its commit while others run in one step.                     *)
(* Names and texts are left out, and what else refers to a list (see       *)
(* ConfigurationLifecycle) or to a part (see EngineeringTemplate).         *)
(***************************************************************************)
EXTENDS Integers

CONSTANTS
    Conflicts,      \* pairs of kinds the environment does not let overlap
    Parts,          \* part numbers
    Prices,         \* unit prices, greater than 0 (else 400)
    Days,
    MaxLists,       \* bounds on the rows ever inserted
    MaxItems

Kinds == {"create list", "update list", "delete list",
          "create item", "update item", "delete item",
          "create part", "update part", "delete part"}

ASSUME ConflictsAssumption == \A pair \in Conflicts : pair \subseteq Kinds
ASSUME DaysAssumption == Days \subseteq Int
ASSUME BoundsAssumption == MaxLists \in Nat /\ MaxItems \in Nat

VARIABLES
    catalog,        \* the status of the parts there are
    lists,          \* price_lists: their windows, by id
    items,          \* price_list_items, by id
    lastList,       \* the latest ids
    lastItem,
    held            \* what the handler that is held up is about to write

vars == <<catalog, lists, items, lastList, lastItem, held>>

Statuses == {"ACTIVE", "OBSOLETE"}

Window == [from : Days, to : Days]

Item == [list : 1..MaxLists, part : Parts, price : Prices,
         from : Days, to : Days]

Nothing == [kind |-> "none"]

Init ==
    /\ catalog = << >>
    /\ lists = << >>
    /\ items = << >>
    /\ lastList = 0
    /\ lastItem = 0
    /\ held = Nothing

-----------------------------------------------------------------------------
(* Rows and windows                                                        *)

With(rows, id, row) ==
    [i \in DOMAIN rows \cup {id} |-> IF i = id THEN row ELSE rows[i]]

Without(rows, gone) == [i \in DOMAIN rows \ gone |-> rows[i]]

Ordered(w) == w.from < w.to

(* _validate_bounding_box                                                  *)
Within(w, box) == box.from <= w.from /\ w.to <= box.to

(* Mutant: a window around the other one is not seen.                      *)
OverlapAtAnEnd(w, x) == \/ w.from < x.to /\ x.to < w.to
                        \/ w.from < x.from /\ x.from < w.to

(* The filter of _validate_no_overlap: both comparisons are strict.        *)
Overlap(w, x) == w.from < x.to /\ w.to > x.from

(* Rows for one part on one list.                                          *)
Alike(x, y) == x.list = y.list /\ x.part = y.part

(* _validate_no_overlap, for an item that is to be row id or a new one.    *)
FitsIn(item, id) ==
    \A i \in DOMAIN items \ {id} :
        Alike(items[i], item) => ~Overlap(items[i], item)

(* validate_catalog_reference                                              *)
Referable(p) == p \in DOMAIN catalog /\ catalog[p] = "ACTIVE"

-----------------------------------------------------------------------------
(* The commits.  A row that is gone, or one that is referred to, is a 500; *)
(* so is an INSERT where the bound on ids ends.                            *)

CommitCreateList(window) ==
    /\ IF lastList < MaxLists
       THEN /\ lists' = With(lists, lastList + 1, window)
            /\ lastList' = lastList + 1
       ELSE UNCHANGED <<lists, lastList>>
    /\ UNCHANGED <<catalog, items, lastItem>>

(* The UPDATE is of the columns that changed.                              *)
Merged(row, set) == [c \in DOMAIN row |-> IF c \in DOMAIN set THEN set[c]
                                                              ELSE row[c]]

CommitUpdateList(l, set) ==
    /\ lists' = IF l \in DOMAIN lists
                THEN With(lists, l, Merged(lists[l], set)) ELSE lists
    /\ UNCHANGED <<catalog, items, lastList, lastItem>>

(* cascade="all, delete-orphan"                                            *)
CommitDeleteList(l) ==
    /\ lists' = Without(lists, {l})
    /\ items' = Without(items, {i \in DOMAIN items : items[i].list = l})
    /\ UNCHANGED <<catalog, lastList, lastItem>>

CommitCreateItem(item) ==
    /\ IF /\ lastItem < MaxItems
          /\ item.list \in DOMAIN lists
          /\ item.part \in DOMAIN catalog
       THEN /\ items' = With(items, lastItem + 1, item)
            /\ lastItem' = lastItem + 1
       ELSE UNCHANGED <<items, lastItem>>
    /\ UNCHANGED <<catalog, lists, lastList>>

CommitUpdateItem(i, set) ==
    /\ items' = IF i \in DOMAIN items /\
                   Merged(items[i], set).part \in DOMAIN catalog
                THEN With(items, i, Merged(items[i], set)) ELSE items
    /\ UNCHANGED <<catalog, lists, lastList, lastItem>>

CommitDeleteItem(i) ==
    /\ items' = Without(items, {i})
    /\ UNCHANGED <<catalog, lists, lastList, lastItem>>

CommitCreatePart(p, status) ==
    /\ catalog' = IF p \in DOMAIN catalog THEN catalog
                                          ELSE With(catalog, p, status)
    /\ UNCHANGED <<lists, items, lastList, lastItem>>

CommitUpdatePart(p, status) ==
    /\ catalog' = IF p \in DOMAIN catalog THEN With(catalog, p, status)
                                          ELSE catalog
    /\ UNCHANGED <<lists, items, lastList, lastItem>>

CommitDeletePart(p) ==
    /\ catalog' = IF \E i \in DOMAIN items : items[i].part = p
                  THEN catalog ELSE Without(catalog, {p})
    /\ UNCHANGED <<lists, items, lastList, lastItem>>

Commit(w) ==
    CASE w.kind = "create list" -> CommitCreateList(w.row)
      [] w.kind = "update list" -> CommitUpdateList(w.id, w.set)
      [] w.kind = "delete list" -> CommitDeleteList(w.id)
      [] w.kind = "create item" -> CommitCreateItem(w.row)
      [] w.kind = "update item" -> CommitUpdateItem(w.id, w.set)
      [] w.kind = "delete item" -> CommitDeleteItem(w.id)
      [] w.kind = "create part" -> CommitCreatePart(w.part, w.status)
      [] w.kind = "update part" -> CommitUpdatePart(w.part, w.status)
      [] w.kind = "delete part" -> CommitDeletePart(w.part)

-----------------------------------------------------------------------------
(* The handlers                                                            *)

Submit(w) ==
    /\ {w.kind, held.kind} \notin Conflicts
    /\ \/ Commit(w) /\ UNCHANGED held
       \/ /\ held = Nothing
          /\ held' = w
          /\ UNCHANGED <<catalog, lists, items, lastList, lastItem>>

GoOn ==
    /\ held # Nothing
    /\ Commit(held)
    /\ held' = Nothing

(* The columns in which a row differs from what it was.                    *)
Changes(old, row) ==
    [c \in {d \in DOMAIN old : row[d] # old[d]} |-> row[c]]

CreateList(window) ==
    /\ Ordered(window)                                           \* else 422
    /\ Submit([kind |-> "create list", row |-> window])

(* Mutant: the items of the list are not looked at.                        *)
NarrowList(l, window) ==
    /\ window # lists[l]
    /\ Ordered(window)
    /\ Submit([kind |-> "update list", id |-> l,
               set |-> Changes(lists[l], window)])

UpdateList(l, window) ==
    /\ window # lists[l]
    /\ Ordered(window)                                           \* else 400
    /\ \A i \in DOMAIN items :
          items[i].list = l => Within(items[i], window)          \* else 409
    /\ Submit([kind |-> "update list", id |-> l,
               set |-> Changes(lists[l], window)])

(* A list that FINALIZED configurations refer to stays (409); for any      *)
(* other one, and any moment, see ConfigurationLifecycle.                  *)
DeleteList(l) == Submit([kind |-> "delete list", id |-> l])

(* Days left out are those of the list.                                    *)
CreateItem(item) ==
    /\ item.list \in DOMAIN lists                                \* else 404
    /\ Referable(item.part)                                      \* else 409
    /\ Ordered(item)                                             \* else 400
    /\ Within(item, lists[item.list])                            \* else 400
    /\ FitsIn(item, 0)                                           \* else 409
    /\ Submit([kind |-> "create item", row |-> item])

(* Mutant: the part of an item is exchanged without a look at the catalog. *)
UpdateItemOfAny(i, item) ==
    LET old == items[i]
    IN  /\ item # old /\ item.list = old.list
        /\ Ordered(item)
        /\ [item EXCEPT !.price = old.price] # old =>
              Within(item, lists[old.list]) /\ FitsIn(item, i)
        /\ Submit([kind |-> "update item", id |-> i,
                   set |-> Changes(old, item)])

UpdateItem(i, item) ==
    LET old == items[i]
    IN  /\ item # old /\ item.list = old.list
        /\ item.part # old.part => Referable(item.part)          \* else 409
        /\ Ordered(item)                                         \* else 400
        /\ [item EXCEPT !.price = old.price] # old =>            \* else 400, 409
              Within(item, lists[old.list]) /\ FitsIn(item, i)
        /\ Submit([kind |-> "update item", id |-> i,
                   set |-> Changes(old, item)])

DeleteItem(i) == Submit([kind |-> "delete item", id |-> i])

CreatePart(p, status) ==
    /\ p \notin DOMAIN catalog                                   \* else 409
    /\ Submit([kind |-> "create part", part |-> p, status |-> status])

UpdatePart(p, status) ==
    /\ status # catalog[p]
    /\ Submit([kind |-> "update part", part |-> p, status |-> status])

(* validate_catalog_not_referenced                                         *)
DeletePart(p) ==
    /\ \A i \in DOMAIN items : items[i].part # p                 \* else 409
    /\ Submit([kind |-> "delete part", part |-> p])

Next ==
    \/ \E window \in Window :
          CreateList(window) \/ \E l \in DOMAIN lists : UpdateList(l, window)
    \/ \E l \in DOMAIN lists : DeleteList(l)
    \/ \E item \in Item :
          CreateItem(item) \/ \E i \in DOMAIN items : UpdateItem(i, item)
    \/ \E i \in DOMAIN items : DeleteItem(i)
    \/ \E p \in Parts, status \in Statuses : CreatePart(p, status)
    \/ \E p \in DOMAIN catalog :
          DeletePart(p) \/ \E status \in Statuses : UpdatePart(p, status)
    \/ GoOn

Spec == Init /\ [][Next]_vars

-----------------------------------------------------------------------------
(* Properties                                                              *)

(* The rows that _resolve_prices of the rule engine finds for a day, which *)
(* may be the first and the last one of a window.                          *)
PricedOn(l, p, day) ==
    {i \in DOMAIN items : /\ items[i].list = l
                          /\ items[i].part = p
                          /\ items[i].from <= day /\ day <= items[i].to}

(* PriceList: "all items must fall within it".                             *)
ItemsAreWithinTheirList ==
    /\ \A l \in DOMAIN lists : Ordered(lists[l])
    /\ \A i \in DOMAIN items :
          /\ Ordered(items[i])
          /\ items[i].list \in DOMAIN lists
          /\ Within(items[i], lists[items[i].list])

(* What _validate_no_overlap gives: two prices of a part are found for one  *)
(* day only where the window of the one ends and that of the other begins. *)
TwoPricesOnlyWhereTheyMeet ==
    \A i, j \in DOMAIN items :
        i # j => \A day \in Days :
            {i, j} \subseteq PricedOn(items[i].list, items[i].part, day) =>
                \/ items[i].to = day /\ items[j].from = day
                \/ items[j].to = day /\ items[i].from = day

(* What PriceListItem states, "No overlapping date ranges per              *)
(* (price_list_id, part_number)", and so what the lookup counts on, which  *)
(* keeps one row for a part: a part has no two prices on any day.  The     *)
(* windows are compared strictly when they are written, and with both ends *)
(* when they are read: the day that two of them share has two.             *)
NoTwoPricesADay ==
    \A i, j \in DOMAIN items :
        i # j => \A day \in Days :
            ~({i, j} \subseteq PricedOn(items[i].list, items[i].part, day))

(* CatalogItem, "retire a part via status=OBSOLETE": it gets no new price, *)
(* and no price becomes one of it, from then on.                           *)
RetiredGetNoPrices ==
    [][\A i \in DOMAIN items' :
          (i \in DOMAIN items => items'[i].part # items[i].part) =>
              Referable(items'[i].part)]_vars
=============================================================================
