--------------------------- MODULE BomEvaluation ---------------------------
(***************************************************************************)
(* The rest of a calculation (RuleEngineService.calculate_state): when the *)
(* fields are decided, the prices are looked up and the bill of materials  *)
(* is evaluated on the values of the response: inclusion and quantities,   *)
(* pruning, merging of siblings with the same part, the list of materials  *)
(* with cascaded quantities, prices, warnings and custom lines.            *)
(*                                                                         *)
(* The lines of a response are sets here: their order, which is that of    *)
(* `sequence`, and what the catalog adds to a part are left out.           *)
(***************************************************************************)
EXTENDS RuleWaterfall, Integers, FiniteSetsExt

CONSTANTS
    Ids,            \* ids of BOM items
    Parts,          \* part numbers
    Amount,         \* the number that a text or a number is, or None
    Loads           \* what versions, price lists and configurations hold

BomTypes == {"technical", "commercial"}

(* A rule of an item is its criteria; parent 0 is no parent, and a field   *)
(* that is not of the version (0) no field.                                *)
BomItem == [part : Parts, type : BomTypes, parent : Ids \cup {0},
            sequence : Nat, quantity : Nat \ {0}, from : Nat,
            rules : SUBSET [criteria : SUBSET Criterion]]

(* What _load_version_data found under each id.                            *)
Items == [Ids -> BomItem \cup {None}]

PriceListItem == [part : Parts, from : Nat, to : Nat, price : Nat \ {0}]

PriceList == [from : Nat, to : Nat, rows : SUBSET PriceListItem]

(* list is None when there is no such price list.                          *)
Pricing == [list : PriceList \cup {None}, date : Nat]

CustomItem == [key : Nat, quantity : Nat \ {0}, price : Nat]

Load == [version : Versions, items : Items, pricing : Pricing \cup {None},
         customs : {c \in SUBSET CustomItem : IsFiniteSet(c)}]

ASSUME BomAssumption ==
    /\ Ids \subseteq Nat \ {0}
    /\ IsFiniteSet(Ids)
    /\ Amount \in [Data -> Int \cup {None}]
    /\ None \notin Int
    /\ None \notin Pricing
    /\ None \notin BomItem
    /\ None \notin PriceList

ASSUME LoadsAssumption == Loads \subseteq Load

VARIABLES
    load,           \* what the calculation is about
    stage,          \* how far it is
    price,          \* price_map; 0 for a part that is not in it
    included,       \* included_set, before it is reduced to the leaders
    quantity,       \* resolved_quantities, before they are added up
    leader,         \* the item into whose line an item went, or 0
    weight,         \* the contribution of a line to technical_flat, or 0
    bom             \* the BOMOutput

bomVars == <<load, stage, price, included, quantity, leader, weight, bom>>

Stages == {"fields", "prices", "tree", "done", "failed"}

NoBom == [given |-> FALSE]

Zero(S) == [x \in S |-> 0]

-----------------------------------------------------------------------------
(* Prices                                                                  *)

ListApplies ==
    /\ load.pricing.list # None
    /\ load.pricing.date \in load.pricing.list.from .. load.pricing.list.to

Priced == load.pricing # None

(* Mutant: the last day of a price is taken for the day after.             *)
PricesBeforeLastDay(p) ==
    {row.price : row \in
        {r \in load.pricing.list.rows :
            r.part = p /\ r.from <= load.pricing.date
                       /\ load.pricing.date < r.to}}

(* The prices of a part on the date, both days of a window included.       *)
PricesOf(p) ==
    {row.price : row \in
        {r \in load.pricing.list.rows :
            r.part = p /\ load.pricing.date \in r.from .. r.to}}

Known(p) == \E row \in load.pricing.list.rows : row.part = p

(* Of several prices of a part any one ends up in the map, which is of     *)
(* commercial parts in the code: nothing else looks at it.                 *)
IsPriceMap(f) ==
    IF Priced
    THEN \A p \in Parts : IF PricesOf(p) = {} THEN f[p] = 0
                                              ELSE f[p] \in PricesOf(p)
    ELSE f = Zero(Parts)

Candidates ==
    {0} \cup IF Priced THEN UNION {PricesOf(p) : p \in Parts} ELSE {}

ResolvePrices ==
    /\ answer.given
    /\ stage = "fields"
    /\ Priced => ListApplies
    /\ \E f \in [Parts -> Candidates] : IsPriceMap(f) /\ price' = f
    /\ stage' = "prices"
    /\ UNCHANGED <<waterfallVars, load, included, quantity, leader, weight,
                   bom>>

(* A price list that is gone or does not cover the date ends it.           *)
RefusePrices ==
    /\ answer.given
    /\ stage = "fields"
    /\ Priced /\ ~ListApplies
    /\ stage' = "failed"
    /\ UNCHANGED <<waterfallVars, load, price, included, quantity, leader,
                   weight, bom>>

-----------------------------------------------------------------------------
(* Inclusion and quantities                                                *)

Rows == {i \in Ids : load.items[i] # None}

Item(i) == load.items[i]

Wanted(i) == Item(i).rules = {} \/ AnyPasses(Item(i).rules, context)

(* Of a field: a number that may exclude the item, or None.                *)
Counted(f) ==
    IF f \notin Fields \/ context[f] = None THEN None ELSE Amount[context[f]]

(* The quantity of the item itself when its field is hidden, empty or not  *)
(* a number.                                                               *)
QuantityOf(i) ==
    IF Counted(Item(i).from) = None THEN Item(i).quantity
                                    ELSE Counted(Item(i).from)

Select ==
    /\ stage = "prices"
    /\ included' = {i \in Rows : Wanted(i) /\ QuantityOf(i) > 0}
    /\ quantity' = [i \in Ids |-> IF i \in included' THEN QuantityOf(i) ELSE 0]
    /\ stage' = "tree"
    /\ UNCHANGED <<waterfallVars, load, price, leader, weight, bom>>

-----------------------------------------------------------------------------
(* The tree                                                                *)

Parent(i) == Item(i).parent

IsRoot(i) == Parent(i) = 0

(* Mutant: one pass over the items in their order is thought to do.        *)
OrphanOnEntry(i) ==
    /\ i \in included
    /\ ~IsRoot(i)
    /\ ~(Parent(i) \in Rows /\ Wanted(Parent(i)) /\ QuantityOf(Parent(i)) > 0)

Orphan(i) == i \in included /\ ~IsRoot(i) /\ Parent(i) \notin included

Prune(i) ==
    /\ stage = "tree"
    /\ Orphan(i)
    /\ included' = included \ {i}
    /\ UNCHANGED <<waterfallVars, load, stage, price, quantity, leader,
                   weight, bom>>

Pruned == \A i \in included : ~Orphan(i)

(* Items that the walk has come to: their parent has its line.             *)
Reached(i) ==
    /\ i \in included
    /\ leader[i] = 0
    /\ ~IsRoot(i) => leader[Parent(i)] # 0

(* The line under which the line of an item goes.                          *)
Level(i) == IF IsRoot(i) THEN 0 ELSE leader[Parent(i)]

Alike(i, j) == Item(i).part = Item(j).part /\ Item(i).type = Item(j).type

(* Mutant: only children of the same item are merged.                      *)
GroupByParent(i) == {j \in included : /\ Reached(j) /\ Alike(i, j)
                                      /\ Parent(j) = Parent(i)}

(* Siblings of the same part and type, the children of merged items being  *)
(* siblings too.                                                           *)
Group(i) ==
    {j \in included : Reached(j) /\ Alike(i, j) /\ Level(j) = Level(i)}

Merge(i) ==
    /\ stage = "tree"
    /\ Pruned
    /\ Reached(i)
    /\ \A j \in Group(i) : Item(i).sequence <= Item(j).sequence
    /\ leader' = [j \in Ids |-> IF j \in Group(i) THEN i ELSE leader[j]]
    /\ UNCHANGED <<waterfallVars, load, stage, price, included, quantity,
                   weight, bom>>

Merged == Pruned /\ \A i \in included : ~Reached(i)

Lines == {i \in included : leader[i] = i}

LineQuantity(r) ==
    MapThenSumSet(LAMBDA i : quantity[i], {i \in included : leader[i] = r})

(* Technical lines in the nested tree whose parent has been weighed; those *)
(* under a commercial line are not in that tree.                           *)
Weighable(r) ==
    /\ r \in Lines
    /\ Item(r).type = "technical"
    /\ weight[r] = 0
    /\ ~IsRoot(r) => weight[Level(r)] > 0

(* Mutant: only the parent is multiplied in.                               *)
WeighByParent(r) ==
    /\ stage = "tree"
    /\ Merged
    /\ Weighable(r)
    /\ weight' = [weight EXCEPT ![r] =
            LineQuantity(r) * IF IsRoot(r) THEN 1 ELSE LineQuantity(Level(r))]
    /\ UNCHANGED <<waterfallVars, load, stage, price, included, quantity,
                   leader, bom>>

Weigh(r) ==
    /\ stage = "tree"
    /\ Merged
    /\ Weighable(r)
    /\ weight' = [weight EXCEPT ![r] =
            LineQuantity(r) * IF IsRoot(r) THEN 1 ELSE weight[Level(r)]]
    /\ UNCHANGED <<waterfallVars, load, stage, price, included, quantity,
                   leader, bom>>

-----------------------------------------------------------------------------
(* The output                                                              *)

Flat(p) ==
    MapThenSumSet(LAMBDA r : weight[r], {r \in Lines : Item(r).part = p})

Sales == {r \in Lines : Item(r).type = "commercial"}

SalesWithPrice == {r \in Sales : price[Item(r).part] > 0}

LineTotal(r) == LineQuantity(r) * price[Item(r).part]

CustomTotal == MapThenSumSet(LAMBDA c : c.quantity * c.price, load.customs)

CommercialTotal ==
    IF SalesWithPrice = {} /\ load.customs = {} THEN None
    ELSE MapThenSumSet(LineTotal, SalesWithPrice) + CustomTotal

Warnings ==
    IF Priced
    THEN {[part |-> Item(r).part, known |-> Known(Item(r).part)] :
                r \in Sales \ SalesWithPrice}
    ELSE {}

(* No items and no custom lines, no BOM.                                   *)
Deliver ==
    /\ stage = "tree"
    /\ Merged
    /\ \A r \in Ids : ~Weighable(r)
    /\ bom' = IF Rows = {} /\ load.customs = {} THEN NoBom
              ELSE [given |-> TRUE, flat |-> [p \in Parts |-> Flat(p)],
                    total |-> CommercialTotal, warnings |-> Warnings]
    /\ stage' = "done"
    /\ UNCHANGED <<waterfallVars, load, price, included, quantity, leader,
                   weight>>

-----------------------------------------------------------------------------

NothingYet ==
    /\ stage' = "fields"
    /\ price' = Zero(Parts)
    /\ included' = {}
    /\ quantity' = Zero(Ids)
    /\ leader' = Zero(Ids)
    /\ weight' = Zero(Ids)
    /\ bom' = NoBom
    /\ UNCHANGED load

BomInit ==
    /\ load \in Loads
    /\ version = load.version
    /\ FirstRequest
    /\ stage = "fields"
    /\ price = Zero(Parts)
    /\ included = {}
    /\ quantity = Zero(Ids)
    /\ leader = Zero(Ids)
    /\ weight = Zero(Ids)
    /\ bom = NoBom

DecideFields ==
    /\ \/ \E i \in Fields : Hide(i) \/ Calculate(i) \/ Enter(i)
       \/ Finish
    /\ UNCHANGED bomVars

EvaluateBom ==
    \/ ResolvePrices
    \/ RefusePrices
    \/ Select
    \/ \E i \in Ids : Prune(i) \/ Merge(i) \/ Weigh(i)
    \/ Deliver

(* A client that got a response sends it back; one that got an error tries *)
(* something else.                                                         *)
SendBack == stage = "done" /\ Resubmit /\ NothingYet

StartOver == stage = "failed" /\ StartAnew /\ NothingYet

BomNext == DecideFields \/ EvaluateBom \/ SendBack \/ StartOver

BomSpec == BomInit /\ [][BomNext]_<<waterfallVars, bomVars>>

-----------------------------------------------------------------------------
(* Properties                                                              *)

Delivered == stage = "done"

(* No item is its own ancestor: what the checks of the routers keep up     *)
(* while no two of them change parents at the same time.                   *)
AcyclicItems ==
    \A S \in SUBSET Rows : S # {} => \E i \in S : Parent(i) \notin S

(* Items that a reader of the response finds wanted and counted.           *)
Selected ==
    {i \in Rows :
        /\ Item(i).rules = {} \/ AnyPasses(Item(i).rules, Final)
        /\ LET f == Item(i).from
           IN  (f \in Fields /\ Final[f] # None /\ Amount[Final[f]] # None)
                    => Amount[Final[f]] > 0}

(* What is left after pruning is the largest set of selected items that    *)
(* holds the parent of each of its items: no item survives an ancestor     *)
(* that is out, at whatever depth, and none goes for another reason.       *)
KeptWithAncestors ==
    Delivered =>
        included = UNION {S \in SUBSET Selected :
                            \A i \in S : IsRoot(i) \/ Parent(i) \in S}

(* Merging loses and repeats nothing: every item that is left is in one    *)
(* line, led by a first one of its kind, and two items are in one line     *)
(* exactly when they are alike and so are, level by level, their parents   *)
(* (docs/ADR_ENGINEERING_BOM.md:102).                                      *)
LinesArePartPaths ==
    Delivered /\ AcyclicItems =>
        \A i \in included :
            /\ leader[i] \in Lines
            /\ Item(leader[i]).sequence <= Item(i).sequence
            /\ \A j \in included :
                leader[i] = leader[j] <=>
                    /\ Alike(i, j)
                    /\ IsRoot(i) <=> IsRoot(j)
                    /\ ~IsRoot(i) => leader[Parent(i)] = leader[Parent(j)]

(* The item and its ancestors.                                             *)
Above(i) ==
    {j \in Rows : \A S \in SUBSET Rows :
        i \in S /\ (\A k \in S : IsRoot(k) \/ Parent(k) \in S) => j \in S}

(* A quantity is per unit of the parent (docs/ADR_BOM.md:86): one product  *)
(* takes, of an item, the product of the quantities up to its root.        *)
Consumption(p) ==
    MapThenSumSet(
        LAMBDA i : MapThenFoldSet(LAMBDA x, y : x * y, 1,
                                  LAMBDA j : quantity[j],
                                  LAMBDA S : CHOOSE j \in S : TRUE, Above(i)),
        {i \in included : /\ Item(i).part = p
                          /\ \A j \in Above(i) : Item(j).type = "technical"})

(* Some items with children were merged.                                   *)
AssembliesMerged ==
    \E i, j, k \in included :
        /\ i # j /\ leader[i] = leader[j]
        /\ Parent(k) = i

(* Where only leaves are merged, technical_flat is what one product takes  *)
(* of every part.                                                          *)
FlatIsExact ==
    bom.given /\ AcyclicItems /\ ~AssembliesMerged =>
        \A p \in Parts : bom.flat[p] = Consumption(p)

(* "technical_flat answers the procurement question ("what materials does  *)
(* one configuration consume?")" (docs/ADR_ENGINEERING_BOM.md:184).  It    *)
(* does not where assemblies are merged: their quantities are added, the   *)
(* quantities of their children too, and the sums are multiplied           *)
(* (MCFlatConsumption.cfg).                                                *)
FlatIsConsumption ==
    bom.given /\ AcyclicItems =>
        \A p \in Parts : bom.flat[p] = Consumption(p)

Sold == {i \in included : Item(i).type = "commercial"}

(* The rows of the list that give the part of an item a price on the day.  *)
OnTheDay(i) ==
    {row \in load.pricing.list.rows :
        /\ row.part = Item(i).part
        /\ row.from <= load.pricing.date
        /\ row.to >= load.pricing.date}

(* The total adds up every commercial item with a price on the day, those  *)
(* of merged lines included, and every custom line; it is there if one of  *)
(* them is, and every other part that is sold is in one warning, which     *)
(* says whether the list has it at all.                                    *)
TotalIsOfTheItems ==
    bom.given =>
        LET priced == {i \in Sold : Priced /\ OnTheDay(i) # {}}
            amount(i) == quantity[i] * price[Item(i).part]
            custom(c) == c.quantity * c.price
        IN  /\ bom.total = None <=> priced = {} /\ load.customs = {}
            /\ bom.total # None =>
                    bom.total = MapThenSumSet(amount, priced)
                                    + MapThenSumSet(custom, load.customs)
            /\ \A i \in priced : \E row \in OnTheDay(i) :
                    price[Item(i).part] = row.price
            /\ bom.warnings =
                    {[part |-> Item(i).part,
                      known |-> \E row \in load.pricing.list.rows :
                                    row.part = Item(i).part] :
                        i \in IF Priced THEN Sold \ priced ELSE {}}

(* ADR_PRICE_LIST, on a part without a price on the day: "`is_complete =   *)
(* false` (the configuration cannot be finalized)".  Completeness is       *)
(* settled by the fields, before prices are looked up                      *)
(* (MCUnpricedComplete.cfg).                                               *)
UnpricedIsIncomplete ==
    Delivered /\ bom.given /\ bom.warnings # {} => ~answer.complete
=============================================================================
