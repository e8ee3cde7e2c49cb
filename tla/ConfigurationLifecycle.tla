----------------------- MODULE ConfigurationLifecycle -----------------------
(***************************************************************************)
(* The configurations users save against the versions of one entity, with  *)
(* their custom items and the price lists they are priced by               *)
(* (app/routers/configurations.py, configuration_custom_items.py and the   *)
(* deletion of app/routers/price_lists.py).                                *)
(*                                                                         *)
(* A handler loads the row, checks it, has the engine calculate from what  *)
(* it loaded, and writes at its commit the columns it changed: SQLAlchemy  *)
(* leaves the others out of the UPDATE, whatever they hold by then.  The   *)
(* versions follow VersionContract, which VersionLifecycle implements when *)
(* their handlers are queued; prices change, and days end, at any time.    *)
(***************************************************************************)
EXTENDS VersionContract, FiniteSets

CONSTANTS
    Requests,       \* handlers that can run at the same time
    Choices,        \* what a user can enter in the fields of a version
    None,           \* no choice, no price list, no snapshot, no row
    Lists,          \* price lists
    Keys,           \* keys of the custom items of a configuration: its bound
    Terms,          \* what a custom item says: description, quantity, price
    Markets,        \* a day and the prices of that day
    MaxConfigs,     \* bound on the configurations ever saved
    Roles,          \* who saves configurations: "USER", "AUTHOR"
    Conflicts       \* pairs of kinds that never overlap on a configuration

Kinds == {"create", "update", "upgrade", "finalize", "delete", "clone",
          "add item", "change item", "drop item", "delete list"}

(* What a version holds, as far as completeness goes: for each required    *)
(* field and each rule, the choices that fill the one and pass the other.  *)
ASSUME RowsAssumption == Rows \subseteq SUBSET (Choices \cup {None})
ASSUME MaxConfigsAssumption == MaxConfigs \in Nat
ASSUME ConflictsAssumption == \A pair \in Conflicts : pair \subseteq Kinds

VARIABLES
    configs,        \* configurations: the rows, by id
    born,           \* the id of the latest row; ids are never used again
    items,          \* configuration_custom_items, by configuration
    lists,          \* price_lists that exist
    market,         \* today, and what the price_list_items say of it
    req             \* what each handler is doing, and what it has read

tables == <<configs, born, items, lists, market>>

vars == <<contractVars, tables, req>>

Ids == 1..MaxConfigs

(* The JSON of inputs names fields, and a field belongs to one version.    *)
Data == [of : 0..MaxVersions, choice : Choices \cup {None}]

NoData == [of |-> 0, choice |-> None]

Item == [key : Keys, terms : Terms]

Result == [version : 1..MaxVersions, data : Data, list : Lists \cup {None},
           items : SUBSET Item, complete : BOOLEAN, market : Markets]

(* "priced" is the market that the cached total, and the price_date of a   *)
(* FINALIZED row, are of.                                                  *)
Row == [status : {"DRAFT", "FINALIZED"}, version : 1..MaxVersions, data : Data,
        list : Lists \cup {None}, complete : BOOLEAN,
        priced : Markets \cup {None}, snapshot : Result \cup {None},
        deleted : BOOLEAN]

Request == [kind : Kinds \cup {"none"},
            at : {"idle", "calculate", "items", "insert", "update", "delete",
                  "item", "list"},
            id : 0..MaxConfigs, arg : Keys \cup Lists \cup {None},
            old : Row \cup {None}, new : Row \cup {None}, items : SUBSET Item]

Idle == [kind |-> "none", at |-> "idle", id |-> 0, arg |-> None,
         old |-> None, new |-> None, items |-> {}]

Init ==
    /\ ContractInit
    /\ configs = << >>
    /\ born = 0
    /\ items = [id \in Ids |-> {}]
    /\ lists = Lists
    /\ market \in Markets
    /\ req = [r \in Requests |-> Idle]

-----------------------------------------------------------------------------
(* Handlers                                                                *)

(* The deletion of a price list, id 0, concerns every configuration.       *)
Overlap(i, j) == i = j \/ i = 0 \/ j = 0

MayStart(r, kind, id) ==
    /\ req[r] = Idle
    /\ \A q \in Requests :
          {kind, req[q].kind} \in Conflicts => ~Overlap(id, req[q].id)

Continue(r, reads) == req' = [req EXCEPT ![r] = reads]

End(r) == Continue(r, Idle)

(* get_configuration_or_404 for a user who may see the row.                *)
Load(r, kind, id) ==
    /\ id \in DOMAIN configs
    /\ MayStart(r, kind, id)

(* Mutant: the status is not looked at.                                    *)
LoadAny(r, kind, id) ==
    /\ Load(r, kind, id)

LoadDraft(r, kind, id) ==
    /\ Load(r, kind, id)
    /\ configs[id].status = "DRAFT"                   \* else 409

Loaded(kind, at, id, new) ==
    [Idle EXCEPT !.kind = kind, !.at = at, !.id = id,
                 !.old = configs[id], !.new = new]

VersionIds == {v.id : v \in versions}

(* validate_input_data_integrity lets through fields of the version only.  *)
Enterable(version) == {NoData} \cup [of : {version}, choice : Choices]

-----------------------------------------------------------------------------
(* The engine                                                              *)

(* Inputs for fields the version does not have are not looked at.          *)
Seen(version, data) == IF data.of = version THEN data.choice ELSE None

Completes(v, data) == \A x \in v.content : Seen(v.id, data) \in x

Calculation(v, row, lines) ==
    [version |-> v.id, data |-> row.data, list |-> row.list, items |-> lines,
     complete |-> Completes(v, row.data), market |-> market]

(* The cached columns, and the snapshot when the row is being FINALIZED.   *)
WithResult(row, result) ==
    [row EXCEPT !.complete = result.complete,
                !.priced = result.market,
                !.snapshot = IF row.status = "FINALIZED" THEN result ELSE @]

(* What the cache of VersionCache may answer with: what was moved into the *)
(* version since it was published may be missing.                          *)
Cached(v) == {[v EXCEPT !.content = @ \ missed] : missed \in SUBSET v.arrived}

(* calculate_configuration_state on the row as the handler holds it.  The  *)
(* version, the price list and its prices are read now; a row that is gone, *)
(* or a price list that is not valid today, is a 400.                      *)
Calculate(r) ==
    LET q     == req[r]
        lines == IF q.kind = "create" THEN {} ELSE items[q.id]
    IN  /\ q.at = "calculate"
        /\ \/ End(r)
           \/ /\ q.new.list \in lists \cup {None}
              /\ \E v \in versions : \E seen \in Cached(v) :
                    /\ v.id = q.new.version
                    /\ Continue(r, [q EXCEPT
                         !.at = IF q.kind = "create" THEN "insert" ELSE "update",
                         !.new = WithResult(@, Calculation(seen, @, lines))])
        /\ UNCHANGED <<contractVars, tables>>

-----------------------------------------------------------------------------
(* create_configuration, clone_configuration                               *)

BeginCreate(r, role, v, data, list) ==
    /\ MayStart(r, "create", 0)
    /\ role = "USER" => v.status = "PUBLISHED"        \* else 400
    /\ Continue(r, [Idle EXCEPT !.kind = "create", !.at = "calculate",
          !.new = [status |-> "DRAFT", version |-> v.id, data |-> data,
                   list |-> list, complete |-> FALSE, priced |-> None,
                   snapshot |-> None, deleted |-> FALSE]])
    /\ UNCHANGED <<contractVars, tables>>

(* The copy keeps the cached columns; it is not calculated again.          *)
BeginClone(r, id) ==
    /\ Load(r, "clone", id)
    /\ Continue(r, Loaded("clone", "items", id,
          [configs[id] EXCEPT !.status = "DRAFT", !.snapshot = None,
                              !.deleted = FALSE]))
    /\ UNCHANGED <<contractVars, tables>>

(* The custom items of the source, copied under fresh keys.                *)
ReadItems(r) ==
    /\ req[r].at = "items"
    /\ Continue(r, [req[r] EXCEPT !.at = "insert", !.items = items[req[r].id]])
    /\ UNCHANGED <<contractVars, tables>>

(* The foreign keys of a row.                                              *)
RefersToRows(row) ==
    /\ row.version \in VersionIds
    /\ row.list \in lists \cup {None}

(* The INSERT; a foreign key to a row that is gone is a 500.               *)
Insert(r) ==
    /\ req[r].at = "insert"
    /\ IF born < MaxConfigs /\ RefersToRows(req[r].new)
       THEN /\ born' = born + 1
            /\ configs' = [id \in DOMAIN configs \cup {born'} |->
                  IF id = born' THEN req[r].new ELSE configs[id]]
            /\ items' = [items EXCEPT ![born'] = req[r].items]
       ELSE UNCHANGED <<configs, born, items>>
    /\ End(r)
    /\ UNCHANGED <<contractVars, lists, market>>

-----------------------------------------------------------------------------
(* update_configuration, upgrade_configuration, finalize_configuration     *)

BeginUpdate(r, id, data, list) ==
    /\ LoadDraft(r, "update", id)
    /\ Continue(r, Loaded("update", "calculate", id,
          [configs[id] EXCEPT !.data = data, !.list = list]))
    /\ UNCHANGED <<contractVars, tables>>

(* Mutant: the cached completeness is taken over.                          *)
UpgradeAsCached(r, id, latest) ==
    /\ LoadDraft(r, "upgrade", id)
    /\ latest \in Having("PUBLISHED")
    /\ latest.id # configs[id].version
    /\ Continue(r, Loaded("upgrade", "update", id,
          [configs[id] EXCEPT !.version = latest.id]))
    /\ UNCHANGED <<contractVars, tables>>

(* The inputs stay as they are.                                            *)
BeginUpgrade(r, id, latest) ==
    /\ LoadDraft(r, "upgrade", id)
    /\ latest \in Having("PUBLISHED")                 \* else 404
    /\ latest.id # configs[id].version                \* else nothing to do
    /\ Continue(r, Loaded("upgrade", "calculate", id,
          [configs[id] EXCEPT !.version = latest.id]))
    /\ UNCHANGED <<contractVars, tables>>

(* Mutant: completeness is not required.                                   *)
FinalizeAny(r, id) ==
    /\ LoadDraft(r, "finalize", id)
    /\ Continue(r, Loaded("finalize", "calculate", id,
          [configs[id] EXCEPT !.status = "FINALIZED"]))
    /\ UNCHANGED <<contractVars, tables>>

(* Completeness is checked as it was cached, and calculated again after.   *)
BeginFinalize(r, id) ==
    /\ LoadDraft(r, "finalize", id)
    /\ configs[id].complete                           \* else 400
    /\ Continue(r, Loaded("finalize", "calculate", id,
          [configs[id] EXCEPT !.status = "FINALIZED"]))
    /\ UNCHANGED <<contractVars, tables>>

(* The columns of the UPDATE are those the handler changed.                *)
Merge(row, old, new) ==
    [status   |-> IF new.status = old.status THEN row.status ELSE new.status,
     version  |-> IF new.version = old.version THEN row.version ELSE new.version,
     data     |-> IF new.data = old.data THEN row.data ELSE new.data,
     list     |-> IF new.list = old.list THEN row.list ELSE new.list,
     complete |-> IF new.complete = old.complete
                  THEN row.complete ELSE new.complete,
     priced   |-> IF new.priced = old.priced THEN row.priced ELSE new.priced,
     snapshot |-> IF new.snapshot = old.snapshot
                  THEN row.snapshot ELSE new.snapshot,
     deleted  |-> IF new.deleted = old.deleted THEN row.deleted ELSE new.deleted]

(* UPDATE by primary key: no row, or a reference to no row, is a 500.      *)
Update(r) ==
    LET q      == req[r]
        merged == Merge(configs[q.id], q.old, q.new)
    IN  /\ q.at = "update"
        /\ configs' = IF q.id \in DOMAIN configs /\ RefersToRows(merged)
                      THEN [configs EXCEPT ![q.id] = merged]
                      ELSE configs
        /\ End(r)
        /\ UNCHANGED <<contractVars, born, items, lists, market>>

-----------------------------------------------------------------------------
(* delete_configuration                                                    *)

(* Mutant: every row is deleted.                                           *)
DeleteForGood(r, id) ==
    /\ Load(r, "delete", id)
    /\ Continue(r, Loaded("delete", "delete", id, None))
    /\ UNCHANGED <<contractVars, tables>>

(* A FINALIZED row is flagged, by an ADMIN; a DRAFT is deleted.            *)
BeginDelete(r, id) ==
    /\ Load(r, "delete", id)
    /\ Continue(r, IF configs[id].status = "FINALIZED"
                   THEN Loaded("delete", "update", id,
                               [configs[id] EXCEPT !.deleted = TRUE])
                   ELSE Loaded("delete", "delete", id, None))
    /\ UNCHANGED <<contractVars, tables>>

(* Mutant: the custom items stay.                                          *)
RemoveAlone(gone) ==
    /\ configs' = [id \in DOMAIN configs \ gone |-> configs[id]]
    /\ UNCHANGED items

(* Rows go with their custom items.                                        *)
Remove(gone) ==
    /\ configs' = [id \in DOMAIN configs \ gone |-> configs[id]]
    /\ items' = [id \in Ids |-> IF id \in gone THEN {} ELSE items[id]]

Delete(r) ==
    /\ req[r].at = "delete"
    /\ Remove({req[r].id})
    /\ End(r)
    /\ UNCHANGED <<contractVars, born, lists, market>>

-----------------------------------------------------------------------------
(* create_custom_item, update_custom_item, delete_custom_item              *)

KeysOf(id) == {item.key : item \in items[id]}

BeginAddItem(r, id) ==
    /\ LoadDraft(r, "add item", id)
    /\ Continue(r, Loaded("add item", "item", id, None))
    /\ UNCHANGED <<contractVars, tables>>

BeginWriteItem(r, kind, id, key) ==
    /\ LoadDraft(r, kind, id)
    /\ key \in KeysOf(id)                             \* else 404
    /\ Continue(r, [Loaded(kind, "item", id, None) EXCEPT !.arg = key])
    /\ UNCHANGED <<contractVars, tables>>

Others(id, key) == {item \in items[id] : item.key # key}

AddItem(r, id) ==
    \E item \in Item :
        /\ item.key \notin KeysOf(id)
        /\ items' = [items EXCEPT ![id] = @ \cup {item}]

ChangeItem(r, id, key) ==
    \E terms \in Terms :
        items' = [items EXCEPT ![id] =
                     Others(id, key) \cup {[key |-> key, terms |-> terms]}]

DropItem(r, id, key) == items' = [items EXCEPT ![id] = Others(id, key)]

(* Nothing happens to an item or a configuration that is gone meanwhile,   *)
(* nor beyond the bound on items.                                          *)
WriteItem(r) ==
    LET q == req[r]
    IN  /\ q.at = "item"
        /\ \/ q.kind = "add item" /\ q.id \in DOMAIN configs /\ AddItem(r, q.id)
           \/ q.kind = "change item" /\ q.arg \in KeysOf(q.id)
                                     /\ ChangeItem(r, q.id, q.arg)
           \/ q.kind = "drop item" /\ DropItem(r, q.id, q.arg)
           \/ /\ q.kind # "drop item"
              /\ \/ q.id \notin DOMAIN configs
                 \/ q.kind = "add item" /\ KeysOf(q.id) = Keys
                 \/ q.kind = "change item" /\ q.arg \notin KeysOf(q.id)
              /\ UNCHANGED items
        /\ End(r)
        /\ UNCHANGED <<contractVars, configs, born, lists, market>>

-----------------------------------------------------------------------------
(* delete_price_list                                                       *)

(* Mutant: references are not counted.                                     *)
DeleteAnyList(r, list) ==
    /\ MayStart(r, "delete list", 0)
    /\ Continue(r, [Idle EXCEPT !.kind = "delete list", !.at = "list",
                                !.arg = list])
    /\ UNCHANGED <<contractVars, tables>>

BeginDeleteList(r, list) ==
    /\ MayStart(r, "delete list", 0)
    /\ \A id \in DOMAIN configs :                     \* else 409
          configs[id].status = "FINALIZED" => configs[id].list # list
    /\ Continue(r, [Idle EXCEPT !.kind = "delete list", !.at = "list",
                                !.arg = list])
    /\ UNCHANGED <<contractVars, tables>>

(* The foreign key is ON DELETE SET NULL.                                  *)
DeleteList(r) ==
    LET gone == req[r].arg
    IN  /\ req[r].at = "list"
        /\ lists' = lists \ {gone}
        /\ configs' = [id \in DOMAIN configs |->
              [configs[id] EXCEPT !.list = IF @ = gone THEN None ELSE @]]
        /\ End(r)
        /\ UNCHANGED <<contractVars, born, items, market>>

-----------------------------------------------------------------------------
(* The versions and the prices                                             *)

ChangeVersion ==
    /\ \/ \E n \in 1..MaxVersions, c \in Contents : NewDraft(n, c)
       \/ \E v \in versions :
             \/ Publish(v)
             \/ \E c \in Contents : Edit(v, c)
             \/ \E x \in Rows :
                   \/ \E target \in versions : Move(v, x, target)
                   \/ Receive(v, x)
    /\ UNCHANGED <<tables, req>>

(* Price list items are edited whoever refers to their list, and a day     *)
(* ends.                                                                   *)
ChangePrices ==
    /\ market' \in Markets
    /\ UNCHANGED <<contractVars, configs, born, items, lists, req>>

(* The ORM deletes the configurations of a version with it.                *)
DeleteVersion(v) ==
    /\ Discard(v)
    /\ Remove({id \in DOMAIN configs : configs[id].version = v.id})
    /\ UNCHANGED <<born, lists, market, req>>

-----------------------------------------------------------------------------
Begin(r, id) ==
    \/ BeginClone(r, id)
    \/ \E data \in Enterable(configs[id].version) \cup {configs[id].data},
          list \in lists \cup {None} : BeginUpdate(r, id, data, list)
    \/ \E v \in versions : BeginUpgrade(r, id, v)
    \/ BeginFinalize(r, id)
    \/ BeginDelete(r, id)
    \/ BeginAddItem(r, id)
    \/ \E key \in Keys :
          \/ BeginWriteItem(r, "change item", id, key)
          \/ BeginWriteItem(r, "drop item", id, key)

Step(r) ==
    \/ Calculate(r)
    \/ ReadItems(r)
    \/ Insert(r)
    \/ Update(r)
    \/ Delete(r)
    \/ WriteItem(r)
    \/ DeleteList(r)

Next ==
    \/ \E r \in Requests :
          \/ \E role \in Roles, v \in versions, list \in lists :
                \E data \in Enterable(v.id) : BeginCreate(r, role, v, data, list)
          \/ \E id \in DOMAIN configs : Begin(r, id)
          \/ \E list \in lists : BeginDeleteList(r, list)
          \/ Step(r)
    \/ ChangeVersion
    \/ \E v \in versions : DeleteVersion(v)
    \/ ChangePrices

Spec == Init /\ [][Next]_vars

-----------------------------------------------------------------------------
(* Properties                                                              *)

(* Rows hold what their columns may hold, references lead to rows, and     *)
(* only a configuration that exists has custom items.                      *)
TypeOK ==
    /\ versions \subseteq Version
    /\ born \in 0..MaxConfigs
    /\ DOMAIN configs \subseteq 1..born
    /\ \A id \in DOMAIN configs : configs[id] \in Row /\ RefersToRows(configs[id])
    /\ items \in [Ids -> SUBSET Item]
    /\ \A id \in Ids \ DOMAIN configs : items[id] = {}
    /\ lists \subseteq Lists
    /\ market \in Markets
    /\ req \in [Requests -> Request]

Finalized == {id \in DOMAIN configs : configs[id].status = "FINALIZED"}

(* finalize_configuration: "Once finalized, the configuration is immutable *)
(* (snapshot frozen, prices locked)".  The flag of the soft deletion is    *)
(* the one thing that may still be written, and only be set, whatever      *)
(* becomes of the prices, the version and the price list.                  *)
FinalizedIsFrozen ==
    [][\A id \in Finalized \cap DOMAIN configs' :
          /\ configs'[id] \in {configs[id], [configs[id] EXCEPT !.deleted = TRUE]}
          /\ items'[id] = items[id]]_vars

(* Configuration: FINALIZED rows "can only be soft-deleted".               *)
FinalizedIsKept == [][Finalized \subseteq DOMAIN configs']_vars

(* The result frozen with a configuration is the result of the inputs, the *)
(* version, the price list, the custom items and the prices its row still  *)
(* shows.                                                                  *)
SnapshotIsOfTheRow ==
    \A id \in Finalized :
        LET row == configs[id]
        IN  row.snapshot = [version |-> row.version, data |-> row.data,
                            list |-> row.list, items |-> items[id],
                            complete |-> row.complete, market |-> row.priced]

(* finalize_configuration: "Requires is_complete=True".  What it tests is  *)
(* cached, and what it stores is calculated then: on a DRAFT version the   *)
(* two may differ (MCFinalizedIncomplete.cfg).                             *)
FinalizedIsComplete == \A id \in Finalized : configs[id].complete

(* No field was moved into the version after its publication.              *)
Untouched(v) == v.arrived = {}

(* The same, of configurations whose version nothing was moved into.       *)
FinalizedIsCompleteUntouched ==
    \A id \in Finalized, v \in versions :
        configs[id].version = v.id /\ Untouched(v) => configs[id].complete

(* The cached is_complete of a configuration is what the engine says of    *)
(* its inputs, once nobody edits its version any more, but for versions    *)
(* that fields are moved into.                                             *)
CompleteIsTrue ==
    \A id \in DOMAIN configs, v \in versions :
        configs[id].version = v.id /\ v.status # "DRAFT" /\ Untouched(v) =>
            configs[id].complete = Completes(v, configs[id].data)
=============================================================================
