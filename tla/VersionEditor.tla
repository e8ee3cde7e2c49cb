---------------------------- MODULE VersionEditor ----------------------------
(***************************************************************************)
(* What a version contains, and the handlers that edit it                  *)
(* (app/routers/fields.py, values.py, rules.py, bom_items.py and           *)
(* bom_item_rules.py with the checks of app/dependencies/validators.py),   *)
(* its publication, and the clone that copies it (clone_version).          *)
(*                                                                         *)
(* A handler checks in queries of its own what it is about to write, and   *)
(* writes when it commits.  One handler at a time may be held up between   *)
(* the two, while others run in one step: checks change nothing, so that   *)
(* of two handlers which overlap one can be taken to run inside the other. *)
(* The foreign keys are checked with the write; whatever else relates two  *)
(* rows is up to the handlers.                                             *)
(* Names, labels, order, descriptions and the catalog are left out.        *)
(***************************************************************************)
EXTENDS Naturals, FiniteSets

CONSTANTS
    Conflicts,      \* pairs of kinds the environment does not let overlap
    Texts,          \* the texts of values and set_value
    Tested,         \* the texts that criteria compare with
    Modifiers,      \* what a field or a value adds to the SKU, None included
    None,
    Max,            \* bound on the rows ever inserted by hand, by table
    MaxVersions     \* bound on the versions

Tables == {"fields", "values", "rules", "items", "uses"}

Kinds == {"create field", "update field", "delete field",
          "create value", "update value", "delete value",
          "create rule", "update rule", "delete rule",
          "create item", "update item", "delete item",
          "create use", "update use", "delete use", "publish"}

ASSUME ConflictsAssumption == \A pair \in Conflicts : pair \subseteq Kinds
ASSUME NoneAssumption == None \notin Nat
ASSUME MaxAssumption == Max \in [Tables -> Nat] /\ MaxVersions \in Nat

VARIABLES
    versions,       \* entity_versions of one entity: the status, by id
    db,             \* the rows, by table and id; uses are bom_item_rules
    last,           \* the id of the latest row of each table
    held,           \* what the handler that is held up is about to write
    moved           \* history: a PATCH has given a row another parent

vars == <<versions, db, last, held, moved>>

Statuses == {"DRAFT", "PUBLISHED", "ARCHIVED"}

Types == {"AVAILABILITY", "CALCULATION", "MANDATORY"}

Nothing == [kind |-> "none"]

Init ==
    /\ versions = <<"DRAFT">>
    /\ db = [t \in Tables |-> << >>]
    /\ last = [t \in Tables |-> 0]
    /\ held = Nothing
    /\ moved = FALSE

-----------------------------------------------------------------------------
(* Rows                                                                    *)

With(rows, id, row) ==
    [i \in DOMAIN rows \cup {id} |-> IF i = id THEN row ELSE rows[i]]

Without(rows, gone) == [i \in DOMAIN rows \ gone |-> rows[i]]

(* Ids of the rows of a version; values have theirs from their fields.     *)
Of(d, t, v) ==
    {i \in DOMAIN d[t] : IF t = "values"
                         THEN d.fields[d.values[i].field].version = v
                         ELSE d[t][i].version = v}

ValuesOf(d, f) == {i \in DOMAIN d.values : d.values[i].field = f}

TextsOf(d, f) == {d.values[i].text : i \in ValuesOf(d, f)}

(* CALCULATION rules on a field, and those that set it to a text.          *)
CalculationsOf(d, f) ==
    {i \in DOMAIN d.rules : /\ d.rules[i].target = f
                            /\ d.rules[i].type = "CALCULATION"}

SettersOf(d, f, text) ==
    {i \in CalculationsOf(d, f) : d.rules[i].set = text}

(* A BOM item and what is above it, as the parent links lead there.        *)
Above(d, item) ==
    LET up[n \in Nat] ==
          IF n = 0 THEN {item}
          ELSE up[n - 1] \cup
                  ({d.items[i].parent : i \in up[n - 1]} \ {None})
    IN  up[Cardinality(DOMAIN d.items)]

Below(d, item) == {i \in DOMAIN d.items : item \in Above(d, i)}

(* The foreign keys.                                                       *)
RefersToRows(d) ==
    /\ \A i \in DOMAIN d.values : d.values[i].field \in DOMAIN d.fields
    /\ \A i \in DOMAIN d.rules :
          /\ d.rules[i].target \in DOMAIN d.fields
          /\ d.rules[i].option \in DOMAIN d.values \cup {None}
    /\ \A i \in DOMAIN d.items :
          /\ d.items[i].parent \in DOMAIN d.items \cup {None}
          /\ d.items[i].quantity \in DOMAIN d.fields \cup {None}
    /\ \A i \in DOMAIN d.uses : d.uses[i].item \in DOMAIN d.items

-----------------------------------------------------------------------------
(* The commit                                                              *)

Inserted(w, id) == [db EXCEPT ![w.table] = With(@, id, w.row)]

(* The UPDATE is of the columns that changed.                              *)
Updated(w) ==
    [db EXCEPT ![w.table][w.id] =
        [c \in DOMAIN @ |-> IF c \in DOMAIN w.set THEN w.set[c] ELSE @[c]]]

(* A field goes with its values and leaves items without a quantity field; *)
(* an item goes with everything below it and its rules.                    *)
Deleted(w) ==
    CASE w.table = "fields" ->
           [db EXCEPT !.fields = Without(@, {w.id}),
                      !.values = Without(@, ValuesOf(db, w.id)),
                      !.items = [i \in DOMAIN @ |->
                          IF @[i].quantity = w.id
                          THEN [@[i] EXCEPT !.quantity = None] ELSE @[i]]]
      [] w.table = "items" /\ w.id \in DOMAIN db.items ->
           [db EXCEPT !.items = Without(@, Below(db, w.id)),
                      !.uses = Without(@, {i \in DOMAIN @ :
                                           @[i].item \in Below(db, w.id)})]
      [] OTHER -> [db EXCEPT ![w.table] = Without(@, {w.id})]

(* A row that is gone, or a reference to no row, is a 500.                 *)
Write(after) == db' = IF RefersToRows(after) THEN after ELSE db

(* Where the bound on ids ends, an INSERT fails as on a database error.    *)
CommitInsert(w) ==
    /\ IF last[w.table] < Max[w.table]
       THEN /\ last' = [last EXCEPT ![w.table] = @ + 1]
            /\ Write(Inserted(w, last'[w.table]))
       ELSE UNCHANGED <<db, last>>
    /\ UNCHANGED <<versions, moved>>

(* An UPDATE moves a field to another version, or a value to another field. *)
Moving(w) ==
    \/ w.table = "fields" /\ "version" \in DOMAIN w.set
    \/ w.table = "values" /\ "field" \in DOMAIN w.set

CommitUpdate(w) ==
    /\ Write(IF w.id \in DOMAIN db[w.table] THEN Updated(w) ELSE db)
    /\ moved' = (moved \/ Moving(w))
    /\ UNCHANGED <<versions, last>>

CommitDelete(w) ==
    /\ Write(Deleted(w))
    /\ UNCHANGED <<versions, last, moved>>

(* publish_version archives the version that was PUBLISHED.                *)
CommitPublish(v) ==
    /\ versions' = [u \in DOMAIN versions |->
          CASE u = v                     -> "PUBLISHED"
            [] versions[u] = "PUBLISHED" -> "ARCHIVED"
            [] OTHER                     -> versions[u]]
    /\ UNCHANGED <<db, last, moved>>

Commit(w) ==
    CASE w.op = "insert"  -> CommitInsert(w)
      [] w.op = "update"  -> CommitUpdate(w)
      [] w.op = "delete"  -> CommitDelete(w)
      [] w.op = "publish" -> CommitPublish(w.id)

-----------------------------------------------------------------------------
(* Handlers                                                                *)

(* What passed its checks is written at once or held up.                   *)
Submit(w) ==
    /\ {w.kind, held.kind} \notin Conflicts
    /\ \/ Commit(w) /\ UNCHANGED held
       \/ /\ held = Nothing
          /\ held' = w
          /\ UNCHANGED <<versions, db, last, moved>>

GoOn ==
    /\ held # Nothing
    /\ Commit(held)
    /\ held' = Nothing

(* Mutant: any version can be edited.                                      *)
AnyVersion(v) == v \in DOMAIN versions

(* validate_version_is_draft                                               *)
Editable(v) == v \in DOMAIN versions /\ versions[v] = "DRAFT"  \* else 409

Insert(kind, t, row) ==
    Submit([kind |-> kind, op |-> "insert", table |-> t, row |-> row])

(* Only columns that change are named: to name another one adds checks.    *)
Update(kind, t, id, row) ==
    LET old     == db[t][id]
        changed == {c \in DOMAIN old : row[c] # old[c]}
    IN  /\ changed # {}
        /\ Submit([kind |-> kind, op |-> "update", table |-> t, id |-> id,
                    set |-> [c \in changed |-> row[c]]])

Delete(kind, t, id) ==
    Submit([kind |-> kind, op |-> "delete", table |-> t, id |-> id])

-----------------------------------------------------------------------------
(* create_field, update_field, delete_field                                *)

CreateField(field) ==
    /\ Editable(field.version)
    /\ Insert("create field", "fields", field)

(* asFree: the PATCH says is_free_value = true; one that leaves the flag   *)
(* out is taken for one that clears it.  A version the PATCH names is not  *)
(* looked at: the field moves there with its values.                       *)
UpdateField(f, field, asFree) ==
    LET old == db.fields[f]
    IN  /\ Editable(old.version)
        /\ asFree => field.free
        /\ field.free /\ ~old.free => asFree
        /\ ~old.free /\ asFree => ValuesOf(db, f) = {}           \* else 409
        /\ old.free /\ ~asFree => CalculationsOf(db, f) = {}     \* else 409
        /\ Update("update field", "fields", f, field)

DeleteField(f) ==
    /\ Editable(db.fields[f].version)
    /\ ValuesOf(db, f) = {}                                      \* else 409
    /\ \A i \in DOMAIN db.rules : db.rules[i].target # f         \* else 409
    /\ \A i \in Of(db, "rules", db.fields[f].version) :
          db.rules[i].reads.field # f                            \* else 409
    /\ Delete("delete field", "fields", f)

-----------------------------------------------------------------------------
(* create_value, update_value, delete_value                                *)

(* Mutant: free fields take values.                                        *)
CreateValueAnywhere(value) ==
    /\ value.field \in DOMAIN db.fields
    /\ Editable(db.fields[value.field].version)
    /\ Insert("create value", "values", value)

CreateValue(value) ==
    /\ value.field \in DOMAIN db.fields                          \* else 404
    /\ Editable(db.fields[value.field].version)
    /\ ~db.fields[value.field].free                              \* else 400
    /\ Insert("create value", "values", value)

(* To move a value no rule is looked at.                                   *)
UpdateValue(i, value) ==
    LET old == db.values[i]
    IN  /\ Editable(db.fields[old.field].version)
        /\ value.field # old.field =>
              /\ value.field \in Of(db, "fields", db.fields[old.field].version)
              /\ ~db.fields[value.field].free                    \* else 400
        /\ value.text # old.text =>
              SettersOf(db, old.field, old.text) = {}            \* else 409
        /\ Update("update value", "values", i, value)

(* Mutant: set_value is not looked at.                                     *)
DeleteValueSet(i) ==
    /\ Editable(db.fields[db.values[i].field].version)
    /\ \A k \in DOMAIN db.rules : db.rules[k].option # i
    /\ Delete("delete value", "values", i)

(* validate_value_not_used_in_rules                                        *)
DeleteValue(i) ==
    LET value == db.values[i]
        v     == db.fields[value.field].version
    IN  /\ Editable(v)
        /\ \A k \in DOMAIN db.rules : db.rules[k].option # i     \* else 409
        /\ SettersOf(db, value.field, value.text) = {}           \* else 409
        /\ \A k \in Of(db, "rules", v) :                         \* else 409
              db.rules[k].reads # [field |-> value.field, text |-> value.text]
        /\ Delete("delete value", "values", i)

-----------------------------------------------------------------------------
(* create_rule, update_rule, delete_rule                                   *)

InField(option, f) == option \in ValuesOf(db, f)

(* A text that a CALCULATION rule may set.                                 *)
MaySet(rule, text) ==
    rule.type = "CALCULATION" /\ text # None /\ ~db.fields[rule.target].free =>
        text \in TextsOf(db, rule.target)

(* The schema ties the columns to the type; conditions are not checked.    *)
CreateRule(rule) ==
    /\ Editable(rule.version)
    /\ rule.type = "AVAILABILITY" <=> rule.option # None         \* else 422
    /\ rule.type = "CALCULATION" <=> rule.set # None             \* else 422
    /\ rule.target \in Of(db, "fields", rule.version)            \* else 400
    /\ rule.option # None => InField(rule.option, rule.target)   \* else 400
    /\ MaySet(rule, rule.set)                                    \* else 400
    /\ Insert("create rule", "rules", rule)

(* A column set to null is checked as if the PATCH left it alone.          *)
UpdateRule(i, rule) ==
    LET old    == db.rules[i]
        option == IF rule.option = None THEN old.option ELSE rule.option
        set    == IF rule.set = None THEN old.set ELSE rule.set
    IN  /\ Editable(old.version)
        /\ rule.version = old.version
        /\ rule.target # old.target =>
              rule.target \in Of(db, "fields", old.version)      \* else 400
        /\ rule.type # old.type =>                               \* else 422
              /\ rule.option \notin {None, old.option} =>
                    rule.type = "AVAILABILITY"
              /\ rule.set \notin {None, old.set} => rule.type = "CALCULATION"
        /\ <<rule.target, option>> # <<old.target, old.option>> /\ option # None =>
              InField(option, rule.target)                       \* else 400
        /\ rule.set \notin {None, old.set} =>
              rule.type = "CALCULATION"                          \* else 400
        /\ MaySet(rule, set)                                     \* else 400
        /\ Update("update rule", "rules", i, rule)

DeleteRule(i) ==
    /\ Editable(db.rules[i].version)
    /\ Delete("delete rule", "rules", i)

-----------------------------------------------------------------------------
(* _create_bom_item_simple, update_bom_item, delete_bom_item               *)

CountsBy(field, v) ==
    field # None =>
        /\ field \in Of(db, "fields", v)                         \* else 400
        /\ db.fields[field].number                               \* else 400

CreateItem(item) ==
    /\ Editable(item.version)
    /\ CountsBy(item.quantity, item.version)
    /\ item.commercial => item.parent = None                     \* else 400
    /\ item.parent # None =>
          item.parent \in Of(db, "items", item.version)          \* else 400
    /\ Insert("create item", "items", item)

(* Mutant: the walk up the parents is left out.                            *)
MayHang(i, parent, v) == parent \in Of(db, "items", v) \ {i}

(* _validate_parent_bom_item                                               *)
MayHangBelow(i, parent, v) ==
    /\ parent \in Of(db, "items", v)                             \* else 400
    /\ i \notin Above(db, parent)                                \* else 400

UpdateItem(i, item) ==
    LET old == db.items[i]
    IN  /\ Editable(old.version)
        /\ item.version = old.version
        /\ item.quantity # old.quantity => CountsBy(item.quantity, old.version)
        /\ item.commercial
              /\ <<TRUE, item.parent>> # <<old.commercial, old.parent>> =>
              item.parent = None                                 \* else 400
        /\ item.parent \notin {None, old.parent} =>
              MayHangBelow(i, item.parent, old.version)
        /\ Update("update item", "items", i, item)

DeleteItem(i) ==
    /\ Editable(db.items[i].version)
    /\ Delete("delete item", "items", i)

-----------------------------------------------------------------------------
(* create_bom_item_rule, update_bom_item_rule, delete_bom_item_rule        *)

CreateUse(use) ==
    /\ Editable(use.version)
    /\ use.item \in Of(db, "items", use.version)                 \* else 400
    /\ use.reads.field \in Of(db, "fields", use.version)         \* else 400
    /\ Insert("create use", "uses", use)

UpdateUse(i, reads) ==
    LET old == db.uses[i]
    IN  /\ Editable(old.version)
        /\ reads.field \in Of(db, "fields", old.version)         \* else 400
        /\ Update("update use", "uses", i, [old EXCEPT !.reads = reads])

DeleteUse(i) ==
    /\ Editable(db.uses[i].version)
    /\ Delete("delete use", "uses", i)

-----------------------------------------------------------------------------
(* publish_version                                                         *)

Publish(v) ==
    /\ Editable(v)
    /\ Submit([kind |-> "publish", op |-> "publish", id |-> v])

-----------------------------------------------------------------------------
(* clone_version: rows of version v are copied to a version n with the     *)
(* ids that follow the last ones.                                          *)

NewId(t, v, i) ==
    last[t] + Cardinality({j \in Of(db, t, v) : j <= i})

NewIdOrNone(t, v, i) == IF i = None THEN None ELSE NewId(t, v, i)

(* A table with the copies of the rows of v added.                         *)
Grown(t, v, Copy(_)) ==
    LET copied == Of(db, t, v)
    IN  [i \in DOMAIN db[t] \cup {NewId(t, v, j) : j \in copied} |->
            IF i \in DOMAIN db[t] THEN db[t][i]
            ELSE Copy(db[t][CHOOSE j \in copied : NewId(t, v, j) = i])]

(* _rewrite_conditions                                                     *)
Rewritten(reads, v) == [reads EXCEPT !.field = NewId("fields", v, @)]

(* The constructor calls name no SKU modifier.                             *)
CopyOfField(field, n) == [field EXCEPT !.version = n, !.modifier = None]

CopyOfValue(value, v) ==
    [value EXCEPT !.field = NewId("fields", v, @), !.modifier = None]

CopyOfRule(rule, v, n) ==
    [rule EXCEPT !.version = n, !.target = NewId("fields", v, @),
                 !.option = NewIdOrNone("values", v, @),
                 !.reads = Rewritten(@, v)]

(* Mutant: quantity_from_field_id is copied as it is.                      *)
CopyOfItemAsIs(item, v, n) ==
    [item EXCEPT !.version = n, !.parent = NewIdOrNone("items", v, @)]

CopyOfItem(item, v, n) ==
    [item EXCEPT !.version = n, !.parent = NewIdOrNone("items", v, @),
                 !.quantity = NewIdOrNone("fields", v, @)]

CopyOfUse(use, v, n) ==
    [use EXCEPT !.version = n, !.item = NewId("items", v, @),
                !.reads = Rewritten(@, v)]

(* What the maps from old to new ids have to find, else the clone is       *)
(* refused.  It is also refused when an item comes out of the query before *)
(* its parent, and neither is a root: the query has no order.              *)
Resolves(v) ==
    LET fields == Of(db, "fields", v)
    IN  /\ \A i \in Of(db, "rules", v) :
              /\ {db.rules[i].target, db.rules[i].reads.field} \subseteq fields
              /\ db.rules[i].option \in Of(db, "values", v) \cup {None}
        /\ \A i \in Of(db, "items", v) :
              /\ db.items[i].parent \in Of(db, "items", v) \cup {None}
              /\ db.items[i].quantity \in fields \cup {None}
        /\ \A i \in Of(db, "uses", v) : db.uses[i].reads.field \in fields

(* The source is not a DRAFT, so that its rows stay while they are copied: *)
(* the transaction is one step.                                            *)
Clone(v) ==
    LET n == Cardinality(DOMAIN versions) + 1
    IN  /\ n <= MaxVersions
        /\ \A u \in DOMAIN versions : versions[u] # "DRAFT"      \* else 400
        /\ Resolves(v)                                          \* else 400
        /\ versions' = With(versions, n, "DRAFT")
        /\ db' = [fields |-> Grown("fields", v, LAMBDA x : CopyOfField(x, n)),
                  values |-> Grown("values", v, LAMBDA x : CopyOfValue(x, v)),
                  rules  |-> Grown("rules", v, LAMBDA x : CopyOfRule(x, v, n)),
                  items  |-> Grown("items", v, LAMBDA x : CopyOfItem(x, v, n)),
                  uses   |-> Grown("uses", v, LAMBDA x : CopyOfUse(x, v, n))]
        /\ last' = [t \in Tables |-> last[t] + Cardinality(Of(db, t, v))]
        /\ UNCHANGED <<held, moved>>

-----------------------------------------------------------------------------
(* What a client can send: versions and rows that exist, for anything else *)
(* is refused, and in a criterion any field there has been.                *)
Criteria == [field : 1..last["fields"], text : Tested]

SomeField == [version : DOMAIN versions, free : BOOLEAN, number : BOOLEAN,
              modifier : Modifiers]

SomeValue == [field : DOMAIN db.fields, text : Texts, modifier : Modifiers]

SomeRule(v) ==
    [version : {v}, type : Types, target : Of(db, "fields", v),
     option : DOMAIN db.values \cup {None}, set : Texts \cup {None},
     reads : Criteria]

SomeItem(v) ==
    [version : {v}, commercial : BOOLEAN,
     parent : DOMAIN db.items \cup {None},
     quantity : DOMAIN db.fields \cup {None}]

SomeUse(v) == [version : {v}, item : DOMAIN db.items, reads : Criteria]

EditFields ==
    \/ \E field \in SomeField : CreateField(field)
    \/ \E f \in DOMAIN db.fields :
          \/ \E field \in SomeField, asFree \in BOOLEAN :
                UpdateField(f, field, asFree)
          \/ DeleteField(f)

EditValues ==
    \/ \E value \in SomeValue : CreateValue(value)
    \/ \E i \in DOMAIN db.values :
          \/ \E value \in SomeValue : UpdateValue(i, value)
          \/ DeleteValue(i)

EditRules ==
    \/ \E v \in DOMAIN versions : \E rule \in SomeRule(v) : CreateRule(rule)
    \/ \E i \in DOMAIN db.rules :
          \/ \E rule \in SomeRule(db.rules[i].version) : UpdateRule(i, rule)
          \/ DeleteRule(i)

EditItems ==
    \/ \E v \in DOMAIN versions : \E item \in SomeItem(v) : CreateItem(item)
    \/ \E i \in DOMAIN db.items :
          \/ \E item \in SomeItem(db.items[i].version) : UpdateItem(i, item)
          \/ DeleteItem(i)

EditUses ==
    \/ \E v \in DOMAIN versions : \E use \in SomeUse(v) : CreateUse(use)
    \/ \E i \in DOMAIN db.uses :
          \/ \E reads \in Criteria : UpdateUse(i, reads)
          \/ DeleteUse(i)

Next ==
    \/ EditFields \/ EditValues \/ EditRules \/ EditItems \/ EditUses
    \/ \E v \in DOMAIN versions : Publish(v) \/ Clone(v)
    \/ GoOn

Spec == Init /\ [][Next]_vars

-----------------------------------------------------------------------------
(* Properties                                                              *)

(* create_value, update_value, update_field: a field that takes any text   *)
(* has no values to choose from, wherever values are moved.                *)
FreeFieldsHaveNoValues ==
    \A i \in DOMAIN db.values : ~db.fields[db.values[i].field].free

(* ADR_CALCULATION_RULES: "API-layer validation prevents invalid           *)
(* `set_value` on non-free-value fields".  What create_rule makes sure of: *)
(* the target of a rule is a field of its version, its option is a value   *)
(* of that field, and so is the text it sets.  A value that a PATCH moves  *)
(* to another field breaks it (MCValueMoves.cfg).                          *)
RulesMeanSomething ==
    \A i \in DOMAIN db.rules :
        LET rule == db.rules[i]
        IN  /\ rule.target \in Of(db, "fields", rule.version)
            /\ rule.option # None => InField(rule.option, rule.target)
            /\ MaySet(rule, rule.set)

(* The same, as long as no PATCH has moved a value to another field or a   *)
(* field to another version: edits and deletions of values, fields and     *)
(* rules leave no rule without its target, its option or its text.         *)
RulesMeanSomethingUnmoved == ~moved => RulesMeanSomething

(* _validate_parent_bom_item: the items of a version are a forest of their *)
(* own, so that a walk up the parents ends and one from the roots comes to *)
(* every item.                                                             *)
BomIsForest ==
    \A i \in DOMAIN db.items :
        \E j \in Above(db, i) :
            /\ db.items[j].parent = None
            /\ Above(db, i) \subseteq Of(db, "items", db.items[i].version)

Rows(d, v) == [t \in Tables |-> [i \in Of(d, t, v) |-> d[t][i]]]

(* validate_version_is_draft: "Only DRAFT versions can be modified".       *)
PublishedStays ==
    [][\A v \in DOMAIN versions :
          versions[v] # "DRAFT" => Rows(db, v)' = Rows(db, v)]_vars

(* What a version that is no DRAFT has, it keeps as it is; but a field that *)
(* was moved away before may be deleted where it went, in a version of any *)
(* entity, and the foreign key then takes it from the items it counts.     *)
Uncounted(row) == [row EXCEPT !.quantity = None]

Keeps(v) ==
    \A t \in Tables : \A i \in Of(db, t, v) :
        /\ i \in Of(db', t, v)
        /\ \/ db'[t][i] = db[t][i]
           \/ t = "items" /\ db'[t][i] = Uncounted(db[t][i])

VersionOf(d, t, i) ==
    IF t = "values" THEN d.fields[d.values[i].field].version ELSE d[t][i].version

(* The one thing it gets is a field of a DRAFT, with its values.           *)
OnlyGetsFields(v) ==
    \A t \in Tables : \A i \in Of(db', t, v) \ Of(db, t, v) :
        /\ t \in {"fields", "values"} /\ i \in DOMAIN db[t]
        /\ versions[VersionOf(db, t, i)] = "DRAFT"

(* What is left of "Only DRAFT versions can be modified" where a PATCH may *)
(* move a field into any version: rows of a version that was published are *)
(* never changed or taken away by a handler that was under way then, and   *)
(* nothing but a field of a DRAFT comes in.                                *)
PublishedOnlyGetsFields ==
    [][\A v \in DOMAIN versions :
          versions[v] # "DRAFT" => Keeps(v) /\ OnlyGetsFields(v)]_vars

Bijections(S, T) ==
    {f \in [S -> T] : /\ \A y \in T : \E x \in S : f[x] = y
                      /\ \A x, y \in S : f[x] = f[y] => x = y}

OrNone(f, x) == IF x = None THEN None ELSE f[x]

(* Version n has the rows of version v with ids of its own.                *)
SameStructure(d, v, n) ==
    \E f \in Bijections(Of(d, "fields", v), Of(d, "fields", n)),
       g \in Bijections(Of(d, "values", v), Of(d, "values", n)),
       h \in Bijections(Of(d, "items", v), Of(d, "items", n)) :
        /\ \A i \in DOMAIN f :
              /\ d.fields[f[i]].free = d.fields[i].free
              /\ d.fields[f[i]].number = d.fields[i].number
        /\ \A i \in DOMAIN g :
              /\ d.values[g[i]].field = f[d.values[i].field]
              /\ d.values[g[i]].text = d.values[i].text
        /\ \A i \in DOMAIN h :
              /\ d.items[h[i]].commercial = d.items[i].commercial
              /\ d.items[h[i]].parent = OrNone(h, d.items[i].parent)
              /\ d.items[h[i]].quantity = OrNone(f, d.items[i].quantity)
        /\ {d.rules[i] : i \in Of(d, "rules", n)} =
              {[d.rules[i] EXCEPT !.version = n, !.target = f[@],
                   !.option = OrNone(g, @), !.reads.field = f[@]] :
                      i \in Of(d, "rules", v)}
        /\ {d.uses[i] : i \in Of(d, "uses", n)} =
              {[d.uses[i] EXCEPT !.version = n, !.item = h[@],
                   !.reads.field = f[@]] : i \in Of(d, "uses", v)}

(* clone_version: "Deep-copy a version into a new DRAFT, remapping IDs and *)
(* JSON criteria references": a structural copy of another version.        *)
CopyIsStructural ==
    [][\A n \in DOMAIN versions' \ DOMAIN versions :
          \E v \in DOMAIN versions : SameStructure(db', v, n)]_vars

(* README, "Deep cloning: Clone versions with all fields, values, rules,   *)
(* and BOM data": what adds to the SKU is copied too.                      *)
CopyAddsToTheSku ==
    [][\A n \in DOMAIN versions' \ DOMAIN versions :
          \E v \in DOMAIN versions :
              {db.fields[i].modifier : i \in Of(db, "fields", v)} =
              {db'.fields[i].modifier : i \in Of(db', "fields", n)}]_vars
=============================================================================
