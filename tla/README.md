# Verification of the Rule Engine Service

TLA+ models of the CPQ backend in `app/`: FastAPI handlers, a SQLAlchemy
session per request, PostgreSQL underneath. This directory states what the
service promises, model-checks it with TLC on small instances, and proves the
most important parts with TLAPS for every value of the constants.

## 1. The system

### How it runs

Every handler but login and refresh is a plain `def`: FastAPI runs it in a thread
pool, so handlers of one process interleave, and several processes may share the
database. (Login and refresh are `async def` with no await in their bodies, so
they interleave between processes only.) A handler
has its own session (`app/database.py`), whose transactions run at READ
COMMITTED, PostgreSQL's default: each query sees what was committed before that
query. `db_transaction` (`app/dependencies/services.py`) commits at the end of
the block and turns a `SQLAlchemyError` into a rollback and a 500; any other
exception closes the session, which rolls back too. Nothing takes a row lock.
The only lock of the database is the advisory lock of the template graph, the
only lock in memory the one of the cache. What is hard to test follows from
that: a check in one query and the write it guards in a later one, with another
handler's commit in between.

### Components

| Component | State | Operations | Talks to |
|---|---|---|---|
| Entities | `entities` | create, update, delete (blocked by versions) | versions |
| Version lifecycle | `entity_versions` | create draft, clone, publish, edit metadata, delete | cache (invalidates), content (clones, cascades), configurations (cascades) |
| Version content | `fields`, `values`, `rules`, `bom_items`, `bom_item_rules` | create, patch, delete, on DRAFT versions only | version lifecycle (status check), catalog, template (materialization) |
| Version cloning | all of the content | deep copy with remapped ids and conditions | version lifecycle |
| Version data cache | one `TTLCache` per process | get, set, invalidate, expire, evict | engine (fills), publication (invalidates) |
| Rule engine | none of its own | visibility, calculation, editability, availability, mandatory, validation per field; SKU; BOM; prices; completeness | cache, price lists, catalog, custom items |
| Configurations | `configurations` | create, read, update, delete, clone, upgrade, finalize | engine, versions, price lists, custom items |
| Custom items | `configuration_custom_items` | create, patch, delete while the configuration is DRAFT | configurations |
| Price lists | `price_lists`, `price_list_items` | CRUD with validity windows, no overlap per part | catalog, engine, configurations |
| Catalog | `catalog_items` | create, patch (OBSOLETE), delete (blocked by references) | BOM, prices, template |
| Engineering template | `engineering_template_items` | create, patch, delete rows of a DAG of parts, under an advisory lock | catalog |
| Template explosion | none | preview, materialize into BOM rows, bounded in depth and nodes | template, catalog, BOM |
| Authentication | `refresh_tokens`, `users` | login, refresh with optional rotation, revoke, clean up; user CRUD | rate limiter |
| Wiring | none of interest | settings, logging, request ids, rate limiter, schemas, migrations, seed data | all |

### What is hard, and what would be correct

- **Version lifecycle.** Check-then-write on a whole table. Correct: one DRAFT and
  one PUBLISHED version per entity, unique and ordered numbers, statuses that
  only move forward, content that never changes after publication. (A PATCH of a field can change it: section 3.)
- **Template graph.** Two edges that are harmless alone close a cycle together.
  Correct: the graph stays a DAG, reported cycles are real, the lock is always
  handed on.
- **Template explosion.** A recursion over a graph that changes under it.
  Correct: exactly the tree of the template when nothing interferes, never more
  than the limits allow.
- **Cache.** It is filled from several queries and invalidated before the commit
  that makes the entry stale. Correct: a cached version is what the table holds,
  never more than `max_size` entries.
- **Configurations.** Finalization stores a snapshot while updates, deletions,
  custom items and price lists go on. Correct: a FINALIZED configuration never
  changes, and holds a result that belongs to its inputs.
- **Version content.** References between fields, values and rules, some inside
  JSON, are kept by handlers alone. Correct: no legal sequence of edits leaves a
  dangling or misdirected reference, and nothing changes in a published version. (PATCHes that move a row break both: section 3.)
- **Cloning.** Five tables are copied through maps from old to new ids. Correct: the
  copy is what the source was, and refers to nothing outside of itself.
- **Engine.** A waterfall over the fields in order, with six kinds of decision
  per field. Correct: the output agrees with a declarative reading of the rules.
- **BOM.** Items are dropped, pruned below dropped ancestors, merged with their siblings level by
  level, multiplied up and priced. Correct: nothing lost, nothing counted twice, and
  totals that belong to the items.
- **Price lists.** Windows of validity checked against each other by queries.
  Correct: items stay within their list, on any day a part has one price, and a part
  that was retired gets no new one. (A day that two windows share has two prices: section 3.)
- **Tokens.** Verify, revoke and create in three statements. Correct: of the tokens that
  come from one login one can be used, its caller has it whatever fails, and neither a
  closed session nor an inactive user gets another.

## 2. Modules

### What is there

| Module | Models | State in the code | Actions in the code |
|---|---|---|---|
| `TemplateGraph` | what the template promises: a DAG of parts, one step per operation | `template`: rows of `engineering_template_items`; `catalog`: part numbers with a catalog row | `AddRow`, `SetSuppress`, `RemoveRow`, `AddPart`, `RemovePart` |
| `EngineeringTemplate` | the three template handlers, statement by statement, under the advisory lock | `graphLock`: `pg_advisory_xact_lock`; `pc`, `edge`, `target`, `visited`, `stack`: locals of each request | `BeginCreate` to `Insert`: `create_template_item` with `would_create_cycle` unrolled; `BeginPatch`, `BeginDelete` to `Patch`, `Delete` |
| `EngineeringTemplateProofs` | theorems about it | | |
| `TemplateExplosion` | `explode` and `materialize` while `TemplateGraph` moves | `todo`: the calls of `_recurse` to come; `nodes`: `tree` in preorder; `status`: `catalog_status_cache` | `Visit` and `Expand`: head and loop of `_recurse`; `AnswerPreview`, `Materialize`, `RefuseObsolete`: how the two handlers end |
| `TemplateExplosionProofs` | theorems about it | | |
| `VersionContract` | what versions promise: DRAFT, PUBLISHED, ARCHIVED, one step per operation | `versions`: rows of `entity_versions` of one entity, with the set of rows that hang off each as `content`, and as `arrived`, which is history, those that were moved in after publication | `NewDraft`, `Publish`, `Edit`, `Discard`; `Move` and `Receive`: a PATCH of a field that names another version |
| `VersionLifecycle` | the handlers that change versions, query by query | `req`: kind, next query and reads of each handler | `BeginCreate` to `Insert`; `BeginPublish`, `ReadCurrent`, `CommitPublish`; `BeginWrite`, `CommitEdit`, `CommitMove`, `CommitDelete`; `ReceiveField`: the commit of a handler on another entity |
| `TTLCache` | the methods of `TTLCache` as operators on its store | a sequence of entries in insertion order | `Got`, `Put`, `Invalidate`, `Aged` |
| `VersionCache` | calculations that load versions through the cache, beside `VersionLifecycle` | `cache`: `_cache._store`; `reader`: locals of `_load_version_data` | `Resolve`, `Get`, `ReadFields`, `ReadRest`, `Keep`, `Answer`; `ArchiveCurrent` |
| `VersionProofs` | theorems about `VersionLifecycle` and `VersionCache` | | |
| `ConfigurationLifecycle` | configurations, custom items, deletion of price lists, on top of `VersionContract` | `configs`, `items`, `lists`: the rows; `market`: a day and the prices of that day; `req`: what each handler read | `Begin*`, `Calculate`, `Insert`, `Update`, `Delete`, `WriteItem`, `DeleteList`, `DeleteVersion`; `ChangeVersion`, `ChangePrices`: what goes on in the other tables |
| `ConfigurationLifecycleProofs` | theorems about it | | |
| `RuleWaterfall` | the evaluation of the fields of one version, completeness and the SKU | `version`: what was loaded; `input`: `user_input_map`; `context`: `running_context`; `output`: `output_fields`; `answer`: `is_complete`, `generated_sku`; `previous`: the response before | `Hide`, `Calculate`, `Enter`: the three ways through `_process_field`; `Finish`; `Resubmit`, `StartAnew`: the next request of a client, with what it was shown or with anything |
| `BomEvaluation` | the rest of the calculation: prices, BOM, totals | `load`: what was asked and what the tables hold; `price`: `price_map`; `included`, `quantity`: `included_set`, `resolved_quantities`; `leader`: the groups of `_aggregate_bom_items`; `weight`: contributions to `technical_flat`; `bom`: the `BOMOutput` | `ResolvePrices`, `RefusePrices`, `Select`, `Prune`, `Merge`, `Weigh`, `Deliver`: the helpers of `_evaluate_bom`, with one step per item, group or line |
| `CalculationProofs` | theorems about `RuleWaterfall` and `BomEvaluation` | | |
| `VersionEditor` | the handlers that edit what a version contains, its publication and its clone | `db`: the rows of `fields`, `values`, `rules`, `bom_items`, `bom_item_rules`; `held`: what a handler that passed its checks is about to write; `moved`: history, a PATCH has given a row another parent | `CreateField` to `DeleteUse`: fifteen handlers with their validators; `Publish`; `Clone` with `CopyOf*`: `clone_version`; `GoOn`: the commit of the handler that was held up |
| `VersionEditorProofs` | theorems about it | | |
| `PriceCatalog` | price lists, their items, and the catalog as prices see it | `lists`, `items`, `catalog`: the rows; `held` as above | create, update and delete of each of the three; `GoOn` |
| `PriceCatalogProofs` | theorems about it | | |
| `TokenSessions` | what refresh tokens promise: sessions that a login opens, with one token at a time | `sessions`: the open ones with user and token | `Login`, `Rotate`, `RevokeAll`, `Expire`, `CleanUp`, `SetActive` |
| `AuthTokens` | login, refresh and the other operations on tokens, query by query, with crashes | `rows`: `refresh_tokens`; `requests`: locals of the handlers; `told`: what callers were given | `Authenticate`, `Issue`: login; `Verify`, `ReadUser`, `Rotate`: refresh; `Answer`, `Crash`; `RevokeAll`, `CleanUp`, `SetActive`, `Expire` |
| `AuthTokensProofs` | theorems about it | | |

Each `MC*` module instantiates the module it is named after.

How they compose:

- `EngineeringTemplate` implements `TemplateGraph!GraphSpec` (model-checked and
  proved), and `TemplateExplosion` uses the steps of `GraphSpec` for what other
  handlers commit while a tree is expanded.
- `VersionLifecycle` implements `VersionContract!ContractSpec` when handlers are
  queued as described below (model-checked and proved), and
  `ConfigurationLifecycle` uses the steps of `ContractSpec` for its versions.
- `VersionCache` extends `VersionLifecycle` and `TTLCache`: all steps of the
  handlers run beside the calculations, `ReadCurrent` together with the
  invalidation that follows it.
- `BomEvaluation` extends `RuleWaterfall` and goes on where its response is ready; that it decides the
  fields in the same way is the theorem `CalculationRefines`, so that one run and the theorems
  of both modules are about whole calculations.
- `AuthTokens` implements `TokenSessions!Spec` (model-checked and proved): the sessions are
  those that the table has a live token of.
- `VersionEditor` is the content that `VersionLifecycle` takes for a set of rows: its commits are
  the edits and moves there, and its clone is the content of a new draft. The versions of `VersionEditor` are
  those of one entity; a field that is moved to another entity is moved in `VersionLifecycle` (`ReceiveField`) only.
- `RuleWaterfall` itself stands alone: a version that was loaded is a constant of the calculation, and
  that it is in one piece is `AnswersAreExact` of `VersionCache`. The functions of completeness in
  `ConfigurationLifecycle` abstract what it computes.

### How code becomes actions

One action is one query, with the Python up to the next one. What a handler reads
in a query goes into its record; its checks are guards where the query is made; a
refused request ends there and is not a step unless it changes something (the
comments `\* else 409` mark these). Pending writes reach the database at the
commit, in the last action of the handler. SQLAlchemy writes by primary key and
writes the columns that changed: `ConfigurationLifecycle!Merge` is this rule. A row that is gone at
an UPDATE is a `StaleDataError`, which `db_transaction` turns into a 500.

What a version contains is a set of rows (`content`) for `VersionLifecycle` and `VersionCache`;
for `ConfigurationLifecycle` each row is the set of choices that satisfy it, a required field those that fill it, which is all that the
properties there see of the engine. What prices add to a result there is the `market` it was calculated in: two results
of one row are the same only if neither a price nor the day has changed in between. A calculation there may miss what was moved into its
version after publication (`Cached`), because an entry of the cache may. Two reads stand for the five queries of a
load, because what a torn load needs is a write between two of them.
In `RuleWaterfall` fields are numbered in the order of evaluation, rules and options are sets,
because their queries have no ORDER BY (where the code takes the first of several, the model takes
any), and a criterion is the set of values that satisfy it: whatever the operator, the expected value
and the type of the field, `_check_criterion` is a function of the value found, and fails
without one. In `BomEvaluation` an item is pruned, a group merged and a line
weighed in any order that respects the tree, because the order of the code decides nothing but the order of lines;
the properties then hold for the order the code takes. Which of several prices of one day wins
is open, as in the dictionary built from an unordered query. An SKU is the piece that each field adds to it; joining the pieces and cutting the text at
100 characters are left out.
`catalog` is the set of parts that exist, `obsolete` those whose status is OBSOLETE.

In `VersionEditor` and `PriceCatalog` a handler is its checks, and then its commit. One handler at
a time may be held up between the two while others run in one step each: checks change nothing, so of two
handlers that overlap the one that commits last can be taken to contain the other, and what three handlers
can do to one another in these modules they do by pairs. PATCHes write the columns that changed. A rule
has one criterion there, and of the Pydantic schemas only what ties columns to each other is kept.
In `AuthTokens` the number of the first token of a chain names the session; no column of the code
holds it, and no guard reads it.

Definitions with a comment that begins with "Mutant:" are not part of the
model: each is a plausible mistake in the definition that follows it, and
`PROJECT.json` says which property catches it.

### Queues: the constant `Conflicts`

No handler but those of the template locks what it reads, so promises like "one DRAFT
per entity" cannot hold for every interleaving. `Conflicts` is the set of pairs
of kinds of handlers that do not overlap each other on one entity (configuration, version, user, or
the price lists): the hypothesis under which a property is claimed, and what a
deployment would have to guarantee with a row lock or a constraint. The empty
set is the code on its own. Each `MC` module names the set its properties need `Queued`; leaving out a
pair gives a counterexample.

| Run | What queues |
|---|---|
| `versions` | creations and clones behind each other; publications behind each other and behind edits and deletions |
| `configurations` | updates and upgrades of a configuration behind each other; its finalization behind whatever touches what it freezes, another finalization included. Changes of prices and versions are not queued |
| `editor` | publication behind every edit; a change of a field behind changes and deletions of fields, whatever writes values, and what creates or changes rules; a change or deletion of a value behind what creates or changes rules; changes of rules behind each other, changes of BOM items behind each other |
| `prices` | the handlers that move windows behind each other; prices behind changes and deletions of parts |
| `tokens` | refreshes of a user behind each other and behind revocation, deactivation and expiry; logins behind deactivation. That a token does not expire between the queries of its refresh is an assumption about the clock, and no lock would give it |

Everything else overlaps in every run: a creation and a publication, edits of one draft, a finalization and a
change of the prices it freezes, a deletion of a field and a rule on it. The template graph needs no such hypothesis: its lock is in the code.

## 3. Runs

| Run | Question | Bounds |
|---|---|---|
| `template_graph` | Is the graph a DAG, are pairs unique and catalogued, are reported cycles real, is each handler one step of `GraphSpec`, is every request answered? | 3 parts, 3 rows, 2 requests, fairness |
| `template_explosion` | Exact when nothing interferes, within limits always? | 3 parts, 3 rows, depth 1 or nodes 3, one commit during the expansion |
| `versions` | The promises of the lifecycle, the refinement of the contract; does a published version keep what it has, is what is cached and answered exact but for moved fields, is the cache bounded? | 4 versions ever, 1 row that a version may hold, 3 requests, or 2 versions, 2 requests beside 2 calculations, TTL 1, size 1; with a field in a published version 3 versions and 2 requests or calculations in flight |
| `configurations` | Are snapshots those of their rows, frozen, kept; are FINALIZED rows complete, and is cached completeness true, where no field was moved into the version? | 2 versions, 1 row of a version, 1 price list, 2 markets, 1 custom item with 2 texts, users of role USER; 2 requests on 1 configuration, 1 request on 2, or on 1 whose version a field is moved into |
| `editor` | Do free fields stay without values, do rules keep their target, option and text until a row is moved, are BOM items a forest, does a published version keep its rows as they are and get nothing but moved fields, is a clone a copy? | 2 versions, 2 fields, 2 values, 1 rule, or 1 field, 3 items and a rule of an item; 2 texts |
| `prices` | Are items within their list, has a part two prices only on a day on which one window ends and the other begins, do retired parts get none? | 2 lists, 3 items, 2 parts, 4 days; beside a second list, 2 items and 3 days |
| `tokens` | One live token per session, a token for every caller, each operation one step of the sessions contract? | 2 users, 2 requests, 3 tokens |
| `finalized_twice` | violation: a FINALIZED configuration is not written again | as `configurations`, 1 version, 2 requests, all queues but that of finalizations |
| `field_moves` | violation: only DRAFT versions are modified | as `editor` |
| `two_prices` | violation: windows of prices do not overlap | as `prices` |
| `clone_sku` | violation: a clone adds to the SKU what its source does | as `editor` |
| `calculation` | Fields: is what is shown offered, does it agree with the rules read on the values of the response, is complete complete, does a response sent back come back? BOM: are exactly the items with all their ancestors kept, is every item in one line with its like, are flat quantities exact where only leaves merge, are total and warnings those of the items? | 3 fields, 3 values, every pair of 14 rules, 20 settings of fields and options, every input; BOMs of 5 items, 2 parts, rules, counted quantities, a circle, price windows and dates, custom lines (863,000 states) |

Five runs have a state constraint, `Scope` in their `MC` module. That of `template_graph` checks the state after a third
INSERT and does not go on from it, so that liveness is about histories of two rows. The others keep products of histories out that no
property relates: calculations beside a short history of versions or a long history without them, and moved fields beside a shorter one (`versions`), a second
configuration, or a field in a published version, without a second handler (`configurations`), options and rules or a BOM but not both, and edits of a copy
not beyond the moment it differs from its source (`editor`), and a second price list with fewer items and days (`prices`).

Why the bounds are enough. A cycle of three parts needs three edges, and two
concurrent inserts to close; a fourth part lengthens it and adds no case. Three version
requests let a publication, an edit and a creation be in flight at once, and four versions
let an archived, a published and a draft one coexist after a deletion. A cache of
one entry with two versions evicts, expires and overwrites. A configuration race is between
two handlers on one row; a second row matters to copies and to the deletion of price lists. Two markets are a price before and a price after.
In the editor every check relates a row to the one or two it refers to: two fields for a reference to
be moved or rewritten, two values to be told apart, three items for a circle that no single PATCH closes.
Four days are the least for two windows side by side within a third, and with a gap. Three tokens are a
login, a rotation and a second rotation or login; two requests are what races for one token.
Three fields are the least with one before, one that is decided and one after; two rules are the
least that contradict each other; and with one `LooksBack`, `Definite` or `Trimmed` less in the
properties of `RuleWaterfall` the same bounds give a counterexample. In a BOM of five items there are two roots of one part, a
child of each that merge only after their parents did, and one more below; an ancestor two levels up can
fall out. Windows of prices begin on, end on and touch at the day asked for, and the price
list begins after, covers or ends before it. The bounds are `MaxRows`,
`MaxVersions`, `MaxConfigs`, `MaxEdits`, `Keys`, `TTL`, `Max`, `MaxLists`, `MaxItems` and `MaxTokens`; where an id sequence ends,
an INSERT fails as on a database error, so that no handler is stuck. The runs on
configurations, content and prices say `CHECK_DEADLOCK FALSE`: with every row made, published or gone and nobody
asking, the service is at rest.

Fairness (`template_graph` only). A handler that started is run by its thread
(weak fairness of its steps), and PostgreSQL queues those who wait for an
advisory lock in order of arrival, so one that waits is served (strong fairness
of the lock). No client is assumed to start anything.

### Where code and documents differ

Found by a run:

1. `field_moves`: a PATCH of a field of a DRAFT may name `entity_version_id`
   (`app/routers/fields.py:174`), and the version it names is not looked at: the field moves into a PUBLISHED version with its values.
   "Only DRAFT versions can be modified" (`app/dependencies/validators.py:77`) does not hold of one such request, nor README.md:52 of
   the service, "Published/archived versions are immutable". What does hold is `PublishedIsKept` and `PublishedOnlyGetsFields`:
   a published version loses nothing, its rows stay as they are, and nothing comes in but such fields. One exception is in the definition
   (`Uncounted`): a field that was moved away from its version before that was published, while a BOM item counted by it, may be
   deleted where it is now, and the foreign key then clears `quantity_from_field_id` of the published item.
2. `finalized_twice`: two finalizations both find the row DRAFT (`app/routers/configurations.py:693`). The one that commits last
   has calculated with the prices and the day of its own time, and overwrites `snapshot`, `bom_total_price` and `price_date` of
   a row that is FINALIZED by then (`:711` to `:720`); its docstring says "snapshot frozen, prices locked".
   `FinalizedIsFrozen` holds in `configurations`, where finalizations queue behind each other too.
3. `two_prices`: windows of prices may share a day. The check compares strictly (`app/routers/price_list_items.py:70`), the
   lookup inclusively (`app/services/rule_engine.py:892`), so that on the day that two windows share a part has two prices and gets either.
   `app/models/domain.py:633` and `docs/ADR_PRICE_LIST.md:33` say that windows do not overlap. `TwoPricesOnlyWhereTheyMeet` shows
   that this is the only day.
4. `clone_sku`: `clone_version` (`app/services/versioning.py:139`) names the columns it copies and leaves
   `sku_modifier_when_filled` and `sku_modifier` out, and `suppress_auto_explode` of BOM items with them;
   README.md:51 of the service says that everything is copied. `CopyIsStructural` shows that the rest is.

These properties fail too, each with the `.cfg` that finds it. None of them is among the runs of `PROJECT.json`,
which check what remains true of it:

- `FinalizedIsComplete` (`tlc -config MCFinalizedIncomplete.cfg MCConfigurationLifecycle`): finalization tests the cached completeness
  and stores what it calculates afterwards (`app/routers/configurations.py:697`), on a DRAFT version that may have been edited since.
  `FinalizedIsCompleteUntouched` holds where users are not authors, so that the version is published, and no field was moved into it.
- `RulesMeanSomething` (`MCValueMoves.cfg`, `MCVersionEditor`): a value may move to another field of its version
  (`app/routers/values.py:117`), whatever rules name it. The rules then set
  a text that is no value of their target, which `docs/ADR_CALCULATION_RULES.md:178` says the API prevents, or have
  an option of another field. `RulesMeanSomethingUnmoved` is the same property of histories without such a move, in which neither edits nor
  deletions break it.
- `CacheIsCurrent` (`MCCachedBeforeMove.cfg`, `MCVersionCache`): published versions are cached as immutable (README.md:119 of the service,
  "Safe by design"). A field that is moved into one is
  missing from its entry until that expires, and processes differ for that long. `CacheIsExact` and `AnswersAreExact`
  say that this is all they can miss.
- `UnpricedIsIncomplete` (`MCUnpricedComplete.cfg`, `MCBomEvaluation`): `docs/ADR_PRICE_LIST.md:59` says that a part without a price makes
  `is_complete` false and so gates
  finalization, as does README.md:568 of the service; `_check_completeness` (`app/services/rule_engine.py:1286`) looks at fields only.
  `CompleteIsAnswered` says what completeness is, and `TotalIsOfTheItems` that the warning is there.
- `FlatIsConsumption` (`MCFlatConsumption.cfg`, `MCBomEvaluation`): siblings with the same part are merged, their quantities added, and so are those of
  their equal children; the flat list then multiplies the sums, where `docs/ADR_ENGINEERING_BOM.md:184` says that it answers
  "what materials does one configuration consume". 2 *p* with 1 *q* each beside 1 *p*
  with 3 *q* each give 3 × (1 + 3) = 12 *q*, and 2 × 1 + 1 × 3 = 5 are consumed. `FlatIsExact`
  shows that the list is right as long as no item with children is merged.

The rest is seen from one step of a module, or from a queue that a run has.

*Template.* `TemplateExplosion!MaterializesTheStartingGraph` fails: the expansion reads each level in a
statement of its own at READ COMMITTED, so a tree can mix the template before and after a commit
(`docs/ADR_ENGINEERING_BOM.md:159`).

*Versions.* With writers not queued behind a publication `PublishedIsKept` fails: the DRAFT status is checked when
an edit starts (`app/dependencies/validators.py:66`), not when it commits.

*Content.*
- A PATCH of a free field that does not name `is_free_value` (`fields.py:138`) is judged as if it cleared it: it is refused beside
  CALCULATION rules, and it erases `default_value`. In the other direction it lets a
  `default_value` be set on a field with options.
- Criteria of Rules name fields and values in JSON and are not checked; those of BOM item rules are, and
  `delete_field` does not look for a field there. A criterion on nothing never passes.
- `data_type` may change away from NUMBER while `quantity_from_field_id` counts by the field.
- A clone is refused ("Missing parent BOM item", `app/services/versioning.py:208`) when a
  child comes out of an unordered query before a parent that is not a root.

*Tokens.* "never with no token" (`app/routers/auth.py:83`) holds up to the commit: an answer that is lost after it leaves the
caller with a revoked token (`out` in `AuthTokens`). `revoke_all_user_refresh_tokens` and
`cleanup_expired_tokens` have no caller in the service; the model lets them come at any time.

*Configurations.* An upgrade keeps the inputs of a configuration
(`app/routers/configurations.py:657`), which name fields by id, and fields belong to one version (a clone
gets new ones), so that none of them is evaluated after it, where `docs/ADR_REHYDRATION.md:24` says that
"the existing inputs are simply re-evaluated".

*Engine.* A criterion with an order operator and a list as its value makes the fallback of `_check_criterion`
(`app/services/rule_engine.py:733`) raise in turn, and the calculation ends in a 500.

*Mechanisms the runs exclude with a queue.* Two creations without
a queue leave two DRAFTs (`Conflicts` without `{"create"}`), two publications beside a creation two PUBLISHED
versions; an update that loaded a configuration as a DRAFT changes its inputs after its finalization
(`FinalizedIsFrozen` without `{"finalize", "update"}`); a deletion that found a configuration DRAFT removes it after its finalization;
deleting a DRAFT version takes FINALIZED configurations of authors with it
(`FinalizedIsKept` with the role AUTHOR); a load that resolved a version before it was
archived caches it again after the invalidation, which is harmless as
`CacheIsExact` shows; two PATCHes of BOM items close a circle (`BomIsForest`); two prices of a part are each checked
before the other is there (`TwoPricesOnlyWhereTheyMeet`); one token is rotated twice (`OneLiveTokenPerSession`).

*Order.* `docs/ADR_CALCULATION_RULES.md:140`: of several CALCULATION rules
that pass, the first in creation order is said to win, but the query for rules has no order; `Definite`
is what `RepeatsItself` has to assume for it. That rules only read fields evaluated before them
(`docs/ADR_INFERENCE_TREE.md:28`) holds of the engine in that a later field has no value yet, so a rule
on one never passes; no handler refuses such a rule. `LooksBack` is the discipline the document describes.

## 4. Proofs

All theorems hold for every value of the constants: any number of parts,
requests, versions, items, users and tokens. A hypothesis on `Conflicts` is stated in the theorem.

**`EngineeringTemplateProofs`**, of `EngineeringTemplate!Spec`, from `NoneAssumption` and
the assumptions of `TemplateGraph`: `TypeCorrect`, `AlwaysAcyclic`,
`AlwaysUniqueAndCatalogued`, `ImplementsGraph` and `CyclesAreReal`. Acyclicity alone is not inductive: what an
INSERT relies on was established by a search several queries earlier. `IInv` adds that a request
past the lock holds it, so `template` does not change under it, and that the search
is sound: the parts visited and on the stack contain the child of the new edge and are closed under
children except for those still on the stack, and the parent is neither visited nor on the stack. When
the stack is empty the visited parts are closed, contain the child and not the parent, and
`AcyclicAdd` says that such an edge closes no cycle. `Acyclic` is stated with closed
sets for this argument; `MCEngineeringTemplate` compares it with a transitive
closure on every graph of three parts. For `CyclesAreReal`, `PathInv` adds that each path on the stack starts with the new edge
and follows rows of the table, which stay while its request has the lock.

**`TemplateExplosionProofs`**, of `TemplateExplosion!Spec`, from the assumptions of `TemplateGraph`, `PartsAssumption` (finitely
many parts: the catalog is a table) and `LimitsAssumption` (limits are numbers, by default 32 and 500; with
a limit of 0 nodes every expansion ends before its root, and there is nothing to compare). `StaysWithinLimits` is for any commits between the queries, `ExpandsTheWholeTree` for
expansions that nobody disturbs. The latter compares a walk over a stack with `Tree`, which is built level by level, and goes
through the least set of paths that holds the root and is closed under children: `Tree` is that set, because
in a template without cycles the rows have ranks, a path of the tree climbs in rank and so names each part once, and paths of
distinct parts are finitely many and no longer than the number of parts. Of the walk the invariant `OwesTheTree` says that what it has made and the calls to come are nodes of the tree, each
once, that the root is among them, and the children of every node that was made and expanded; when no call is left, what was made is closed, so it is the
tree itself, and when a limit stops the walk the node that is too much is of the tree. That `Expand` adds a call for each row
of a part, once, is read off `InOrder`.

**`VersionProofs`**, of `VersionLifecycle!Spec`. `TypeCorrect` needs nothing.
`OneDraft`, `OnePublished` and `NumbersOrdered` assume that creations and clones of an
entity do not overlap each other, nor publications each other; everything else may.
`PublishedStays`, whose property is `PublishedIsKept`, assumes only that edits and deletions do not overlap a publication:
a version keeps every row it was published with, wherever fields are moved.
`ImplementsContract` and, through it, `StatusesForward` assume both. The inductive invariant has three layers, each relative
to the one before: `BaseInv` (types, which kinds of handler can be at which query, that
conflicting kinds are apart, that ids are keys), `LifecycleInv` (the three properties with
`FlightInv`, which says that what a handler in flight has read is still so: no DRAFT
since the check, the number still the next one, the version to publish still a DRAFT or gone
with an id that is never given again, and the PUBLISHED one still the one it read) and `WriteInv` (what an edit or a deletion is
about to write is still a DRAFT). The refinement then maps each commit to the
operation it is named after, or to a stutter when the row is gone, and every read to a stutter.

Of `VersionCache!CacheSpec`, for any number of calculations, any life of an entry and any size
of the cache. `CacheBounded` needs nothing but that the size is not 0; it rests on one lemma for each method of `TTLCache`,
which says what the method keeps of a store and where its entries come from. `CacheExact` and `AnswersExact` assume, as `PublishedStays`
does, that edits and deletions do not overlap a publication; neither assumes anything about creations, or
about publications among each other. The invariant says of a calculation between its queries that
what it has read so far is of one version that is not a DRAFT any more, with or without what arrived there by a move, and that such a version
keeps what it has (`StepKept`), so it does not matter when the entry is dropped and kept again.
`CacheRefinesLifecycle` makes the theorems of `VersionLifecycle!Spec` theorems of this specification.

**`CalculationProofs`**, of `RuleWaterfall!WaterfallSpec`, for any number of fields and any set of
versions, from `DataAssumption` (the empty value is not a value, stripping twice is stripping once) and
`VersionsAssumption` (versions are well-formed): `TypeCorrect`, `ShownAreOffered`,
`DecisionsAreFinal`, `CompletenessIsSound` and `ResponsesRepeat`, which are all the properties of
its run. None of them is inductive, for they speak of a finished response. `IInv` says of each field
output so far that it is derived: what its rules yield in the context of the fields before it. From
there `DecisionsAreFinal` is that contexts which agree on what a rule reads cannot be told apart by
it. For `ResponsesRepeat` the invariant also says that each field of the previous response was derived
from some input, and that the input it has now is either not looked at or what it was shown with;
`DerivedRepeats` shows that such a field is decided as before, so the two responses agree field by
field, as far as the pass has come.

Of `BomEvaluation!BomSpec`, from the assumptions of `RuleWaterfall`
with `BomAssumption` and `LoadsAssumption`. `CalculationRefines` says that every behaviour of
`BomSpec` is one of `WaterfallSpec`, so the theorems above hold of it too.
`PruningIsExact` and `MergingIsExact` are about any number of items and any links between
them (`LinesArePartPaths` speaks of forests, as its statement says). Pruning removes one orphan
after another; the invariant that makes the result independent of the order is that no set of
selected items which holds the parents of its items ever loses one, so such a set is still there at the
end, when what is left is such a set itself. For merging it is that an item has a leader only if its parent has,
that leaders lead themselves, and that items which have been reached are in one group exactly when they are alike and
their parents are in one group: a group is taken whole, so no later one can share its key.

`TotalsAreOfTheItems` and `FlatIsConsumed` are about its sums and products, for any finite set of items and of custom
lines (`BomAssumption` and `Load` say that they are finite, as tables are). The folds of the model take elements in the order of a `CHOOSE`; the proofs
replace them by sums that exist for every finite set and may be taken in any order (`GatherersExist`, `PickedIs`), for which
`AddedUnion`, `AddedTimes` and `AddedByLine` say that a sum can be split, scaled and taken line by line.
They are proved by induction over finite sets: `SetsGrow`, of the set of sets for which a statement holds.
`SumInv` adds to the invariant that prices are those of the list on the day (`PriceInv`), that what is included has a positive
quantity (`QuantityInv`), that a line is weighed after its parent, with the quantity of the line times the weight of the parent (`WeightInv`), and that
the output was summed from these (`OutputInv`).
- `TotalsAreOfTheItems` assumes that the items have no circle, or that those which are sold are roots (`SoldAreRoots`),
  which `_validate_commercial_is_root` (`app/routers/bom_items.py:55`) sees to whenever an item is created or changed; a sold item on a
  circle would be in no line and in no total.
- `FlatIsConsumed` is `FlatIsExact` as it is. Where only leaves are merged a parent is a line of its own (`ParentsAlone`), so that
  the weight of a line is its quantity times the product of the quantities above it (`WeightsAre`); that this product is
  one over the set `Above`, each ancestor once, is where circles are excluded (`NotItsAncestor`).

**`VersionEditorProofs`**, of `VersionEditor!Spec`, for any number of versions and rows. Each theorem names the pairs of handlers
that must not overlap for it, all of them part of `MCVersionEditor!Queued`; every other pair may.
- `PublishedContentStays`: publications queue with the handlers that edit, and updates of fields with changes and deletions of fields and
  whatever writes values. Its property, `PublishedOnlyGetsFields`, is what is left of "only DRAFT versions can be modified" where PATCHes move fields
  (section 3). A handler that is held up still has its DRAFT when it goes on (`DraftFits`), and that is where its row still is: the
  second queue keeps another PATCH from moving the field away from under it.
- `BomStaysForest`: updates of items queue with each other. A forest is not inductive by itself: what the update that is held up relies on is that
  the item it moves is not above the new parent (`ForestFits`), and a walk up the parents is
  characterised for this by the sets that are closed upward (`Upward`): `Above` is the least of them.
- `FreeFieldsStayEmpty`: updates of fields queue with creations and updates of values. It holds wherever PATCHes move values and fields,
  because `update_value` looks at the field a value moves to (`FreeFits`).
- `RulesStayMeaningful`: what creates or changes a rule queues with changes of fields, changes and deletions of values, and changes of rules.
  Its property, `RulesMeanSomethingUnmoved`, speaks of histories in which no PATCH has moved a row. What a held write relies on is
  `OptionFits`: its target, its option and its text are still there to be
  referred to, and if it takes a value away or restricts a field, no rule leans on what was.
- `CopiesAreStructural` needs none of this: the maps from old to new ids are bijections onto the rows that appear, and a reference that has no image makes
  the clone fail.

The first four rest on `LinkInv`, that foreign keys lead to rows and that items and their rules are of the version of their parent and item, which
no PATCH can change, with `LinkFits` for what is held up: its references still lead there, if their rows are still there. That the targets of rules and the
quantities of items are fields of their own version (`FixedInv`, `FixedFits`) is only so until a row is moved, and `RulesStayMeaningful` alone needs it.

**`PriceCatalogProofs`**, of `PriceCatalog!Spec`, from the assumptions of its module and `EnoughQueue`, which
is what `MCPriceCatalog!Queued` lists: `PricesWithinLists`, `PricesOnlyMeet` and `RetiredStayWithoutPrices`. The
invariant is that the tables are in order and that what is held up would still be let through by the
checks it passed (`Fits`). That is inductive as two handlers which are both on their way
do not conflict, and those which do not conflict cannot undo each other's checks: `StillFitting` goes
through the commits that may come between, `Committed` through those of a handler that fits. That
the windows of a part do not overlap, compared strictly, gives `TwoPricesOnlyWhereTheyMeet` by the order of the days.

**`AuthTokensProofs`**, of `AuthTokens!Spec`, from the assumptions of its module and `EnoughQueue`, which is
`MCAuthTokens!Queued` with logins behind deactivations: `OneTokenASession`, `CallersKeep` and
`HandlersImplementSessions`. What a refresh has read is still so when it commits, or its row is gone
(`ReadInv`), because refreshes of a user are alone (`AloneInv`); so the token that it revokes is the
only live one of its session, and the one that it creates the only one after. For `CallersKeep` it is in
addition that a token which was not told is of exactly one answer on its way, and that it is live unless its session is out. The
refinement maps the table to the sessions that have a live token; it is a function because
`OneLiveTokenPerSession` holds, and `OpenFacts` says so without the `CHOOSE` of the definition, so that each commit
is one step of the contract: `OpenPut` for those that create a token, `OpenClose` for those that end sessions.

**`ConfigurationLifecycleProofs`**, of `ConfigurationLifecycle!Spec`, for any number of handlers, versions, configurations,
lists, items and markets. `TypeCorrect` needs nothing. `SnapshotTrue`, `FinalizedComplete`, `CompleteTrue`, `FinalizedFrozen`
and `FinalizedKept` assume `UsersOnly` (nobody saves against a DRAFT version) and `EnoughQueued`, which is
`MCConfigurationLifecycle!Queued`: finalizations queue behind each other as well. Prices, days and published versions change as they like.
Without one or the other TLC finds counterexamples (section 3: `FinalizedIsComplete` and `finalized_twice`). The invariant has three parts. `BaseInv` is
types, which kind of handler can be where, and that conflicting handlers are apart. `RowsInv`
says that the version of a row is not a DRAFT and that, unless a field was moved into it, its completeness is what the engine says of it, hence no version
goes under a configuration, and that the snapshot of a FINALIZED row is of that row and of the market its price date names. `FitsInv` is
what a handler in flight has in hand compared with the row by now: one that changes
inputs still has the row it loaded, but for its price list; a finalization has the row it loaded, which no other finalization may have written;
a soft deletion has the row with or without its flag.
`Spares` says what a step must not do to the row of another handler, `OtherFits` that
it is enough, and one lemma per write shows that the write does not.

Only model-checked: liveness (`EveryRequestEnds`), which is out of the prover's reach, and the
counterexamples. Where a proof needs induction over a number, it goes through the set of numbers for which
a statement holds (`NatSetInduction`), because an operator cannot be given to the theorems of the library.

## 5. Not modelled

- In a version: names, labels, sequence and steps of fields, several criteria of a rule, MANDATORY and
  VISIBILITY and the like beyond one rule type that needs neither option nor text (they are alike to the handlers), part numbers and quantities of BOM items,
  deletions and reorderings that change nothing a check reads.
- In a BOM: the order of its lines, the catalog metadata on them (a part without a catalog row ends in a `ValueError`, which
  the foreign key of `bom_items` excludes), and a text field that holds `NaN`, for which the comparison in
  `_resolve_bom_quantity` raises outside of its `try` and the calculation ends in a 500. TECHNICAL
  children of a COMMERCIAL line stay outside of `technical_flat`, in the model as in the code.
- In a template: the quantities multiplied along a path.
- Entities and users, but for `is_active` in `AuthTokens`: creation and renaming lean on a uniqueness constraint. `delete_entity`
  (`app/routers/entities.py:110`) counts versions and then deletes with a cascade, so a version that is created between the
  two goes with its entity; the foreign key does not stop an ORM cascade that has loaded it, and fails the
  deletion when it has not.
- Access tokens, passwords, hashes and the rate limiter: libraries with no state here.
- Roles, beyond who may save against a DRAFT version. Who may see which row is one guard per handler.
- `clear()` and the counters of the cache; schemas, logging, wiring, migrations, seed data.
- Crashes, but for those of login and refresh: an uncommitted transaction disappears with the process, as on an error, which the
  actions have; the only state in memory is the cache, and an empty cache is its initial state.

## 6. Plan

Done, in this order: the template graph and its explosion with their proofs, the version lifecycle, configurations and the cache
with their proofs, the rule waterfall and the BOM with their proofs, the content of versions with its clone and its proofs,
prices with their proofs, tokens with their proofs.

Left, most useful first:

1. Entities with their deletion, on top of `VersionContract`.
2. Quantities in the expansion of a template, and what a materialized tree then is to `BomEvaluation`.
