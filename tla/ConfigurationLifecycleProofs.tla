-------------------- MODULE ConfigurationLifecycleProofs --------------------
(* What finalization promises, for every number of handlers, versions,     *)
(* configurations, price lists and custom items.                           *)
EXTENDS ConfigurationLifecycle, TLAPS

-----------------------------------------------------------------------------
(* Facts that hold however the handlers interleave                         *)

KindsAt(label) ==
    CASE label = "idle" -> {"none"}
      [] label = "calculate" -> {"create", "update", "upgrade", "finalize"}
      [] label = "items" -> {"clone"}
      [] label = "insert" -> {"create", "clone"}
      [] label = "update" -> {"update", "upgrade", "finalize", "delete"}
      [] label = "delete" -> {"delete"}
      [] label = "item" -> {"add item", "change item", "drop item"}
      [] OTHER -> {"delete list"}

(* What a handler holds, by its kind and by where it is.                   *)
Known(q) ==
    /\ q.kind \in KindsAt(q.at)
    /\ IF q.kind \in {"none", "create", "delete list"}
       THEN q.id = 0
       ELSE q.id \in 1..born /\ q.old \in Row
    /\ q.at \in {"calculate", "items", "insert", "update"} => q.new \in Row

KnownInv == \A r \in Requests : Known(req[r])

ConflictInv ==
    \A r, q \in Requests :
        r # q /\ {req[r].kind, req[q].kind} \in Conflicts =>
            ~Overlap(req[r].id, req[q].id)

KeyInv ==
    /\ lastId \in 0..MaxVersions
    /\ \A v \in versions : v.id <= lastId
    /\ \A u, v \in versions : u.id = v.id => u = v

BaseInv == TypeOK /\ KnownInv /\ ConflictInv /\ KeyInv

LEMMA IdleIs ==
    /\ Idle \in Request
    /\ Idle.kind = "none" /\ Idle.at = "idle" /\ Idle.id = 0
    /\ Idle.new = None /\ Idle.old = None /\ Idle.items = {}
    /\ \A kind : {kind, "none"} \notin Conflicts /\ {"none", kind} \notin Conflicts
<1>1. \A kind : {kind, "none"} \notin Conflicts /\ {"none", kind} \notin Conflicts
  BY ConflictsAssumption DEF Kinds
<1>2. Idle \in Request
  BY MaxConfigsAssumption DEF Idle, Request
<1> QED BY <1>1, <1>2 DEF Idle

LEMMA InitBase == Init => BaseInv
<1> SUFFICES ASSUME Init PROVE BaseInv
  OBVIOUS
<1>1. TypeOK
  <2>1. DOMAIN configs = {}
    BY DEF Init
  <2> QED BY <2>1, IdleIs, MaxConfigsAssumption DEF Init, ContractInit, TypeOK
<1>2. KnownInv
  BY IdleIs DEF Init, KnownInv, Known, KindsAt
<1>3. ConflictInv
  BY IdleIs DEF Init, ConflictInv
<1>4. KeyInv
  BY MaxVersionsAssumption DEF Init, ContractInit, KeyInv
<1> QED BY <1>1, <1>2, <1>3, <1>4 DEF BaseInv

(* A handler that starts or goes on, with what it read, keeps the facts    *)
(* about handlers, when no row was forgotten.                              *)
LEMMA ContinueBase ==
    ASSUME BaseInv, NEW r \in Requests, NEW reads \in Request,
           Continue(r, reads), Known(reads),
           \/ reads.kind = "none"
           \/ reads.kind = req[r].kind /\ reads.id = req[r].id
           \/ MayStart(r, reads.kind, reads.id),
           born' \in Nat, born <= born'
    PROVE  /\ req' \in [Requests -> Request]
           /\ req'[r] = reads
           /\ \A q \in Requests \ {r} : req'[q] = req[q]
           /\ KnownInv'
           /\ ConflictInv'
<1>1. /\ req'[r] = reads
      /\ \A q \in Requests \ {r} : req'[q] = req[q]
      /\ req' \in [Requests -> Request]
  BY DEF BaseInv, TypeOK, Continue
<1>2. KnownInv'
  <2>1. born \in Nat
    BY MaxConfigsAssumption DEF BaseInv, TypeOK
  <2>2. \A i \in 1..born : i \in 1..born'
    BY <2>1
  <2>3. \A q \in Requests : Known(req'[q])
    BY <1>1 DEF BaseInv, KnownInv
  <2> QED BY <2>2, <2>3 DEF KnownInv, Known
<1>3. \A q \in Requests \ {r} :
          {reads.kind, req[q].kind} \in Conflicts => ~Overlap(reads.id, req[q].id)
  <2> SUFFICES ASSUME NEW q \in Requests \ {r}, {reads.kind, req[q].kind} \in Conflicts
               PROVE  ~Overlap(reads.id, req[q].id)
    OBVIOUS
  <2>1. CASE reads.kind = "none"
    BY <2>1, IdleIs
  <2>2. CASE reads.kind = req[r].kind /\ reads.id = req[r].id
    BY <2>2 DEF BaseInv, ConflictInv
  <2>3. CASE MayStart(r, reads.kind, reads.id)
    BY <2>3 DEF MayStart
  <2> QED BY <2>1, <2>2, <2>3
<1>4. ConflictInv'
  <2> SUFFICES ASSUME NEW p \in Requests, NEW q \in Requests, p # q,
                      {req'[p].kind, req'[q].kind} \in Conflicts
               PROVE  ~Overlap(req'[p].id, req'[q].id)
    BY DEF ConflictInv
  <2>1. CASE p = r
    BY <1>1, <1>3, <2>1
  <2>2. CASE q = r
    <3>1. {req'[p].kind, req'[q].kind} = {reads.kind, req[p].kind}
      BY <1>1, <2>2
    <3>2. ~Overlap(reads.id, req[p].id)
      BY <1>3, <2>2, <3>1
    <3> QED BY <1>1, <2>2, <3>2 DEF Overlap
  <2>3. CASE p # r /\ q # r
    BY <1>1, <2>3 DEF BaseInv, ConflictInv
  <2> QED BY <2>1, <2>2, <2>3
<1> QED BY <1>1, <1>2, <1>4

LEMMA EndBase ==
    ASSUME BaseInv, NEW r \in Requests, End(r), born' \in Nat, born <= born'
    PROVE  /\ req' \in [Requests -> Request]
           /\ req'[r] = Idle
           /\ \A q \in Requests \ {r} : req'[q] = req[q]
           /\ KnownInv'
           /\ ConflictInv'
<1>1. Known(Idle)
  BY IdleIs DEF Known, KindsAt
<1> QED BY <1>1, IdleIs, ContinueBase DEF End
-----------------------------------------------------------------------------
(* Versions                                                                *)

(* A published version stays published or archived, and stays as it is     *)
(* unless a field is moved into it.                                        *)
Kept(v, w) ==
    /\ w.id = v.id /\ w.status # "DRAFT"
    /\ Untouched(w) => Untouched(v) /\ w.content = v.content

LEMMA ReceivedIs ==
    ASSUME NEW v \in Version, NEW x \in Rows
    PROVE  /\ Received(v, x) \in Version /\ Received(v, x).id = v.id
           /\ v.status # "DRAFT" => Kept(v, Received(v, x))
<1> DEFINE w == Received(v, x)
<1>1. /\ w \in Version /\ w.id = v.id /\ w.status = v.status
      /\ v.status # "DRAFT" => w.arrived = v.arrived \cup {x}
  BY DEF Received, Version, Contents
<1> HIDE DEF w
<1>2. v.status # "DRAFT" => ~Untouched(w)
  BY <1>1 DEF Untouched
<1> QED BY <1>1, <1>2 DEF Kept, w

LEMMA ContractKeeps ==
    ASSUME BaseInv, ContractNext
    PROVE  /\ versions' \subseteq Version
           /\ KeyInv'
           /\ \A v \in versions : v.status # "DRAFT" => \E w \in versions' : Kept(v, w)
<1>1. /\ \A v \in versions : v \in Version
      /\ \A v \in versions : v.id \in Nat /\ v.id <= lastId /\ v.id \in 1..MaxVersions
      /\ \A u, v \in versions : u.id = v.id => u = v
      /\ MaxVersions \in Nat /\ lastId \in 0..MaxVersions
  BY MaxVersionsAssumption DEF BaseInv, TypeOK, KeyInv, Version
<1>2. ASSUME NEW n \in 1..MaxVersions, NEW c \in Contents, NewDraft(n, c)
      PROVE  /\ versions' \subseteq Version
             /\ KeyInv'
             /\ \A v \in versions : v.status # "DRAFT" => \E w \in versions' : Kept(v, w)
  <2> DEFINE new == [id |-> lastId + 1, number |-> n, status |-> "DRAFT",
                     content |-> c, arrived |-> {}]
  <2>1. new \in Version /\ new.id = lastId + 1
    BY <1>1, <1>2 DEF NewDraft, Version, Statuses, Contents
  <2>2. versions' = versions \cup {new} /\ lastId' = lastId + 1 /\ lastId < MaxVersions
    BY <1>2 DEF NewDraft
  <2> HIDE DEF new
  <2> QED BY <1>1, <2>1, <2>2 DEF KeyInv, Kept
<1>3. ASSUME NEW d \in versions, Publish(d)
      PROVE  /\ versions' \subseteq Version
             /\ KeyInv'
             /\ \A v \in versions : v.status # "DRAFT" => \E w \in versions' : Kept(v, w)
  <2> DEFINE moved(v) ==
        CASE v = d -> [v EXCEPT !.status = "PUBLISHED"]
          [] v \in Having("PUBLISHED") -> [v EXCEPT !.status = "ARCHIVED"]
          [] OTHER -> v
  <2>1. \A v \in versions :
            /\ moved(v) \in Version /\ moved(v).id = v.id
            /\ v.status # "DRAFT" => Kept(v, moved(v))
    BY <1>1 DEF Version, Statuses, Kept, Untouched
  <2>2. versions' = {moved(v) : v \in versions} /\ lastId' = lastId
    BY <1>3 DEF Publish
  <2> HIDE DEF moved
  <2>3. versions' \subseteq Version /\ KeyInv'
    BY <1>1, <2>1, <2>2 DEF KeyInv
  <2> QED BY <2>1, <2>2, <2>3
<1>4. ASSUME NEW d \in versions, NEW c \in Contents, Edit(d, c)
      PROVE  /\ versions' \subseteq Version
             /\ KeyInv'
             /\ \A v \in versions : v.status # "DRAFT" => \E w \in versions' : Kept(v, w)
  <2> DEFINE new == [d EXCEPT !.content = c]
  <2>1. new \in Version /\ new.id = d.id
    BY <1>1 DEF Version
  <2>2. /\ versions' = (versions \ {d}) \cup {new} /\ lastId' = lastId
        /\ d.status = "DRAFT"
    BY <1>4 DEF Edit, Having
  <2> HIDE DEF new
  <2> QED BY <1>1, <2>1, <2>2 DEF KeyInv, Kept
<1>5. ASSUME NEW d \in versions, Discard(d)
      PROVE  /\ versions' \subseteq Version
             /\ KeyInv'
             /\ \A v \in versions : v.status # "DRAFT" => \E w \in versions' : Kept(v, w)
  BY <1>1, <1>5 DEF Discard, Having, KeyInv, Kept
<1>6. ASSUME NEW d \in versions, NEW x \in Rows, NEW target \in versions,
             Move(d, x, target)
      PROVE  /\ versions' \subseteq Version
             /\ KeyInv'
             /\ \A v \in versions : v.status # "DRAFT" => \E w \in versions' : Kept(v, w)
  <2> DEFINE left == [d EXCEPT !.content = @ \ {x}]
             new == Received(target, x)
  <2>1. left \in Version /\ left.id = d.id
    BY <1>1 DEF Version, Contents
  <2>2. /\ new \in Version /\ new.id = target.id
        /\ target.status # "DRAFT" => Kept(target, new)
    BY <1>1, ReceivedIs
  <2>3. /\ versions' = (versions \ {d, target}) \cup {left, new}
        /\ lastId' = lastId /\ d.status = "DRAFT" /\ d # target
    BY <1>6 DEF Move, Having
  <2> HIDE DEF left, new
  <2> QED BY <1>1, <2>1, <2>2, <2>3 DEF KeyInv, Kept
<1>7. ASSUME NEW target \in versions, NEW x \in Rows, Receive(target, x)
      PROVE  /\ versions' \subseteq Version
             /\ KeyInv'
             /\ \A v \in versions : v.status # "DRAFT" => \E w \in versions' : Kept(v, w)
  <2> DEFINE new == Received(target, x)
  <2>1. /\ new \in Version /\ new.id = target.id
        /\ target.status # "DRAFT" => Kept(target, new)
    BY <1>1, ReceivedIs
  <2>2. versions' = (versions \ {target}) \cup {new} /\ lastId' = lastId
    BY <1>7 DEF Receive
  <2> HIDE DEF new
  <2> QED BY <1>1, <2>1, <2>2 DEF KeyInv, Kept
<1> QED BY <1>2, <1>3, <1>4, <1>5, <1>6, <1>7 DEF ContractNext

(* Only a deletion takes ids away.                                         *)
LEMMA ContractIds ==
    ASSUME BaseInv
    PROVE  /\ \A n \in 1..MaxVersions, c \in Contents :
                 NewDraft(n, c) => VersionIds \subseteq VersionIds'
           /\ \A d \in versions : Publish(d) => VersionIds \subseteq VersionIds'
           /\ \A d \in versions, c \in Contents :
                 Edit(d, c) => VersionIds \subseteq VersionIds'
           /\ \A d, target \in versions, x \in Rows :
                 Move(d, x, target) => VersionIds \subseteq VersionIds'
           /\ \A target \in versions, x \in Rows :
                 Receive(target, x) => VersionIds \subseteq VersionIds'
           /\ \A d \in versions : Discard(d) => VersionIds' = VersionIds \ {d.id}
<1>1. /\ \A v \in versions : v \in Version
      /\ \A u, v \in versions : u.id = v.id => u = v
  BY DEF BaseInv, TypeOK, KeyInv
<1>2. ASSUME NEW n \in 1..MaxVersions, NEW c \in Contents, NewDraft(n, c)
      PROVE  VersionIds \subseteq VersionIds'
  BY <1>2 DEF NewDraft, VersionIds
<1>3. ASSUME NEW d \in versions, Publish(d)
      PROVE  VersionIds \subseteq VersionIds'
  <2> DEFINE moved(v) ==
        CASE v = d -> [v EXCEPT !.status = "PUBLISHED"]
          [] v \in Having("PUBLISHED") -> [v EXCEPT !.status = "ARCHIVED"]
          [] OTHER -> v
  <2>1. \A v \in versions : moved(v).id = v.id
    BY <1>1 DEF Version
  <2>2. versions' = {moved(v) : v \in versions}
    BY <1>3 DEF Publish
  <2> HIDE DEF moved
  <2> QED BY <2>1, <2>2 DEF VersionIds
<1>4. ASSUME NEW d \in versions, NEW c \in Contents, Edit(d, c)
      PROVE  VersionIds \subseteq VersionIds'
  <2>1. [d EXCEPT !.content = c].id = d.id
    BY <1>1 DEF Version
  <2>2. versions' = (versions \ {d}) \cup {[d EXCEPT !.content = c]}
    BY <1>4 DEF Edit
  <2> QED BY <2>1, <2>2 DEF VersionIds
<1>5. ASSUME NEW d \in versions, Discard(d)
      PROVE  VersionIds' = VersionIds \ {d.id}
  BY <1>1, <1>5 DEF Discard, VersionIds
<1>6. ASSUME NEW d \in versions, NEW target \in versions, NEW x \in Rows,
             Move(d, x, target)
      PROVE  VersionIds \subseteq VersionIds'
  <2>1. [d EXCEPT !.content = @ \ {x}].id = d.id /\ Received(target, x).id = target.id
    BY <1>1, ReceivedIs DEF Version
  <2>2. versions' = (versions \ {d, target}) \cup
                       {[d EXCEPT !.content = @ \ {x}], Received(target, x)}
    BY <1>6 DEF Move
  <2> QED BY <2>1, <2>2 DEF VersionIds
<1>7. ASSUME NEW target \in versions, NEW x \in Rows, Receive(target, x)
      PROVE  VersionIds \subseteq VersionIds'
  <2>1. Received(target, x).id = target.id
    BY <1>1, ReceivedIs
  <2>2. versions' = (versions \ {target}) \cup {Received(target, x)}
    BY <1>7 DEF Receive
  <2> QED BY <2>1, <2>2 DEF VersionIds
<1> QED BY <1>2, <1>3, <1>4, <1>5, <1>6, <1>7

-----------------------------------------------------------------------------
(* Rows                                                                    *)

LEMMA RowEqual ==
    ASSUME NEW a \in Row, NEW b \in Row,
           a.status = b.status, a.version = b.version, a.data = b.data,
           a.list = b.list, a.complete = b.complete, a.priced = b.priced,
           a.snapshot = b.snapshot, a.deleted = b.deleted
    PROVE  a = b
  BY DEF Row

Snap(id, row) ==
    [version |-> row.version, data |-> row.data, list |-> row.list,
     items |-> items[id], complete |-> row.complete, market |-> row.priced]

LEMMA LoadedIs ==
    ASSUME BaseInv, NEW kind, NEW at, NEW id, NEW new,
           kind \in Kinds, at \in {"calculate", "items", "update", "delete", "item"},
           id \in DOMAIN configs, new \in Row \/ new = None
    PROVE  /\ Loaded(kind, at, id, new) \in Request
           /\ Loaded(kind, at, id, new).kind = kind
           /\ Loaded(kind, at, id, new).at = at
           /\ Loaded(kind, at, id, new).id = id
           /\ Loaded(kind, at, id, new).old = configs[id]
           /\ Loaded(kind, at, id, new).new = new
           /\ configs[id] \in Row /\ id \in 1..born /\ id \in Ids
<1>1. configs[id] \in Row /\ id \in 1..born /\ id \in Ids /\ id \in 0..MaxConfigs
  BY MaxConfigsAssumption DEF BaseInv, TypeOK, Ids
<1>2. Idle \in Request
  BY IdleIs
<1> QED BY <1>1, <1>2 DEF Loaded, Request

LEMMA WithResultIs ==
    ASSUME NEW row \in Row, NEW result \in Result
    PROVE  /\ WithResult(row, result) \in Row
           /\ WithResult(row, result).status = row.status
           /\ WithResult(row, result).version = row.version
           /\ WithResult(row, result).data = row.data
           /\ WithResult(row, result).list = row.list
           /\ WithResult(row, result).complete = result.complete
           /\ WithResult(row, result).priced = result.market
           /\ WithResult(row, result).snapshot =
                 IF row.status = "FINALIZED" THEN result ELSE row.snapshot
           /\ WithResult(row, result).deleted = row.deleted
<1>1. result.complete \in BOOLEAN /\ result.market \in Markets
  BY DEF Result
<1> QED BY <1>1 DEF WithResult, Row

LEMMA CachedIs ==
    ASSUME NEW v \in Version, NEW seen \in Cached(v)
    PROVE  /\ seen.id = v.id
           /\ Untouched(v) => \A data : Completes(seen, data) = Completes(v, data)
<1>1. PICK missed \in SUBSET v.arrived : seen = [v EXCEPT !.content = @ \ missed]
  BY DEF Cached
<1>2. seen.id = v.id /\ (Untouched(v) => seen.content = v.content)
  BY <1>1 DEF Version, Untouched
<1> QED BY <1>2 DEF Completes

LEMMA CalculationIs ==
    ASSUME BaseInv, NEW v \in versions, NEW seen \in Cached(v),
           NEW row \in Row, NEW lines \in SUBSET Item
    PROVE  /\ Calculation(seen, row, lines) \in Result
           /\ Calculation(seen, row, lines).complete = Completes(seen, row.data)
           /\ Calculation(seen, row, lines).market = market
<1>1. Completes(seen, row.data) \in BOOLEAN
  BY DEF Completes
<1>2. seen.id \in 1..MaxVersions /\ market \in Markets
  BY CachedIs DEF BaseInv, TypeOK, Version
<1> HIDE DEF Completes
<1> QED BY <1>1, <1>2 DEF Calculation, Result, Row

LEMMA MergeIs ==
    ASSUME NEW row \in Row, NEW old \in Row, NEW new \in Row
    PROVE  /\ Merge(row, old, new) \in Row
           /\ Merge(new, old, new) = new
           /\ Merge(old, old, new) = new
<1>1. Merge(row, old, new) \in Row
  BY DEF Merge, Row
<1>2. Merge(new, old, new) \in Row /\ Merge(old, old, new) \in Row
  BY DEF Merge, Row
<1>3. Merge(new, old, new) = new
  BY <1>2, RowEqual DEF Merge
<1>4. Merge(old, old, new) = new
  BY <1>2, RowEqual DEF Merge
<1> QED BY <1>1, <1>3, <1>4
-----------------------------------------------------------------------------
(* What the rows say, and what a handler in flight relies on               *)

(* A version that nobody edits or deletes any more.                        *)
Placed(row) == \E v \in versions : v.id = row.version /\ v.status # "DRAFT"

(* The cached completeness is what the engine says, unless a field was     *)
(* moved into the version.                                                 *)
Sound(row) ==
    \E v \in versions :
        /\ v.id = row.version /\ v.status # "DRAFT"
        /\ Untouched(v) => row.complete = Completes(v, row.data)

(* The configuration is complete, unless a field was moved into the        *)
(* version.                                                                *)
Whole(row) ==
    \E v \in versions : /\ v.id = row.version /\ v.status # "DRAFT"
                        /\ Untouched(v) => row.complete

(* What the rows promise, row by row.                                      *)
Fine(id, row) ==
    /\ Sound(row)
    /\ row.status = "FINALIZED" => Whole(row) /\ row.snapshot = Snap(id, row)

RowsInv == \A id \in DOMAIN configs : Fine(id, configs[id])

(* The row but for its price list, which a deletion may take away.         *)
Agrees(row, old) ==
    /\ row.status = old.status /\ row.version = old.version
    /\ row.data = old.data /\ row.complete = old.complete
    /\ row.priced = old.priced
    /\ row.snapshot = old.snapshot /\ row.deleted = old.deleted

MakesDraft(q) ==
    q.kind \in {"create", "clone"} =>
        /\ q.new.status = "DRAFT"
        /\ IF q.at = "calculate" THEN Placed(q.new) ELSE Sound(q.new)

ChangesDraft(q) ==
    q.kind \in {"update", "upgrade"} =>
        /\ q.old.status = "DRAFT" /\ q.new.status = "DRAFT"
        /\ q.new.snapshot = q.old.snapshot /\ q.new.deleted = q.old.deleted
        /\ IF q.at = "calculate" THEN Placed(q.new) ELSE Sound(q.new)
        /\ q.id \in DOMAIN configs => Agrees(configs[q.id], q.old)

Finalizes(q) ==
    q.kind = "finalize" =>
        /\ q.old.status = "DRAFT" /\ q.old.complete /\ Sound(q.old)
        /\ IF q.at = "calculate"
           THEN q.new = [q.old EXCEPT !.status = "FINALIZED"]
           ELSE q.new.status = "FINALIZED" /\ Fine(q.id, q.new)
        /\ q.id \in DOMAIN configs => configs[q.id] = q.old

Flagged(row) == [row EXCEPT !.deleted = TRUE]

Flags(q) ==
    q.kind = "delete" /\ q.at = "update" =>
        /\ q.old.status = "FINALIZED" /\ q.new = Flagged(q.old)
        /\ q.id \in DOMAIN configs => configs[q.id] \in {q.old, Flagged(q.old)}

FindsDraft(q) ==
    q.at \in {"delete", "item"} /\ q.id \in DOMAIN configs =>
        configs[q.id].status = "DRAFT"

Unlists(q) ==
    q.at = "list" =>
        \A id \in DOMAIN configs :
            configs[id].status = "FINALIZED" => configs[id].list # q.arg

Fits(q) ==
    /\ MakesDraft(q)
    /\ ChangesDraft(q)
    /\ Finalizes(q)
    /\ Flags(q)
    /\ FindsDraft(q)
    /\ Unlists(q)

FitsInv == \A r \in Requests : Fits(req[r])

(* Nobody saves against a DRAFT version.                                   *)
UsersOnly == Roles \subseteq {"USER"}

-----------------------------------------------------------------------------
(* Handlers that begin                                                     *)

Starts(r, reads) ==
    /\ Continue(r, reads)
    /\ MayStart(r, reads.kind, reads.id)
    /\ Known(reads)
    /\ UsersOnly /\ RowsInv => Fits(reads)

LEMMA CreateStarts ==
    ASSUME BaseInv, NEW r \in Requests, NEW role \in Roles, NEW v \in versions,
           NEW list \in lists, NEW data \in Enterable(v.id),
           BeginCreate(r, role, v, data, list)
    PROVE  \E reads \in Request : Starts(r, reads)
<1> DEFINE new == [status |-> "DRAFT", version |-> v.id, data |-> data,
                   list |-> list, complete |-> FALSE, priced |-> None,
                   snapshot |-> None, deleted |-> FALSE]
           reads == [Idle EXCEPT !.kind = "create", !.at = "calculate", !.new = new]
<1>1. v.id \in 1..MaxVersions /\ v.status \in Statuses
  BY DEF BaseInv, TypeOK, Version
<1>2. data \in Data
  BY <1>1, MaxVersionsAssumption DEF Enterable, Data, NoData
<1>3. new \in Row /\ new.status = "DRAFT" /\ new.version = v.id
  BY <1>1, <1>2 DEF Row, BaseInv, TypeOK
<1>4. UsersOnly => Placed(new)
  BY <1>3 DEF UsersOnly, BeginCreate, Placed
<1>5. Continue(r, reads) /\ MayStart(r, "create", 0)
  BY DEF BeginCreate
<1> HIDE DEF new
<1>6. /\ reads \in Request /\ reads.kind = "create" /\ reads.at = "calculate"
      /\ reads.id = 0 /\ reads.new = new
  BY <1>3, IdleIs DEF Request, Kinds
<1> HIDE DEF reads
<1>7. Known(reads)
  BY <1>3, <1>6 DEF Known, KindsAt
<1>8. UsersOnly => Fits(reads)
  BY <1>3, <1>4, <1>6
     DEF Fits, MakesDraft, ChangesDraft, Finalizes, Flags, FindsDraft, Unlists
<1> QED BY <1>5, <1>6, <1>7, <1>8 DEF Starts

LEMMA CloneStarts ==
    ASSUME BaseInv, NEW r \in Requests, NEW id \in DOMAIN configs, BeginClone(r, id)
    PROVE  \E reads \in Request : Starts(r, reads)
<1> DEFINE new == [configs[id] EXCEPT !.status = "DRAFT", !.snapshot = None,
                                      !.deleted = FALSE]
           reads == Loaded("clone", "items", id, new)
<1>1. configs[id] \in Row
  BY DEF BaseInv, TypeOK
<1>2. /\ new \in Row /\ new.status = "DRAFT" /\ new.version = configs[id].version
      /\ new.data = configs[id].data /\ new.complete = configs[id].complete
  BY <1>1 DEF Row
<1>3. Continue(r, reads) /\ MayStart(r, "clone", id)
  BY DEF BeginClone, Load
<1> HIDE DEF new
<1>4. /\ reads \in Request /\ reads.kind = "clone" /\ reads.at = "items"
      /\ reads.id = id /\ reads.old = configs[id] /\ reads.new = new
      /\ id \in 1..born
  <2>1. new \in Row
    BY <1>2
  <2>2. "clone" \in Kinds
    BY DEF Kinds
  <2> QED BY <2>1, <2>2, LoadedIs
<1> HIDE DEF reads
<1>5. Known(reads)
  BY <1>1, <1>2, <1>4 DEF Known, KindsAt
<1>6. RowsInv => Fits(reads)
  BY <1>2, <1>4
     DEF Fits, MakesDraft, ChangesDraft, Finalizes, Flags, FindsDraft, Unlists,
         RowsInv, Fine, Sound
<1> QED BY <1>3, <1>4, <1>5, <1>6 DEF Starts

LEMMA UpdateStarts ==
    ASSUME BaseInv, NEW r \in Requests, NEW id \in DOMAIN configs,
           NEW data \in Enterable(configs[id].version) \cup {configs[id].data},
           NEW list \in lists \cup {None}, BeginUpdate(r, id, data, list)
    PROVE  \E reads \in Request : Starts(r, reads)
<1> DEFINE new == [configs[id] EXCEPT !.data = data, !.list = list]
           reads == Loaded("update", "calculate", id, new)
<1>1. configs[id] \in Row /\ configs[id].status = "DRAFT" /\ lists \subseteq Lists
  BY DEF BaseInv, TypeOK, BeginUpdate, LoadDraft
<1>2. configs[id].version \in 1..MaxVersions /\ configs[id].data \in Data
  BY <1>1 DEF Row
<1>3. data \in Data
  BY <1>2, MaxVersionsAssumption DEF Enterable, Data, NoData
<1>4. /\ new \in Row /\ new.status = "DRAFT" /\ new.version = configs[id].version
      /\ new.snapshot = configs[id].snapshot /\ new.deleted = configs[id].deleted
  BY <1>1, <1>3 DEF Row
<1>5. Continue(r, reads) /\ MayStart(r, "update", id)
  BY DEF BeginUpdate, LoadDraft, Load
<1> HIDE DEF new
<1>6. /\ reads \in Request /\ reads.kind = "update" /\ reads.at = "calculate"
      /\ reads.id = id /\ reads.old = configs[id] /\ reads.new = new
      /\ id \in 1..born
  <2>1. new \in Row
    BY <1>4
  <2>2. "update" \in Kinds
    BY DEF Kinds
  <2> QED BY <2>1, <2>2, LoadedIs
<1> HIDE DEF reads
<1>7. Known(reads)
  BY <1>1, <1>4, <1>6 DEF Known, KindsAt
<1>8. RowsInv => Fits(reads)
  BY <1>1, <1>4, <1>6
     DEF Fits, MakesDraft, ChangesDraft, Finalizes, Flags, FindsDraft, Unlists,
         RowsInv, Fine, Sound, Placed, Agrees
<1> QED BY <1>5, <1>6, <1>7, <1>8 DEF Starts

LEMMA UpgradeStarts ==
    ASSUME BaseInv, NEW r \in Requests, NEW id \in DOMAIN configs,
           NEW latest \in versions, BeginUpgrade(r, id, latest)
    PROVE  \E reads \in Request : Starts(r, reads)
<1> DEFINE new == [configs[id] EXCEPT !.version = latest.id]
           reads == Loaded("upgrade", "calculate", id, new)
<1>1. configs[id] \in Row /\ configs[id].status = "DRAFT"
  BY DEF BaseInv, TypeOK, BeginUpgrade, LoadDraft
<1>2. latest.id \in 1..MaxVersions /\ latest.status = "PUBLISHED"
  BY DEF BaseInv, TypeOK, Version, BeginUpgrade, Having
<1>3. /\ new \in Row /\ new.status = "DRAFT" /\ new.version = latest.id
      /\ new.snapshot = configs[id].snapshot /\ new.deleted = configs[id].deleted
  BY <1>1, <1>2 DEF Row
<1>4. Continue(r, reads) /\ MayStart(r, "upgrade", id)
  BY DEF BeginUpgrade, LoadDraft, Load
<1> HIDE DEF new
<1>5. /\ reads \in Request /\ reads.kind = "upgrade" /\ reads.at = "calculate"
      /\ reads.id = id /\ reads.old = configs[id] /\ reads.new = new
      /\ id \in 1..born
  <2>1. new \in Row
    BY <1>3
  <2>2. "upgrade" \in Kinds
    BY DEF Kinds
  <2> QED BY <2>1, <2>2, LoadedIs
<1> HIDE DEF reads
<1>6. Known(reads)
  BY <1>1, <1>3, <1>5 DEF Known, KindsAt
<1>7. Fits(reads)
  BY <1>1, <1>2, <1>3, <1>5
     DEF Fits, MakesDraft, ChangesDraft, Finalizes, Flags, FindsDraft, Unlists,
         Placed, Agrees
<1> QED BY <1>4, <1>5, <1>6, <1>7 DEF Starts

LEMMA FinalizeStarts ==
    ASSUME BaseInv, NEW r \in Requests, NEW id \in DOMAIN configs,
           BeginFinalize(r, id)
    PROVE  \E reads \in Request : Starts(r, reads)
<1> DEFINE new == [configs[id] EXCEPT !.status = "FINALIZED"]
           reads == Loaded("finalize", "calculate", id, new)
<1>1. configs[id] \in Row /\ configs[id].status = "DRAFT" /\ configs[id].complete
  BY DEF BaseInv, TypeOK, BeginFinalize, LoadDraft
<1>2. new \in Row
  BY <1>1 DEF Row
<1>3. Continue(r, reads) /\ MayStart(r, "finalize", id)
  BY DEF BeginFinalize, LoadDraft, Load
<1>4. /\ reads \in Request /\ reads.kind = "finalize" /\ reads.at = "calculate"
      /\ reads.id = id /\ reads.old = configs[id] /\ reads.new = new
      /\ id \in 1..born
  <2>1. new \in Row
    BY <1>2
  <2>2. "finalize" \in Kinds
    BY DEF Kinds
  <2> QED BY <2>1, <2>2, LoadedIs
<1> HIDE DEF reads
<1>5. Known(reads)
  BY <1>1, <1>2, <1>4 DEF Known, KindsAt
<1>6. RowsInv => Finalizes(reads)
  BY <1>1, <1>4 DEF RowsInv, Fine, Finalizes
<1>7. RowsInv => Fits(reads)
  BY <1>4, <1>6
     DEF Fits, MakesDraft, ChangesDraft, Flags, FindsDraft, Unlists
<1> QED BY <1>3, <1>4, <1>5, <1>7 DEF Starts

LEMMA DeleteStarts ==
    ASSUME BaseInv, NEW r \in Requests, NEW id \in DOMAIN configs,
           BeginDelete(r, id)
    PROVE  \E reads \in Request : Starts(r, reads)
<1>1. configs[id] \in Row /\ MayStart(r, "delete", id)
  BY DEF BaseInv, TypeOK, BeginDelete, Load
<1>2. CASE configs[id].status = "FINALIZED"
  <2> DEFINE reads == Loaded("delete", "update", id, Flagged(configs[id]))
  <2>1. Flagged(configs[id]) \in Row
    BY <1>1 DEF Flagged, Row
  <2>2. Continue(r, reads)
    BY <1>2 DEF BeginDelete, Flagged
  <2>3. /\ reads \in Request /\ reads.kind = "delete" /\ reads.at = "update"
        /\ reads.id = id /\ reads.old = configs[id]
        /\ reads.new = Flagged(configs[id]) /\ id \in 1..born
    <3>1. "delete" \in Kinds
      BY DEF Kinds
    <3> QED BY <2>1, <3>1, LoadedIs
  <2> HIDE DEF reads
  <2>4. Known(reads)
    BY <1>1, <2>1, <2>3 DEF Known, KindsAt
  <2>5. Fits(reads)
    BY <1>2, <2>3
       DEF Fits, MakesDraft, ChangesDraft, Finalizes, Flags, FindsDraft, Unlists
  <2> QED BY <1>1, <2>2, <2>3, <2>4, <2>5 DEF Starts
<1>3. CASE configs[id].status # "FINALIZED"
  <2> DEFINE reads == Loaded("delete", "delete", id, None)
  <2>1. Continue(r, reads)
    BY <1>3 DEF BeginDelete
  <2>2. /\ reads \in Request /\ reads.kind = "delete" /\ reads.at = "delete"
        /\ reads.id = id /\ reads.old = configs[id] /\ id \in 1..born
    <3>1. "delete" \in Kinds
      BY DEF Kinds
    <3> QED BY <3>1, LoadedIs
  <2> HIDE DEF reads
  <2>3. Known(reads)
    BY <1>1, <2>2 DEF Known, KindsAt
  <2>4. Fits(reads)
    BY <1>1, <1>3, <2>2
       DEF Fits, MakesDraft, ChangesDraft, Finalizes, Flags, FindsDraft, Unlists, Row
  <2> QED BY <1>1, <2>1, <2>2, <2>3, <2>4 DEF Starts
<1> QED BY <1>2, <1>3

LEMMA ItemLoaded ==
    ASSUME BaseInv, NEW kind \in Kinds, NEW id \in DOMAIN configs,
           NEW reads, reads = Loaded(kind, "item", id, None)
    PROVE  /\ reads \in Request /\ reads.kind = kind /\ reads.at = "item"
           /\ reads.id = id /\ reads.old = configs[id] /\ id \in 1..born
  BY LoadedIs

LEMMA ItemStarts ==
    ASSUME BaseInv, NEW r \in Requests, NEW id \in DOMAIN configs,
           NEW kind \in {"add item", "change item", "drop item"}, LoadDraft(r, kind, id),
           NEW reads \in Request, Continue(r, reads),
           reads.kind = kind, reads.at = "item", reads.id = id,
           reads.old = configs[id], id \in 1..born
    PROVE  Starts(r, reads)
<1>1. /\ configs[id] \in Row /\ configs[id].status = "DRAFT"
      /\ MayStart(r, kind, id)
  BY DEF BaseInv, TypeOK, LoadDraft, Load
<1>2. Known(reads)
  BY <1>1 DEF Known, KindsAt
<1>3. Fits(reads)
  BY <1>1
     DEF Fits, MakesDraft, ChangesDraft, Finalizes, Flags, FindsDraft, Unlists
<1> QED BY <1>1, <1>2, <1>3 DEF Starts

LEMMA AddItemStarts ==
    ASSUME BaseInv, NEW r \in Requests, NEW id \in DOMAIN configs, BeginAddItem(r, id)
    PROVE  \E reads \in Request : Starts(r, reads)
<1> DEFINE reads == Loaded("add item", "item", id, None)
<1>1. "add item" \in Kinds
  BY DEF Kinds
<1>2. /\ reads \in Request /\ reads.kind = "add item" /\ reads.at = "item"
      /\ reads.id = id /\ reads.old = configs[id] /\ id \in 1..born
  BY <1>1, ItemLoaded
<1>3. Continue(r, reads) /\ LoadDraft(r, "add item", id)
  BY DEF BeginAddItem
<1> HIDE DEF reads
<1> QED BY <1>2, <1>3, ItemStarts

LEMMA WriteItemStarts ==
    ASSUME BaseInv, NEW r \in Requests, NEW id \in DOMAIN configs,
           NEW kind \in {"change item", "drop item"}, NEW key \in Keys,
           BeginWriteItem(r, kind, id, key)
    PROVE  \E reads \in Request : Starts(r, reads)
<1> DEFINE plain == Loaded(kind, "item", id, None)
           reads == [plain EXCEPT !.arg = key]
<1>1. kind \in Kinds
  BY DEF Kinds
<1>2. /\ plain \in Request /\ plain.kind = kind /\ plain.at = "item"
      /\ plain.id = id /\ plain.old = configs[id] /\ id \in 1..born
  BY <1>1, ItemLoaded
<1>3. Continue(r, reads) /\ LoadDraft(r, kind, id)
  BY DEF BeginWriteItem
<1> HIDE DEF plain
<1>4. /\ reads \in Request /\ reads.kind = kind /\ reads.at = "item"
      /\ reads.id = id /\ reads.old = configs[id]
  BY <1>2 DEF Request
<1> HIDE DEF reads
<1> QED BY <1>2, <1>3, <1>4, ItemStarts

LEMMA DeleteListStarts ==
    ASSUME BaseInv, NEW r \in Requests, NEW list \in lists, BeginDeleteList(r, list)
    PROVE  \E reads \in Request : Starts(r, reads)
<1> DEFINE reads == [Idle EXCEPT !.kind = "delete list", !.at = "list", !.arg = list]
<1>1. Continue(r, reads) /\ MayStart(r, "delete list", 0)
  BY DEF BeginDeleteList
<1>2. list \in Lists
  BY DEF BaseInv, TypeOK
<1>3. /\ reads \in Request /\ reads.kind = "delete list" /\ reads.at = "list"
      /\ reads.id = 0 /\ reads.arg = list
  BY <1>2, IdleIs DEF Request, Kinds
<1> HIDE DEF reads
<1>4. Known(reads)
  BY <1>3 DEF Known, KindsAt
<1>5. Fits(reads)
  BY <1>3
     DEF Fits, MakesDraft, ChangesDraft, Finalizes, Flags, FindsDraft, Unlists,
         BeginDeleteList
<1> QED BY <1>1, <1>3, <1>4, <1>5 DEF Starts
-----------------------------------------------------------------------------
(* Handlers that go on without a write                                     *)

Goes(r, reads) ==
    /\ Continue(r, reads)
    /\ \/ reads.kind = "none"
       \/ reads.kind = req[r].kind /\ reads.id = req[r].id
    /\ Known(reads)
    /\ Fits(req[r]) => Fits(reads)

LEMMA EndGoes ==
    ASSUME NEW r \in Requests, End(r)
    PROVE  Goes(r, Idle)
<1>1. Known(Idle)
  BY IdleIs DEF Known, KindsAt
<1>2. Fits(Idle)
  BY IdleIs DEF Fits, MakesDraft, ChangesDraft, Finalizes, Flags, FindsDraft, Unlists
<1>3. Continue(r, Idle)
  BY DEF End
<1>4. Idle.kind = "none"
  BY DEF Idle
<1> QED BY <1>1, <1>2, <1>3, <1>4 DEF Goes

LEMMA RequestIs ==
    ASSUME BaseInv, NEW r \in Requests
    PROVE  /\ req[r] \in Request /\ Known(req[r])
           /\ born \in Nat /\ born <= MaxConfigs /\ 1..born \subseteq Ids
           /\ items \in [Ids -> SUBSET Item]
  BY MaxConfigsAssumption DEF BaseInv, TypeOK, KnownInv, Ids

(* What the engine is given and what comes of it.                          *)
LEMMA CalculationFits ==
    ASSUME BaseInv, NEW q \in Request, Known(q), q.at = "calculate",
           NEW v \in versions, v.id = q.new.version, NEW seen \in Cached(v),
           NEW lines \in SUBSET Item,
           q.kind # "create" => lines = items[q.id],
           NEW reads \in Request, reads.kind = q.kind, reads.id = q.id,
           reads.old = q.old,
           reads.at = IF q.kind = "create" THEN "insert" ELSE "update",
           reads.new = WithResult(q.new, Calculation(seen, q.new, lines)),
           Fits(q)
    PROVE  Fits(reads)
<1> DEFINE result == Calculation(seen, q.new, lines)
<1>1. /\ q.new \in Row
      /\ q.kind \in {"create", "update", "upgrade", "finalize"}
      /\ q.kind # "create" => q.old \in Row /\ q.id \in 1..born
  BY DEF Known, KindsAt
<1>2. /\ result \in Result /\ result.complete = Completes(seen, q.new.data)
      /\ result.market = market
  BY <1>1, CalculationIs
<1> HIDE DEF result
<1>3. /\ reads.new \in Row
      /\ reads.new.status = q.new.status /\ reads.new.version = q.new.version
      /\ reads.new.data = q.new.data /\ reads.new.list = q.new.list
      /\ reads.new.complete = Completes(seen, q.new.data)
      /\ reads.new.priced = market
      /\ reads.new.snapshot =
            IF q.new.status = "FINALIZED" THEN result ELSE q.new.snapshot
      /\ reads.new.deleted = q.new.deleted
  BY <1>1, <1>2, WithResultIs DEF result
<1>4. /\ \A u \in versions : u.id = v.id => u = v
      /\ seen.id = v.id
      /\ Untouched(v) =>
            Completes(seen, q.new.data) = Completes(v, q.new.data)
  BY CachedIs DEF BaseInv, KeyInv, TypeOK
<1>5. Placed(q.new) => Sound(reads.new) /\ v.status # "DRAFT"
  BY <1>3, <1>4 DEF Placed, Sound
<1>6. MakesDraft(reads)
  BY <1>1, <1>3, <1>5 DEF Fits, MakesDraft
<1>7. ChangesDraft(reads)
  BY <1>1, <1>3, <1>5 DEF Fits, ChangesDraft
<1>8. Finalizes(reads)
  <2> SUFFICES ASSUME q.kind = "finalize"
               PROVE  Finalizes(reads)
    BY DEF Finalizes
  <2>1. /\ q.old.status = "DRAFT" /\ q.old.complete /\ Sound(q.old)
        /\ q.new = [q.old EXCEPT !.status = "FINALIZED"]
        /\ q.id \in DOMAIN configs => configs[q.id] = q.old
    BY DEF Fits, Finalizes
  <2>2. /\ q.new.status = "FINALIZED" /\ q.new.version = q.old.version
        /\ q.new.data = q.old.data
    BY <1>1, <2>1 DEF Row
  <2>3. Placed(q.new)
    BY <2>1, <2>2 DEF Placed, Sound
  <2>4. Untouched(v) => q.old.complete = Completes(v, q.old.data)
    BY <1>4, <2>1, <2>2 DEF Sound
  <2>5. Untouched(v) => reads.new.complete
    BY <1>3, <1>4, <2>1, <2>2, <2>4
  <2>6. Sound(reads.new) /\ Whole(reads.new)
    BY <1>3, <1>5, <2>3, <2>5 DEF Whole
  <2>7. result = Snap(q.id, reads.new)
    BY <1>3, <1>4 DEF result, Calculation, Snap
  <2>8. Fine(q.id, reads.new) /\ reads.new.status = "FINALIZED"
    BY <1>3, <2>2, <2>6, <2>7 DEF Fine
  <2> QED BY <2>1, <2>8 DEF Finalizes
<1>9. Flags(reads) /\ FindsDraft(reads) /\ Unlists(reads)
  BY <1>1 DEF Flags, FindsDraft, Unlists
<1> QED BY <1>6, <1>7, <1>8, <1>9 DEF Fits

LEMMA CalculateGoes ==
    ASSUME BaseInv, NEW r \in Requests, Calculate(r)
    PROVE  \E reads \in Request : Goes(r, reads)
<1>1. CASE End(r)
  BY <1>1, EndGoes, IdleIs
<1>2. CASE ~End(r)
  <2> DEFINE q == req[r]
             lines == IF q.kind = "create" THEN {} ELSE items[q.id]
  <2>1. q \in Request /\ Known(q) /\ q.at = "calculate" /\ lines \in SUBSET Item
    BY RequestIs DEF Calculate, Known, KindsAt
  <2>2. PICK v \in versions : \E seen \in Cached(v) :
            /\ v.id = q.new.version
            /\ Continue(r, [q EXCEPT
                 !.at = IF q.kind = "create" THEN "insert" ELSE "update",
                 !.new = WithResult(@, Calculation(seen, @, lines))])
    BY <1>2 DEF Calculate
  <2>3. PICK seen \in Cached(v) :
            /\ v.id = q.new.version
            /\ Continue(r, [q EXCEPT
                 !.at = IF q.kind = "create" THEN "insert" ELSE "update",
                 !.new = WithResult(@, Calculation(seen, @, lines))])
    BY <2>2
  <2>4. q.kind # "create" => lines = items[q.id]
    OBVIOUS
  <2> DEFINE new == WithResult(q.new, Calculation(seen, q.new, lines))
             reads == [q EXCEPT
                 !.at = IF q.kind = "create" THEN "insert" ELSE "update",
                 !.new = new]
  <2>5. Continue(r, reads)
    BY <2>3
  <2> HIDE DEF q, lines
  <2>6. q.new \in Row /\ new \in Row
    <3>1. q.new \in Row
      BY <2>1 DEF Known
    <3> QED BY <2>1, <3>1, CalculationIs, WithResultIs
  <2> HIDE DEF new
  <2>7. /\ reads \in Request /\ reads.kind = q.kind /\ reads.id = q.id
        /\ reads.old = q.old /\ reads.new = new
        /\ reads.at = IF q.kind = "create" THEN "insert" ELSE "update"
    BY <2>1, <2>6 DEF Request
  <2> HIDE DEF reads
  <2>8. Known(reads)
    BY <2>1, <2>6, <2>7 DEF Known, KindsAt
  <2>9. Fits(q) => Fits(reads)
    BY <2>1, <2>4, <2>7, <2>3, CalculationFits DEF new
  <2> QED BY <2>5, <2>7, <2>8, <2>9 DEF Goes, q
<1> QED BY <1>1, <1>2

LEMMA ReadItemsGoes ==
    ASSUME BaseInv, NEW r \in Requests, ReadItems(r)
    PROVE  \E reads \in Request : Goes(r, reads)
<1> DEFINE q == req[r]
           reads == [q EXCEPT !.at = "insert", !.items = items[q.id]]
<1>1. q \in Request /\ Known(q) /\ q.at = "items"
  BY RequestIs DEF ReadItems
<1>2. items[q.id] \in SUBSET Item
  BY <1>1, RequestIs DEF Known, KindsAt
<1>3. Continue(r, reads)
  BY DEF ReadItems
<1> HIDE DEF q
<1>4. /\ reads \in Request /\ reads.kind = q.kind /\ reads.id = q.id
      /\ reads.old = q.old /\ reads.new = q.new /\ reads.at = "insert"
  BY <1>1, <1>2 DEF Request
<1> HIDE DEF reads
<1>5. q.kind = "clone" /\ Known(reads)
  BY <1>1, <1>4 DEF Known, KindsAt
<1>6. Fits(q) => Fits(reads)
  BY <1>1, <1>4, <1>5
     DEF Fits, MakesDraft, ChangesDraft, Finalizes, Flags, FindsDraft, Unlists
<1> QED BY <1>3, <1>4, <1>5, <1>6 DEF Goes, q
-----------------------------------------------------------------------------
(* Types, whatever overlaps                                                *)

(* What TypeOK says of the tables, once the rest is known.                 *)
Tables ==
    /\ born \in 0..MaxConfigs
    /\ DOMAIN configs \subseteq 1..born
    /\ \A id \in DOMAIN configs : configs[id] \in Row /\ RefersToRows(configs[id])
    /\ items \in [Ids -> SUBSET Item]
    /\ \A id \in Ids \ DOMAIN configs : items[id] = {}
    /\ lists \subseteq Lists
    /\ market \in Markets

LEMMA TablesSame ==
    ASSUME BaseInv, UNCHANGED <<contractVars, tables>>
    PROVE  Tables' /\ versions' \subseteq Version /\ KeyInv'
  BY DEF BaseInv, TypeOK, Tables, KeyInv, contractVars, tables, RefersToRows, VersionIds

LEMMA InsertTables ==
    ASSUME BaseInv, NEW r \in Requests, Insert(r)
    PROVE  Tables'
<1> DEFINE q == req[r]
<1>1. q.new \in Row /\ q.items \in SUBSET Item
  BY RequestIs DEF Insert, Known, Request
<1>2. /\ born \in 0..MaxConfigs /\ MaxConfigs \in Nat
      /\ DOMAIN configs \subseteq 1..born
      /\ \A id \in DOMAIN configs : configs[id] \in Row /\ RefersToRows(configs[id])
      /\ items \in [Ids -> SUBSET Item]
      /\ \A id \in Ids \ DOMAIN configs : items[id] = {}
      /\ lists \subseteq Lists /\ market \in Markets
  BY MaxConfigsAssumption DEF BaseInv, TypeOK
<1>3. CASE UNCHANGED <<configs, born, items>>
  BY <1>2, <1>3 DEF Tables, Insert, contractVars, RefersToRows, VersionIds
<1>4. CASE ~UNCHANGED <<configs, born, items>>
  <2>1. /\ born < MaxConfigs /\ RefersToRows(q.new) /\ born' = born + 1
        /\ configs' = [id \in DOMAIN configs \cup {born'} |->
                          IF id = born' THEN q.new ELSE configs[id]]
        /\ items' = [items EXCEPT ![born'] = q.items]
        /\ lists' = lists /\ market' = market
    BY <1>4 DEF Insert
  <2> HIDE DEF q
  <2>2. born' \in 0..MaxConfigs /\ born' \in Ids /\ DOMAIN configs' \subseteq 1..born'
    BY <1>2, <2>1 DEF Ids
  <2>3. \A id \in DOMAIN configs' : configs'[id] \in Row /\ RefersToRows(configs'[id])
    BY <1>1, <1>2, <2>1
  <2>4. items' \in [Ids -> SUBSET Item]
    BY <1>1, <1>2, <2>1
  <2>5. \A id \in Ids \ DOMAIN configs' : items'[id] = {}
    BY <1>2, <2>1, <2>2
  <2>6. versions' = versions /\ lists' \subseteq Lists /\ market' \in Markets
    BY <1>2, <2>1 DEF Insert, contractVars
  <2> QED BY <2>1, <2>2, <2>3, <2>4, <2>5, <2>6 DEF Tables, RefersToRows, VersionIds
<1> QED BY <1>3, <1>4

LEMMA UpdateTables ==
    ASSUME BaseInv, NEW r \in Requests, Update(r)
    PROVE  Tables'
<1> DEFINE q == req[r]
           merged == Merge(configs[q.id], q.old, q.new)
<1>1. q.new \in Row /\ q.old \in Row
  BY RequestIs DEF Update, Known, KindsAt
<1>2. q.id \in DOMAIN configs => merged \in Row
  BY <1>1, MergeIs DEF BaseInv, TypeOK
<1>3. /\ configs' = IF q.id \in DOMAIN configs /\ RefersToRows(merged)
                    THEN [configs EXCEPT ![q.id] = merged] ELSE configs
      /\ UNCHANGED <<contractVars, born, items, lists, market>>
  BY DEF Update
<1> HIDE DEF merged, q
<1>4. /\ DOMAIN configs' = DOMAIN configs
      /\ \A id \in DOMAIN configs : configs'[id] \in Row /\ RefersToRows(configs'[id])
  BY <1>2, <1>3 DEF BaseInv, TypeOK
<1> QED BY <1>3, <1>4 DEF Tables, BaseInv, TypeOK, contractVars, RefersToRows, VersionIds

LEMMA DeleteTables ==
    ASSUME BaseInv, NEW gone, Remove(gone),
           UNCHANGED <<contractVars, born, lists, market>>
    PROVE  Tables'
<1>1. /\ configs' = [id \in DOMAIN configs \ gone |-> configs[id]]
      /\ items' = [id \in Ids |-> IF id \in gone THEN {} ELSE items[id]]
  BY DEF Remove
<1>2. items' \in [Ids -> SUBSET Item] /\ \A id \in Ids \ DOMAIN configs' : items'[id] = {}
  BY <1>1 DEF BaseInv, TypeOK
<1> QED BY <1>1, <1>2 DEF Tables, BaseInv, TypeOK, contractVars, RefersToRows, VersionIds

LEMMA WriteItemTables ==
    ASSUME BaseInv, NEW r \in Requests, WriteItem(r)
    PROVE  Tables' /\ \A id \in Ids \ {req[r].id} : items'[id] = items[id]
<1> DEFINE q == req[r]
<1>1. q \in Request /\ q.id \in Ids /\ items \in [Ids -> SUBSET Item]
  BY RequestIs DEF WriteItem, Known, KindsAt
<1>2. UNCHANGED <<contractVars, configs, born, lists, market>>
  BY DEF WriteItem
<1>3. /\ items' \in [Ids -> SUBSET Item]
      /\ \A id \in Ids \ {q.id} : items'[id] = items[id]
      /\ q.id \notin DOMAIN configs => items'[q.id] = {}
  <2>1. CASE q.id \in DOMAIN configs /\ AddItem(r, q.id)
    BY <1>1, <2>1 DEF AddItem
  <2>2. CASE q.arg \in KeysOf(q.id) /\ ChangeItem(r, q.id, q.arg)
    <3>1. q.arg \in Keys /\ q.id \in DOMAIN configs
      BY <1>1, <2>2 DEF KeysOf, Item, BaseInv, TypeOK
    <3>2. PICK terms \in Terms : items' = [items EXCEPT ![q.id] =
              Others(q.id, q.arg) \cup {[key |-> q.arg, terms |-> terms]}]
      BY <2>2 DEF ChangeItem
    <3>3. [key |-> q.arg, terms |-> terms] \in Item
      BY <3>1 DEF Item
    <3>4. Others(q.id, q.arg) \in SUBSET Item
      BY <1>1 DEF Others
    <3> QED BY <1>1, <3>1, <3>2, <3>3, <3>4
  <2>3. CASE DropItem(r, q.id, q.arg)
    BY <1>1, <2>3 DEF DropItem, Others, BaseInv, TypeOK
  <2>4. CASE UNCHANGED items
    BY <1>1, <2>4 DEF BaseInv, TypeOK
  <2> QED BY <2>1, <2>2, <2>3, <2>4 DEF WriteItem
<1> QED BY <1>1, <1>2, <1>3 DEF Tables, BaseInv, TypeOK, contractVars, RefersToRows, VersionIds

(* The row without the list that is gone.                                  *)
Unlisted(row, gone) == [row EXCEPT !.list = IF @ = gone THEN None ELSE @]

LEMMA UnlistedIs ==
    ASSUME NEW row \in Row, NEW gone
    PROVE  /\ Unlisted(row, gone) \in Row
           /\ Agrees(Unlisted(row, gone), row)
           /\ Unlisted(row, gone).list = IF row.list = gone THEN None ELSE row.list
           /\ row.list # gone => Unlisted(row, gone) = row
<1>1. /\ Unlisted(row, gone) \in Row
      /\ Agrees(Unlisted(row, gone), row)
      /\ Unlisted(row, gone).list = IF row.list = gone THEN None ELSE row.list
  BY DEF Unlisted, Agrees, Row
<1> QED BY <1>1, RowEqual DEF Agrees

LEMMA DeleteListTables ==
    ASSUME BaseInv, NEW r \in Requests, DeleteList(r)
    PROVE  Tables'
<1> DEFINE gone == req[r].arg
<1>1. /\ lists' = lists \ {gone}
      /\ configs' = [id \in DOMAIN configs |-> Unlisted(configs[id], gone)]
      /\ UNCHANGED <<contractVars, born, items, market>>
  BY DEF DeleteList, Unlisted
<1> HIDE DEF gone
<1>2. \A id \in DOMAIN configs :
          /\ configs[id] \in Row /\ RefersToRows(configs[id])
          /\ configs'[id] \in Row /\ configs'[id].version = configs[id].version
          /\ configs'[id].list = IF configs[id].list = gone THEN None ELSE configs[id].list
  BY <1>1, UnlistedIs DEF BaseInv, TypeOK, Agrees
<1> QED BY <1>1, <1>2 DEF Tables, BaseInv, TypeOK, contractVars, RefersToRows, VersionIds

LEMMA ChangeVersionTables ==
    ASSUME BaseInv, ChangeVersion
    PROVE  Tables'
<1>1. VersionIds \subseteq VersionIds'
  BY ContractIds DEF ChangeVersion
<1> QED BY <1>1 DEF ChangeVersion, tables, Tables, BaseInv, TypeOK, RefersToRows

LEMMA DeleteVersionTables ==
    ASSUME BaseInv, NEW v \in versions, DeleteVersion(v)
    PROVE  Tables'
<1>1. VersionIds' = VersionIds \ {v.id}
  BY ContractIds DEF DeleteVersion
<1> DEFINE gone == {id \in DOMAIN configs : configs[id].version = v.id}
<1>2. /\ configs' = [id \in DOMAIN configs \ gone |-> configs[id]]
      /\ items' = [id \in Ids |-> IF id \in gone THEN {} ELSE items[id]]
      /\ UNCHANGED <<born, lists, market>>
  BY DEF DeleteVersion, Remove
<1>3. items' \in [Ids -> SUBSET Item] /\ \A id \in Ids \ DOMAIN configs' : items'[id] = {}
  BY <1>2 DEF BaseInv, TypeOK
<1> QED BY <1>1, <1>2, <1>3 DEF Tables, BaseInv, TypeOK, RefersToRows

LEMMA ChangePricesTables ==
    ASSUME BaseInv, ChangePrices
    PROVE  Tables'
  BY DEF ChangePrices, Tables, BaseInv, TypeOK, contractVars, RefersToRows, VersionIds

-----------------------------------------------------------------------------
(* Every step                                                              *)

Quiet == UNCHANGED <<contractVars, tables>>

LEMMA QuietBase ==
    ASSUME BaseInv, Quiet, NEW r \in Requests, NEW reads \in Request,
           Starts(r, reads) \/ Goes(r, reads)
    PROVE  BaseInv'
<1>1. /\ Continue(r, reads) /\ Known(reads)
      /\ \/ reads.kind = "none"
         \/ reads.kind = req[r].kind /\ reads.id = req[r].id
         \/ MayStart(r, reads.kind, reads.id)
  BY DEF Starts, Goes
<1>2. born' = born /\ born \in Nat
  BY RequestIs DEF Quiet, tables
<1>3. req' \in [Requests -> Request] /\ KnownInv' /\ ConflictInv'
  BY <1>1, <1>2, ContinueBase
<1>4. Tables' /\ versions' \subseteq Version /\ KeyInv'
  BY TablesSame DEF Quiet
<1> QED BY <1>3, <1>4 DEF BaseInv, TypeOK, Tables

LEMMA WriteBase ==
    ASSUME BaseInv, NEW r \in Requests, End(r), Tables', UNCHANGED contractVars,
           born <= born'
    PROVE  BaseInv'
<1>1. born' \in Nat
  BY MaxConfigsAssumption DEF Tables
<1>2. req' \in [Requests -> Request] /\ KnownInv' /\ ConflictInv'
  BY <1>1, EndBase
<1>3. versions' \subseteq Version /\ KeyInv'
  BY DEF BaseInv, TypeOK, KeyInv, contractVars
<1> QED BY <1>2, <1>3 DEF BaseInv, TypeOK, Tables

LEMMA VersionBase ==
    ASSUME BaseInv, ContractNext, Tables', UNCHANGED <<born, req>>
    PROVE  BaseInv'
<1>1. versions' \subseteq Version /\ KeyInv'
  BY ContractKeeps
<1>2. KnownInv' /\ ConflictInv' /\ req' \in [Requests -> Request]
  BY DEF BaseInv, TypeOK, KnownInv, Known, ConflictInv
<1> QED BY <1>1, <1>2 DEF BaseInv, TypeOK, Tables

(* The steps that write nothing.                                           *)
QuietStep(r) ==
    /\ Quiet
    /\ \E reads \in Request : Starts(r, reads) \/ Goes(r, reads)

LEMMA BeginIsQuiet ==
    ASSUME BaseInv, NEW r \in Requests, NEW id \in DOMAIN configs, Begin(r, id)
    PROVE  QuietStep(r)
<1>1. ASSUME BeginClone(r, id) PROVE QuietStep(r)
  BY <1>1, CloneStarts DEF QuietStep, Quiet, BeginClone
<1>2. ASSUME NEW data \in Enterable(configs[id].version) \cup {configs[id].data},
             NEW list \in lists \cup {None}, BeginUpdate(r, id, data, list)
      PROVE  QuietStep(r)
  BY <1>2, UpdateStarts DEF QuietStep, Quiet, BeginUpdate
<1>3. ASSUME NEW v \in versions, BeginUpgrade(r, id, v) PROVE QuietStep(r)
  BY <1>3, UpgradeStarts DEF QuietStep, Quiet, BeginUpgrade
<1>4. ASSUME BeginFinalize(r, id) PROVE QuietStep(r)
  BY <1>4, FinalizeStarts DEF QuietStep, Quiet, BeginFinalize
<1>5. ASSUME BeginDelete(r, id) PROVE QuietStep(r)
  BY <1>5, DeleteStarts DEF QuietStep, Quiet, BeginDelete
<1>6. ASSUME BeginAddItem(r, id) PROVE QuietStep(r)
  BY <1>6, AddItemStarts DEF QuietStep, Quiet, BeginAddItem
<1>7. ASSUME NEW kind \in {"change item", "drop item"}, NEW key \in Keys,
             BeginWriteItem(r, kind, id, key)
      PROVE  QuietStep(r)
  BY <1>7, WriteItemStarts DEF QuietStep, Quiet, BeginWriteItem
<1> QED BY <1>1, <1>2, <1>3, <1>4, <1>5, <1>6, <1>7 DEF Begin

LEMMA RequestIsQuiet ==
    ASSUME BaseInv, NEW r \in Requests,
           \/ \E role \in Roles, v \in versions, list \in lists :
                 \E data \in Enterable(v.id) : BeginCreate(r, role, v, data, list)
           \/ \E id \in DOMAIN configs : Begin(r, id)
           \/ \E list \in lists : BeginDeleteList(r, list)
           \/ Calculate(r)
           \/ ReadItems(r)
    PROVE  QuietStep(r)
<1>1. ASSUME NEW role \in Roles, NEW v \in versions, NEW list \in lists,
             NEW data \in Enterable(v.id), BeginCreate(r, role, v, data, list)
      PROVE  QuietStep(r)
  BY <1>1, CreateStarts DEF QuietStep, Quiet, BeginCreate
<1>2. ASSUME NEW list \in lists, BeginDeleteList(r, list) PROVE QuietStep(r)
  BY <1>2, DeleteListStarts DEF QuietStep, Quiet, BeginDeleteList
<1>3. ASSUME Calculate(r) PROVE QuietStep(r)
  BY <1>3, CalculateGoes DEF QuietStep, Quiet, Calculate
<1>4. ASSUME ReadItems(r) PROVE QuietStep(r)
  BY <1>4, ReadItemsGoes DEF QuietStep, Quiet, ReadItems
<1> QED BY <1>1, <1>2, <1>3, <1>4, BeginIsQuiet

(* Versions and prices change by themselves, or a version takes            *)
(* configurations with it.                                                 *)
VersionStep ==
    ChangeVersion \/ ChangePrices \/ \E v \in versions : DeleteVersion(v)

LEMMA StepIs ==
    ASSUME BaseInv, Next
    PROVE  \/ \E r \in Requests :
                 \/ QuietStep(r) \/ Insert(r) \/ Update(r) \/ Delete(r)
                 \/ WriteItem(r) \/ DeleteList(r)
           \/ VersionStep
  BY RequestIsQuiet DEF Next, Step, VersionStep

LEMMA NextBase == BaseInv /\ [Next]_vars => BaseInv'
<1> SUFFICES ASSUME BaseInv, [Next]_vars PROVE BaseInv'
  OBVIOUS
<1> born \in Nat
  BY MaxConfigsAssumption DEF BaseInv, TypeOK
<1>1. ASSUME NEW r \in Requests, QuietStep(r) PROVE BaseInv'
  BY <1>1, QuietBase DEF QuietStep
<1>2. ASSUME NEW r \in Requests, Insert(r) PROVE BaseInv'
  <2>1. Tables'
    BY <1>2, InsertTables
  <2>2. UNCHANGED contractVars
    BY <1>2 DEF Insert
  <2>3. born <= born'
    BY <1>2 DEF Insert
  <2> QED BY <1>2, <2>1, <2>2, <2>3, WriteBase DEF Insert
<1>3. ASSUME NEW r \in Requests, Update(r) PROVE BaseInv'
  <2>1. Tables' /\ born <= born' /\ UNCHANGED contractVars
    BY <1>3, UpdateTables DEF Update
  <2> QED BY <1>3, <2>1, WriteBase DEF Update
<1>4. ASSUME NEW r \in Requests, Delete(r) PROVE BaseInv'
  <2>1. Remove({req[r].id}) /\ UNCHANGED <<contractVars, born, lists, market>>
    BY <1>4 DEF Delete
  <2>2. Tables'
    BY <2>1, DeleteTables
  <2>3. born <= born' /\ UNCHANGED contractVars
    BY <2>1
  <2> QED BY <1>4, <2>2, <2>3, WriteBase DEF Delete
<1>5. ASSUME NEW r \in Requests, WriteItem(r) PROVE BaseInv'
  <2>1. Tables'
    BY <1>5, WriteItemTables
  <2>2. UNCHANGED contractVars /\ born' = born /\ End(r)
    BY <1>5 DEF WriteItem
  <2> QED BY <2>1, <2>2, WriteBase
<1>6. ASSUME NEW r \in Requests, DeleteList(r) PROVE BaseInv'
  <2>1. Tables'
    BY <1>6, DeleteListTables
  <2>2. UNCHANGED contractVars /\ born' = born /\ End(r)
    BY <1>6 DEF DeleteList
  <2> QED BY <2>1, <2>2, WriteBase
<1>7. CASE ChangeVersion
  <2>1. Tables' /\ ContractNext /\ UNCHANGED <<born, req>>
    BY <1>7, ChangeVersionTables DEF ChangeVersion, ContractNext, tables
  <2> QED BY <2>1, VersionBase
<1>8. ASSUME NEW v \in versions, DeleteVersion(v) PROVE BaseInv'
  <2>1. Tables' /\ ContractNext /\ UNCHANGED <<born, req>>
    BY <1>8, DeleteVersionTables DEF DeleteVersion, ContractNext
  <2> QED BY <2>1, VersionBase
<1>9. CASE ChangePrices
  <2>1. Tables'
    BY <1>9, ChangePricesTables
  <2>2. versions' \subseteq Version /\ KeyInv'
    BY <1>9 DEF ChangePrices, BaseInv, TypeOK, KeyInv, contractVars
  <2>3. KnownInv' /\ ConflictInv' /\ req' \in [Requests -> Request]
    BY <1>9 DEF ChangePrices, BaseInv, TypeOK, KnownInv, Known, ConflictInv
  <2> QED BY <2>1, <2>2, <2>3 DEF BaseInv, TypeOK, Tables
<1>10. CASE UNCHANGED vars
  <2>1. Tables' /\ versions' \subseteq Version /\ KeyInv'
    BY <1>10, TablesSame DEF vars
  <2> QED BY <1>10, <2>1
       DEF BaseInv, TypeOK, Tables, KnownInv, Known, ConflictInv, vars, tables
<1> QED BY <1>1, <1>2, <1>3, <1>4, <1>5, <1>6, <1>7, <1>8, <1>9, <1>10, StepIs
   DEF VersionStep

LEMMA BaseInvariance == Spec => []BaseInv
<1> QED BY InitBase, NextBase, PTL DEF Spec

(* Rows hold what their columns may hold, their references lead to rows,   *)
(* and only a configuration that exists has custom items, whatever         *)
(* handlers overlap.                                                       *)
THEOREM TypeCorrect == Spec => []TypeOK
<1>1. BaseInv => TypeOK
  BY DEF BaseInv
<1> QED BY <1>1, BaseInvariance, PTL

-----------------------------------------------------------------------------
(* What has to be queued, and what follows for two handlers in flight      *)

Inputs == {"update", "upgrade"}

Behind == {"update", "upgrade", "finalize", "delete", "add item",
           "change item", "drop item", "delete list"}

(* The handlers that change the inputs of a configuration wait for one     *)
(* another, and a finalization for whatever touches what it freezes, other *)
(* finalizations included.                                                 *)
EnoughQueued ==
    /\ \A x, y \in Inputs : {x, y} \in Conflicts
    /\ \A x \in Behind : {"finalize", x} \in Conflicts

LEMMA ApartIs ==
    ASSUME BaseInv, EnoughQueued, NEW r \in Requests, NEW p \in Requests, r # p
    PROVE  /\ req[r].kind \in Inputs /\ req[p].kind \in Inputs => req[r].id # req[p].id
           /\ req[r].kind = "finalize" /\ req[p].kind \in Behind =>
                 req[r].id # req[p].id /\ req[p].kind # "delete list"
           /\ req[p].kind = "finalize" /\ req[r].kind \in Behind =>
                 req[r].id # req[p].id /\ req[r].kind # "delete list"
<1>1. Known(req[r]) /\ Known(req[p])
  BY RequestIs
<1>2. {req[r].kind, req[p].kind} \in Conflicts =>
         req[r].id # req[p].id /\ req[r].id # 0 /\ req[p].id # 0
  BY DEF BaseInv, ConflictInv, Overlap
<1>3. req[r].kind \in Inputs /\ req[p].kind \in Inputs =>
         {req[r].kind, req[p].kind} \in Conflicts
  BY DEF EnoughQueued
<1>4. req[r].kind = "finalize" /\ req[p].kind \in Behind =>
         {req[r].kind, req[p].kind} \in Conflicts
  BY DEF EnoughQueued
<1>5. req[p].kind = "finalize" /\ req[r].kind \in Behind =>
         {req[r].kind, req[p].kind} \in Conflicts
  <2>1. {req[r].kind, req[p].kind} = {req[p].kind, req[r].kind}
    OBVIOUS
  <2> QED BY <2>1 DEF EnoughQueued
<1>6. /\ req[r].kind = "delete list" => req[r].id = 0
      /\ req[p].kind = "delete list" => req[p].id = 0
  BY <1>1 DEF Known
<1> QED BY <1>2, <1>3, <1>4, <1>5, <1>6

KeepsVersions == \A v \in versions : v.status # "DRAFT" => \E w \in versions' : Kept(v, w)

LEMMA SoundKept ==
    ASSUME KeepsVersions, NEW row
    PROVE  /\ Placed(row) => Placed(row)'
           /\ Sound(row) => Sound(row)'
           /\ Whole(row) => Whole(row)'
<1>1. \A v, w, data : Kept(v, w) /\ Untouched(w) =>
          Untouched(v) /\ Completes(w, data) = Completes(v, data)
  BY DEF Kept, Completes, Seen
<1>2. Placed(row) => Placed(row)'
  BY DEF Placed, KeepsVersions, Kept
<1>3. Sound(row) => Sound(row)'
  BY <1>1 DEF Sound, KeepsVersions, Kept
<1>4. Whole(row) => Whole(row)'
  BY <1>1 DEF Whole, KeepsVersions, Kept
<1> QED BY <1>2, <1>3, <1>4

(* What a step may do to the row a handler q works on.                     *)
Spares(q) ==
    /\ KeepsVersions
    /\ q.kind # "none" /\ q.id \in DOMAIN configs' => q.id \in DOMAIN configs
    /\ q.id \in DOMAIN configs' =>
          /\ q.kind \in Inputs => Agrees(configs'[q.id], configs[q.id])
          /\ q.kind = "finalize" => configs'[q.id] = configs[q.id]
          /\ q.kind = "delete" /\ q.at = "update" =>
                configs'[q.id] \in {configs[q.id], Flagged(configs[q.id])}
          /\ q.at \in {"delete", "item"} => configs'[q.id].status = configs[q.id].status
    /\ q.kind = "finalize" => items'[q.id] = items[q.id]
    /\ q.at = "list" =>
          \A id \in DOMAIN configs' :
              configs'[id].status = "FINALIZED" =>
                  /\ id \in DOMAIN configs /\ configs[id].status = "FINALIZED"
                  /\ configs[id].list # q.arg => configs'[id].list # q.arg

LEMMA FlaggedIs ==
    ASSUME NEW row \in Row
    PROVE  /\ Flagged(row) \in Row /\ Flagged(Flagged(row)) = Flagged(row)
           /\ Flagged(row).status = row.status /\ Flagged(row).version = row.version
           /\ Flagged(row).data = row.data /\ Flagged(row).list = row.list
           /\ Flagged(row).complete = row.complete
           /\ Flagged(row).priced = row.priced
           /\ Flagged(row).snapshot = row.snapshot
           /\ Flagged(row).deleted = TRUE
  BY DEF Flagged, Row

LEMMA OtherFits ==
    ASSUME NEW q, Known(q), Fits(q), Spares(q)
    PROVE  Fits(q)'
<1>1. /\ Placed(q.new) => Placed(q.new)'
      /\ Sound(q.new) => Sound(q.new)'
      /\ Sound(q.old) => Sound(q.old)'
  BY SoundKept DEF Spares
<1>2. MakesDraft(q)'
  BY <1>1 DEF Fits, MakesDraft
<1>3. ChangesDraft(q)'
  BY <1>1 DEF Fits, ChangesDraft, Spares, Inputs, Agrees
<1>4. Finalizes(q)'
  <2> SUFFICES ASSUME q.kind = "finalize" PROVE Finalizes(q)'
    BY DEF Finalizes
  <2>1. Fine(q.id, q.new) => Fine(q.id, q.new)'
    BY SoundKept DEF Fine, Snap, Spares
  <2> QED BY <1>1, <2>1 DEF Fits, Finalizes, Spares
<1>5. Flags(q)'
  <2> SUFFICES ASSUME q.kind = "delete", q.at = "update", q.id \in DOMAIN configs'
               PROVE  configs'[q.id] \in {q.old, Flagged(q.old)}
    BY DEF Fits, Flags
  <2>1. q.old \in Row
    BY DEF Known
  <2>2. /\ configs[q.id] \in {q.old, Flagged(q.old)}
        /\ configs'[q.id] \in {configs[q.id], Flagged(configs[q.id])}
    BY DEF Fits, Flags, Spares
  <2> QED BY <2>1, <2>2, FlaggedIs
<1>6. FindsDraft(q)'
  <2>1. q.at \in {"delete", "item"} => q.kind # "none"
    BY DEF Known, KindsAt
  <2> QED BY <2>1 DEF Fits, FindsDraft, Spares
<1>7. Unlists(q)'
  BY DEF Fits, Unlists, Spares
<1> QED BY <1>2, <1>3, <1>4, <1>5, <1>6, <1>7 DEF Fits

LEMMA AllFit ==
    ASSUME \A p \in Requests : \E q : q = req'[p] /\ Fits(q)'
    PROVE  FitsInv'
<1>1. ASSUME NEW p \in Requests PROVE Fits(req[p])'
  <2>1. PICK q : q = req'[p] /\ Fits(q)'
    OBVIOUS
  <2>2. MakesDraft(req[p])'
    BY <2>1 DEF Fits, MakesDraft, Placed, Sound
  <2>3. ChangesDraft(req[p])'
    BY <2>1 DEF Fits, ChangesDraft, Placed, Sound, Agrees
  <2>4. Finalizes(req[p])'
    BY <2>1 DEF Fits, Finalizes, Fine, Sound, Whole, Snap
  <2>5. Flags(req[p])'
    BY <2>1 DEF Fits, Flags, Flagged
  <2>6. FindsDraft(req[p])' /\ Unlists(req[p])'
    BY <2>1 DEF Fits, FindsDraft, Unlists
  <2> QED BY <2>2, <2>3, <2>4, <2>5, <2>6 DEF Fits
<1> QED BY <1>1 DEF FitsInv

(* Every handler but r is spared by a step that ends r.                    *)
LEMMA WriteFits ==
    ASSUME BaseInv, FitsInv, NEW r \in Requests, End(r), born <= born', born' \in Nat,
           \A p \in Requests \ {r} : Spares(req[p])
    PROVE  FitsInv'
<1>1. req'[r] = Idle /\ \A p \in Requests \ {r} : req'[p] = req[p]
  BY EndBase
<1>2. ASSUME NEW p \in Requests \ {r}
      PROVE  \E q : q = req'[p] /\ Fits(q)'
  <2>1. PICK q : q = req[p]
    OBVIOUS
  <2>2. Known(q) /\ Fits(q) /\ Spares(q)
    BY <2>1, RequestIs DEF FitsInv
  <2> QED BY <1>1, <2>1, <2>2, OtherFits
<1>3. \E q : q = req'[r] /\ Fits(q)'
  <2>1. PICK q : q = Idle
    OBVIOUS
  <2>2. Fits(q)'
    BY <2>1, IdleIs
       DEF Fits, MakesDraft, ChangesDraft, Finalizes, Flags, FindsDraft, Unlists
  <2> QED BY <1>1, <2>1, <2>2
<1>4. \A p \in Requests : \E q : q = req'[p] /\ Fits(q)'
  BY <1>2, <1>3
<1> QED BY <1>4, AllFit

LEMMA RowsFine ==
    ASSUME \A id \in DOMAIN configs' : \E row : row = configs'[id] /\ Fine(id, row)'
    PROVE  RowsInv'
<1>1. ASSUME NEW id \in DOMAIN configs' PROVE Fine(id, configs[id])'
  <2>1. PICK row : row = configs'[id] /\ Fine(id, row)'
    OBVIOUS
  <2>2. Sound(configs[id])'
    BY <2>1 DEF Fine, Sound
  <2>3. configs'[id].status = "FINALIZED" => Whole(configs[id])'
    BY <2>1 DEF Fine, Whole
  <2>4. configs'[id].status = "FINALIZED"
           => configs'[id].snapshot = Snap(id, configs[id])'
    BY <2>1 DEF Fine, Snap
  <2> QED BY <2>2, <2>3, <2>4 DEF Fine
<1> QED BY <1>1 DEF RowsInv

(* A row that lost its price list as a DRAFT, was flagged, or is the same. *)
LEMMA SameFine ==
    ASSUME KeepsVersions, NEW id, NEW old, NEW row, Fine(id, old),
           row.status = old.status, row.version = old.version, row.data = old.data,
           row.complete = old.complete, row.priced = old.priced,
           row.snapshot = old.snapshot,
           old.status = "FINALIZED" => items'[id] = items[id] /\ row.list = old.list
    PROVE  Fine(id, row)'
<1>1. Sound(row) /\ (row.status = "FINALIZED" => Whole(row))
  BY DEF Fine, Sound, Whole
<1>2. Sound(row)' /\ (row.status = "FINALIZED" => Whole(row)')
  BY <1>1, SoundKept
<1>3. row.status = "FINALIZED" => Snap(id, row)' = Snap(id, old)
  BY DEF Snap
<1> QED BY <1>2, <1>3 DEF Fine

LEMMA StillFine ==
    ASSUME RowsInv, KeepsVersions, NEW id \in DOMAIN configs, configs'[id] = configs[id],
           configs[id].status = "FINALIZED" => items'[id] = items[id]
    PROVE  \E row : row = configs'[id] /\ Fine(id, row)'
<1>1. PICK row : row = configs[id]
  OBVIOUS
<1>2. Fine(id, row)
  BY <1>1 DEF RowsInv
<1>3. Fine(id, row)'
  BY <1>1, <1>2, SameFine
<1> QED BY <1>1, <1>3

LEMMA VersionsSame == ASSUME UNCHANGED contractVars PROVE KeepsVersions
  BY DEF KeepsVersions, Kept, contractVars

-----------------------------------------------------------------------------
(* Every step keeps the promises, once enough is queued                    *)

Inv == BaseInv /\ RowsInv /\ FitsInv

LEMMA SameSpares ==
    ASSUME UNCHANGED <<contractVars, configs, items>>, NEW q
    PROVE  Spares(q)
<1>1. KeepsVersions
  BY VersionsSame
<1> QED BY <1>1 DEF Spares, Agrees

LEMMA SameRows ==
    ASSUME RowsInv, UNCHANGED <<contractVars, configs, items>>
    PROVE  RowsInv'
<1>1. KeepsVersions
  BY VersionsSame
<1>2. \A id \in DOMAIN configs' : \E row : row = configs'[id] /\ Fine(id, row)'
  BY <1>1, StillFine
<1> QED BY <1>2, RowsFine

LEMMA QuietInv ==
    ASSUME UsersOnly, Inv, NEW r \in Requests, QuietStep(r)
    PROVE  RowsInv' /\ FitsInv'
<1>1. UNCHANGED <<contractVars, configs, born, items>>
  BY DEF QuietStep, Quiet, tables
<1>2. RowsInv'
  BY <1>1, SameRows DEF Inv
<1>3. PICK reads \in Request : Starts(r, reads) \/ Goes(r, reads)
  BY DEF QuietStep
<1>4. Known(reads) /\ Fits(reads)
  BY <1>3 DEF Starts, Goes, Inv, FitsInv
<1>5. req'[r] = reads /\ \A p \in Requests \ {r} : req'[p] = req[p]
  <2>1. /\ Continue(r, reads)
        /\ \/ reads.kind = "none"
           \/ reads.kind = req[r].kind /\ reads.id = req[r].id
           \/ MayStart(r, reads.kind, reads.id)
    BY <1>3 DEF Starts, Goes
  <2>2. born' \in Nat /\ born <= born' /\ BaseInv
    BY <1>1, RequestIs DEF Inv
  <2> QED BY <1>4, <2>1, <2>2, ContinueBase
<1>6. ASSUME NEW p \in Requests
      PROVE  \E q : q = req'[p] /\ Fits(q)'
  <2>1. PICK q : q = req'[p]
    OBVIOUS
  <2>2. Known(q) /\ Fits(q)
    BY <1>4, <1>5, <2>1, RequestIs DEF Inv, FitsInv
  <2> QED BY <1>1, <2>1, <2>2, SameSpares, OtherFits
<1> QED BY <1>2, <1>6, AllFit

LEMMA InsertInv ==
    ASSUME Inv, NEW r \in Requests, Insert(r)
    PROVE  RowsInv' /\ FitsInv'
<1> DEFINE q == req[r]
<1>1. /\ BaseInv /\ RowsInv /\ FitsInv /\ End(r) /\ KeepsVersions
      /\ q.new \in Row /\ Sound(q.new) /\ q.new.status = "DRAFT"
      /\ born \in Nat
  <2>1. q.at = "insert" /\ Known(q) /\ Fits(q) /\ BaseInv
    BY RequestIs DEF Inv, Insert, FitsInv
  <2>2. q.new \in Row /\ Sound(q.new) /\ q.new.status = "DRAFT"
    BY <2>1 DEF Known, KindsAt, Fits, MakesDraft
  <2> QED BY <2>1, <2>2, RequestIs, VersionsSame DEF Inv, Insert
<1> HIDE DEF q
<1>2. CASE UNCHANGED <<configs, born, items>>
  <2>1. UNCHANGED <<contractVars, configs, items>>
    BY <1>2 DEF Insert
  <2> QED BY <1>1, <1>2, <2>1, SameSpares, SameRows, WriteFits
<1>3. CASE ~UNCHANGED <<configs, born, items>>
  <2>1. /\ born' = born + 1
        /\ configs' = [id \in DOMAIN configs \cup {born'} |->
                          IF id = born' THEN q.new ELSE configs[id]]
        /\ items' = [items EXCEPT ![born'] = q.items]
    BY <1>3 DEF Insert, q
  <2>2. DOMAIN configs \subseteq 1..born /\ items \in [Ids -> SUBSET Item]
    BY <1>1 DEF BaseInv, TypeOK
  <2>3. ASSUME NEW p \in Requests \ {r} PROVE Spares(req[p])
    <3>1. PICK other : other = req[p]
      OBVIOUS
    <3>2. Known(other)
      BY <1>1, <3>1, RequestIs
    <3>3. other.id = 0 \/ other.id \in 1..born
      BY <3>2 DEF Known
    <3>4. other.kind = "finalize" => other.id \in 1..born /\ other.id \in Ids
      BY <1>1, <3>2, RequestIs DEF Known
    <3>5. other.id \in DOMAIN configs' =>
             other.id \in DOMAIN configs /\ configs'[other.id] = configs[other.id]
      BY <1>1, <2>1, <2>2, <3>3
    <3>6. other.kind = "finalize" => items'[other.id] = items[other.id]
      BY <1>1, <2>1, <2>2, <3>4
    <3>7. \A id \in DOMAIN configs' : configs'[id].status = "FINALIZED" =>
             id \in DOMAIN configs /\ configs'[id] = configs[id]
      BY <1>1, <2>1, <2>2
    <3> QED BY <1>1, <3>1, <3>5, <3>6, <3>7 DEF Spares, Agrees
  <2>4. FitsInv'
    BY <1>1, <2>1, <2>3, WriteFits
  <2>5. ASSUME NEW id \in DOMAIN configs'
        PROVE  \E row : row = configs'[id] /\ Fine(id, row)'
    <3>1. CASE id = born'
      <4>1. PICK row : row = q.new
        OBVIOUS
      <4>2. Sound(row)' /\ row.status = "DRAFT"
        BY <1>1, <4>1, SoundKept
      <4> QED BY <2>1, <3>1, <4>1, <4>2 DEF Fine
    <3>2. CASE id # born'
      <4>1. id \in DOMAIN configs /\ configs'[id] = configs[id]
        BY <2>1, <3>2
      <4>2. id \in Ids
        BY <1>1, <2>2, <4>1, RequestIs
      <4>3. items'[id] = items[id]
        BY <2>1, <2>2, <3>2, <4>2
      <4> QED BY <1>1, <4>1, <4>3, StillFine
    <3> QED BY <3>1, <3>2
  <2> QED BY <2>4, <2>5, RowsFine
<1> QED BY <1>2, <1>3

(* What an UPDATE leaves in the row, when there is one.                    *)
LEMMA UpdateIs ==
    ASSUME Inv, NEW r \in Requests, Update(r), UNCHANGED configs => FALSE
    PROVE  LET q == req[r]
               row == configs'[q.id]
           IN  /\ q.id \in DOMAIN configs /\ q.id \in Ids
               /\ configs' = [configs EXCEPT ![q.id] = row]
               /\ q.kind \in Inputs =>
                     /\ configs[q.id].status = "DRAFT" /\ row.status = "DRAFT"
                     /\ Sound(row)
               /\ q.kind = "finalize" =>
                     /\ configs[q.id].status = "DRAFT"
                     /\ row.status = "FINALIZED" /\ Fine(q.id, row)
               /\ q.kind = "delete" =>
                     /\ configs[q.id].status = "FINALIZED"
                     /\ row = Flagged(configs[q.id])
               /\ q.kind \in Inputs \cup {"finalize", "delete"}
<1> DEFINE q == req[r]
           merged == Merge(configs[q.id], q.old, q.new)
<1>1. /\ q.at = "update" /\ q.id \in DOMAIN configs
      /\ configs' = [configs EXCEPT ![q.id] = merged]
  BY DEF Update
<1>2. Known(q) /\ Fits(q) /\ configs[q.id] \in Row
  BY <1>1, RequestIs DEF Inv, FitsInv, BaseInv, TypeOK
<1>3. /\ q.new \in Row /\ q.old \in Row /\ q.id \in 1..born
      /\ q.kind \in {"update", "upgrade", "finalize", "delete"}
  BY <1>1, <1>2 DEF Known, KindsAt
<1>4. q.id \in Ids
  BY <1>3, RequestIs DEF Inv
<1>5. /\ merged \in Row
      /\ configs[q.id] = q.old => merged = q.new
      /\ configs[q.id] = q.new => merged = q.new
  BY <1>2, <1>3, MergeIs
<1>6. configs'[q.id] = merged
  BY <1>1
<1>7. ASSUME q.kind \in Inputs
      PROVE  configs[q.id].status = "DRAFT" /\ merged.status = "DRAFT" /\ Sound(merged)
  <2>1. /\ q.old.status = "DRAFT" /\ q.new.status = "DRAFT" /\ Sound(q.new)
        /\ Agrees(configs[q.id], q.old)
    BY <1>1, <1>2, <1>7 DEF Fits, ChangesDraft, Inputs
  <2>2. /\ merged.status = "DRAFT" /\ merged.version = q.new.version
        /\ merged.data = q.new.data /\ merged.complete = q.new.complete
    BY <2>1 DEF Merge, Agrees
  <2> QED BY <2>1, <2>2 DEF Sound, Agrees
<1>8. ASSUME q.kind = "finalize"
      PROVE  /\ configs[q.id].status = "DRAFT"
             /\ merged.status = "FINALIZED" /\ Fine(q.id, merged)
  BY <1>1, <1>2, <1>5, <1>8 DEF Fits, Finalizes
<1>9. ASSUME q.kind = "delete"
      PROVE  configs[q.id].status = "FINALIZED" /\ merged = Flagged(configs[q.id])
  <2>1. /\ q.old.status = "FINALIZED" /\ q.new = Flagged(q.old)
        /\ configs[q.id] \in {q.old, Flagged(q.old)}
    BY <1>1, <1>2, <1>9 DEF Fits, Flags
  <2> QED BY <1>3, <1>5, <2>1, FlaggedIs
<1> HIDE DEF q, merged
<1>10. q.kind \in Inputs \cup {"finalize", "delete"}
  BY <1>3 DEF Inputs
<1> QED BY <1>1, <1>3, <1>4, <1>6, <1>7, <1>8, <1>9, <1>10 DEF q

LEMMA UpdateSpares ==
    ASSUME Inv, EnoughQueued, NEW r \in Requests, Update(r),
           UNCHANGED configs => FALSE, NEW p \in Requests \ {r}
    PROVE  Spares(req[p])
<1> DEFINE q == req[r]
<1>1. PICK row : row = configs'[q.id]
  OBVIOUS
<1>2. /\ q.id \in DOMAIN configs /\ q.id \in Ids
      /\ configs' = [configs EXCEPT ![q.id] = row]
      /\ q.kind \in Inputs => configs[q.id].status = "DRAFT" /\ row.status = "DRAFT"
      /\ q.kind = "delete" =>
            configs[q.id].status = "FINALIZED" /\ row = Flagged(configs[q.id])
      /\ q.kind \in Inputs \cup {"finalize", "delete"}
  BY <1>1, UpdateIs
<1>3. PICK other : other = req[p]
  OBVIOUS
<1>4. Known(other) /\ Fits(other) /\ configs[q.id] \in Row /\ BaseInv
  BY <1>2, <1>3, RequestIs DEF Inv, FitsInv, BaseInv, TypeOK
<1>5. /\ q.kind \in Inputs /\ other.kind \in Inputs => q.id # other.id
      /\ q.kind = "finalize" /\ other.kind \in Behind =>
            q.id # other.id /\ other.kind # "delete list"
      /\ other.kind = "finalize" /\ q.kind \in Behind => q.id # other.id
  BY <1>3, <1>4, ApartIs
<1>6. items' = items /\ DOMAIN configs' = DOMAIN configs /\ KeepsVersions
  BY <1>2, VersionsSame DEF Update
<1>7. \A id \in DOMAIN configs : id # q.id => configs'[id] = configs[id]
  BY <1>2
<1>8. configs'[q.id] = row
  BY <1>1
<1> HIDE DEF q
<1>9. CASE q.kind \in Inputs
  <2>1. \A id \in DOMAIN configs' : configs'[id].status = "FINALIZED" =>
           id \in DOMAIN configs /\ configs'[id] = configs[id]
    BY <1>2, <1>6, <1>7, <1>8, <1>9
  <2>2. other.id = q.id => other.kind \notin Inputs \cup {"finalize"}
    BY <1>5, <1>9 DEF Inputs, Behind
  <2>3. other.id \in DOMAIN configs' =>
           configs'[other.id] = configs[other.id] \/ other.id = q.id
    BY <1>6, <1>7
  <2>4. other.kind = "delete" /\ other.id = q.id => other.at # "update"
    <3> SUFFICES ASSUME other.kind = "delete", other.id = q.id, other.at = "update"
                 PROVE  FALSE
      OBVIOUS
    <3>1. other.old \in Row
      BY <1>4 DEF Known
    <3>2. /\ other.old.status = "FINALIZED"
          /\ configs[q.id] \in {other.old, Flagged(other.old)}
      BY <1>2, <1>4 DEF Fits, Flags
    <3>3. configs[q.id].status = "FINALIZED"
      BY <3>1, <3>2, FlaggedIs
    <3> QED BY <1>2, <1>9, <3>3
  <2> QED BY <1>2, <1>3, <1>6, <1>8, <1>9, <2>1, <2>2, <2>3, <2>4 DEF Spares, Agrees
<1>10. CASE q.kind = "finalize"
  <2>1. other.kind \notin Behind \/ other.id # q.id
    BY <1>5, <1>10
  <2>2. other.at # "list"
    BY <1>4, <1>5, <1>10 DEF Known, KindsAt, Behind
  <2>3. other.at \in {"delete", "item"} => other.kind \in Behind
    BY <1>4 DEF Known, KindsAt, Behind
  <2> QED BY <1>3, <1>6, <1>7, <1>8, <2>1, <2>2, <2>3
       DEF Spares, Agrees, Inputs, Behind
<1>11. CASE q.kind = "delete"
  <2>1. row.status = configs[q.id].status /\ row.list = configs[q.id].list
    BY <1>2, <1>4, <1>11, FlaggedIs
  <2>2. other.kind \in Inputs /\ other.id = q.id => FALSE
    BY <1>2, <1>4, <1>11 DEF Fits, ChangesDraft, Inputs, Agrees
  <2>3. other.kind = "finalize" => other.id # q.id
    BY <1>5, <1>11 DEF Behind
  <2> QED BY <1>2, <1>3, <1>6, <1>7, <1>8, <1>11, <2>1, <2>2, <2>3
       DEF Spares, Agrees
<1> QED BY <1>2, <1>9, <1>10, <1>11

LEMMA UpdateInv ==
    ASSUME Inv, EnoughQueued, NEW r \in Requests, Update(r)
    PROVE  RowsInv' /\ FitsInv'
<1>1. /\ BaseInv /\ RowsInv /\ FitsInv
      /\ End(r) /\ UNCHANGED <<contractVars, born, items>> /\ KeepsVersions
      /\ born \in Nat
  BY RequestIs, VersionsSame DEF Inv, Update
<1>2. CASE UNCHANGED configs
  <2>1. UNCHANGED <<contractVars, configs, items>>
    BY <1>1, <1>2
  <2> QED BY <1>1, <2>1, SameSpares, SameRows, WriteFits
<1>3. CASE ~UNCHANGED configs
  <2>1. FitsInv'
    <3>1. \A p \in Requests \ {r} : Spares(req[p])
      BY <1>3, UpdateSpares
    <3> QED BY <1>1, <3>1, WriteFits
  <2>2. PICK row, q : q = req[r] /\ row = configs'[q.id]
    OBVIOUS
  <2>3. /\ q.id \in DOMAIN configs /\ q.id \in Ids
        /\ configs' = [configs EXCEPT ![q.id] = row]
        /\ q.kind \in Inputs => row.status = "DRAFT" /\ Sound(row)
        /\ q.kind = "finalize" => Fine(q.id, row)
        /\ q.kind = "delete" => row = Flagged(configs[q.id])
        /\ q.kind \in Inputs \cup {"finalize", "delete"}
    BY <1>3, <2>2, UpdateIs
  <2>4. Fine(q.id, row)'
    <3>1. CASE q.kind \in Inputs
      BY <1>1, <2>3, <3>1, SoundKept DEF Fine
    <3>2. CASE q.kind = "finalize"
      BY <1>1, <2>3, <3>2, SameFine
    <3>3. CASE q.kind = "delete"
      <4>1. PICK old : old = configs[q.id]
        OBVIOUS
      <4>2. old \in Row /\ Fine(q.id, old)
        BY <1>1, <2>3, <4>1 DEF BaseInv, TypeOK, RowsInv
      <4>3. /\ row.status = old.status /\ row.version = old.version
            /\ row.data = old.data /\ row.list = old.list
            /\ row.complete = old.complete /\ row.priced = old.priced
            /\ row.snapshot = old.snapshot
        BY <2>3, <3>3, <4>1, <4>2, FlaggedIs
      <4> QED BY <1>1, <4>2, <4>3, SameFine
    <3> QED BY <2>3, <3>1, <3>2, <3>3
  <2>5. ASSUME NEW id \in DOMAIN configs'
        PROVE  \E new : new = configs'[id] /\ Fine(id, new)'
    <3>1. CASE id = q.id
      BY <2>2, <2>4, <3>1
    <3>2. CASE id # q.id
      <4>1. id \in DOMAIN configs /\ configs'[id] = configs[id] /\ items'[id] = items[id]
        BY <1>1, <2>3, <3>2
      <4> QED BY <1>1, <4>1, StillFine
    <3> QED BY <3>1, <3>2
  <2> QED BY <2>1, <2>5, RowsFine
<1> QED BY <1>2, <1>3

LEMMA DeleteInv ==
    ASSUME Inv, EnoughQueued, NEW r \in Requests, Delete(r)
    PROVE  RowsInv' /\ FitsInv'
<1>1. PICK id : id = req[r].id
  OBVIOUS
<1>2. /\ BaseInv /\ RowsInv /\ FitsInv /\ End(r)
      /\ UNCHANGED <<contractVars, born>> /\ KeepsVersions
      /\ born \in Nat /\ Known(req[r]) /\ req[r].kind = "delete"
      /\ items \in [Ids -> SUBSET Item]
  <2>1. Known(req[r]) /\ req[r].at = "delete"
    BY RequestIs DEF Inv, Delete
  <2> QED BY <2>1, RequestIs, VersionsSame DEF Inv, Delete, Known, KindsAt
<1>3. /\ configs' = [i \in DOMAIN configs \ {id} |-> configs[i]]
      /\ \A i \in Ids \ {id} : items'[i] = items[i]
  BY <1>1 DEF Delete, Remove
<1>4. ASSUME NEW p \in Requests \ {r} PROVE Spares(req[p])
  <2>1. PICK other : other = req[p]
    OBVIOUS
  <2>2. Known(other) /\ (other.kind = "finalize" => other.id # id)
    BY <1>1, <1>2, <2>1, RequestIs, ApartIs DEF Behind
  <2>3. other.kind = "finalize" => other.id \in Ids
    BY <1>2, <2>2, RequestIs DEF Known
  <2>4. DOMAIN configs' \subseteq DOMAIN configs
        /\ \A i \in DOMAIN configs' : configs'[i] = configs[i]
    BY <1>3
  <2> QED BY <1>2, <1>3, <2>1, <2>2, <2>3, <2>4 DEF Spares, Agrees
<1>5. FitsInv'
  BY <1>2, <1>4, WriteFits
<1>6. ASSUME NEW i \in DOMAIN configs'
      PROVE  \E new : new = configs'[i] /\ Fine(i, new)'
  <2>1. i \in DOMAIN configs /\ i # id /\ configs'[i] = configs[i]
    BY <1>3
  <2>2. i \in Ids
    BY <1>2, <2>1, RequestIs DEF BaseInv, TypeOK
  <2>3. items'[i] = items[i]
    BY <1>3, <2>1, <2>2
  <2> QED BY <1>2, <2>1, <2>3, StillFine
<1> QED BY <1>5, <1>6, RowsFine

LEMMA WriteItemInv ==
    ASSUME Inv, EnoughQueued, NEW r \in Requests, WriteItem(r)
    PROVE  RowsInv' /\ FitsInv'
<1>1. PICK id : id = req[r].id
  OBVIOUS
<1>2. /\ BaseInv /\ RowsInv /\ FitsInv /\ End(r)
      /\ UNCHANGED <<contractVars, configs, born>> /\ KeepsVersions /\ born \in Nat
      /\ req[r].kind \in Behind
      /\ id \in DOMAIN configs => configs[id].status = "DRAFT"
  <2>1. Known(req[r]) /\ Fits(req[r]) /\ req[r].at = "item"
    BY RequestIs DEF Inv, WriteItem, FitsInv
  <2>2. req[r].kind \in Behind
    BY <2>1 DEF Known, KindsAt, Behind
  <2>3. id \in DOMAIN configs => configs[id].status = "DRAFT"
    BY <1>1, <2>1 DEF Fits, FindsDraft
  <2> QED BY <2>2, <2>3, RequestIs, VersionsSame DEF Inv, WriteItem
<1>3. \A i \in Ids \ {id} : items'[i] = items[i]
  BY <1>1, <1>2, WriteItemTables
<1>4. ASSUME NEW p \in Requests \ {r} PROVE Spares(req[p])
  <2>1. PICK other : other = req[p]
    OBVIOUS
  <2>2. Known(other) /\ (other.kind = "finalize" => other.id # id)
    BY <1>1, <1>2, <2>1, RequestIs, ApartIs
  <2>3. other.kind = "finalize" => other.id \in Ids
    BY <1>2, <2>2, RequestIs DEF Known
  <2> QED BY <1>2, <1>3, <2>1, <2>2, <2>3 DEF Spares, Agrees
<1>5. FitsInv'
  BY <1>2, <1>4, WriteFits
<1>6. ASSUME NEW i \in DOMAIN configs'
      PROVE  \E new : new = configs'[i] /\ Fine(i, new)'
  <2>1. i \in DOMAIN configs /\ configs'[i] = configs[i]
    BY <1>2
  <2>2. i \in Ids
    BY <1>2, <2>1, RequestIs DEF BaseInv, TypeOK
  <2>3. configs[i].status = "FINALIZED" => items'[i] = items[i]
    BY <1>2, <1>3, <2>1, <2>2
  <2> QED BY <1>2, <2>1, <2>3, StillFine
<1> QED BY <1>5, <1>6, RowsFine

LEMMA DeleteListInv ==
    ASSUME Inv, EnoughQueued, NEW r \in Requests, DeleteList(r)
    PROVE  RowsInv' /\ FitsInv'
<1>1. PICK gone : gone = req[r].arg
  OBVIOUS
<1>2. /\ BaseInv /\ RowsInv /\ FitsInv /\ End(r)
      /\ UNCHANGED <<contractVars, born, items>> /\ KeepsVersions /\ born \in Nat
      /\ req[r].kind = "delete list"
      /\ \A id \in DOMAIN configs :
            configs[id].status = "FINALIZED" => configs[id].list # gone
  <2>1. Known(req[r]) /\ Fits(req[r]) /\ req[r].at = "list"
    BY RequestIs DEF Inv, DeleteList, FitsInv
  <2>2. UNCHANGED <<contractVars, born, items>> /\ End(r)
    BY DEF DeleteList
  <2>3. req[r].kind = "delete list"
    BY <2>1 DEF Known, KindsAt
  <2> QED BY <1>1, <2>1, <2>2, <2>3, RequestIs, VersionsSame DEF Inv, Fits, Unlists
<1>3. configs' = [id \in DOMAIN configs |-> Unlisted(configs[id], gone)]
  BY <1>1 DEF DeleteList, Unlisted
<1>4. \A id \in DOMAIN configs :
          /\ Agrees(configs'[id], configs[id])
          /\ configs[id].status = "FINALIZED" => configs'[id] = configs[id]
  <2>1. \A id \in DOMAIN configs : configs[id] \in Row
    BY <1>2 DEF BaseInv, TypeOK
  <2> QED BY <1>2, <1>3, <2>1, UnlistedIs
<1>5. ASSUME NEW p \in Requests \ {r} PROVE Spares(req[p])
  <2>1. PICK other : other = req[p]
    OBVIOUS
  <2>2. /\ Known(other) /\ Fits(other) /\ other.kind # "finalize"
        /\ other.id \in DOMAIN configs => configs[other.id] \in Row
    BY <1>2, <2>1, RequestIs, ApartIs DEF Behind, FitsInv, BaseInv, TypeOK
  <2>3. ASSUME other.kind = "delete", other.at = "update", other.id \in DOMAIN configs
        PROVE  configs'[other.id] = configs[other.id]
    <3>1. other.old \in Row
      BY <2>2, <2>3 DEF Known
    <3>2. /\ other.old.status = "FINALIZED"
          /\ configs[other.id] \in {other.old, Flagged(other.old)}
      BY <2>2, <2>3 DEF Fits, Flags
    <3>3. configs[other.id].status = "FINALIZED"
      BY <3>1, <3>2, FlaggedIs
    <3> QED BY <1>4, <2>3, <3>3
  <2>4. DOMAIN configs' = DOMAIN configs
    BY <1>3
  <2>5. \A id \in DOMAIN configs : configs'[id].status = configs[id].status
    BY <1>4 DEF Agrees
  <2> QED BY <1>2, <1>4, <2>1, <2>2, <2>3, <2>4, <2>5 DEF Spares
<1>6. FitsInv'
  <2>1. born' = born
    BY DEF DeleteList
  <2>2. born \in Nat
    BY <1>2
  <2>3. born <= born' /\ born' \in Nat
    BY <2>1, <2>2
  <2> QED BY <1>2, <1>5, <2>3, WriteFits
<1>7. ASSUME NEW id \in DOMAIN configs'
      PROVE  \E new : new = configs'[id] /\ Fine(id, new)'
  <2>1. PICK old, new : old = configs[id] /\ new = configs'[id]
    OBVIOUS
  <2>2. id \in DOMAIN configs
    BY <1>3
  <2>3. Fine(id, old) /\ Agrees(new, old) /\ (old.status = "FINALIZED" => new = old)
    BY <1>2, <1>4, <2>1, <2>2 DEF RowsInv
  <2>4. Fine(id, new)'
    BY <1>2, <2>3, SameFine DEF Agrees
  <2> QED BY <2>1, <2>4
<1> QED BY <1>6, <1>7, RowsFine

(* A change of the versions takes no configuration along: the version of a *)
(* configuration is not a DRAFT.                                           *)
LEMMA VersionSpares ==
    ASSUME Inv, VersionStep
    PROVE  /\ KeepsVersions /\ req' = req
           /\ DOMAIN configs' = DOMAIN configs
           /\ \A id \in DOMAIN configs : configs'[id] = configs[id]
           /\ \A id \in Ids : items'[id] = items[id]
<1>1. BaseInv /\ RowsInv
  BY DEF Inv
<1>2. CASE ChangeVersion
  <2>1. ContractNext
    BY <1>2 DEF ChangeVersion, ContractNext
  <2> QED BY <1>1, <1>2, <2>1, ContractKeeps DEF ChangeVersion, KeepsVersions, tables
<1>3. CASE ChangePrices
  BY <1>3, VersionsSame DEF ChangePrices
<1>4. ASSUME NEW v \in versions, DeleteVersion(v)
      PROVE  /\ KeepsVersions /\ req' = req
             /\ DOMAIN configs' = DOMAIN configs
             /\ \A id \in DOMAIN configs : configs'[id] = configs[id]
             /\ \A id \in Ids : items'[id] = items[id]
  <2> DEFINE gone == {id \in DOMAIN configs : configs[id].version = v.id}
  <2>1. ContractNext
    BY <1>4 DEF DeleteVersion, ContractNext
  <2>2. v.status = "DRAFT"
    BY <1>4 DEF DeleteVersion, Discard, Having
  <2>3. \A u \in versions : u.id = v.id => u = v
    BY <1>1 DEF BaseInv, KeyInv
  <2>4. gone = {}
    BY <1>1, <2>2, <2>3 DEF RowsInv, Fine, Sound
  <2>5. /\ configs' = [id \in DOMAIN configs \ gone |-> configs[id]]
        /\ items' = [id \in Ids |-> IF id \in gone THEN {} ELSE items[id]]
    BY <1>4 DEF DeleteVersion, Remove
  <2> HIDE DEF gone
  <2>6. /\ DOMAIN configs' = DOMAIN configs
        /\ \A id \in DOMAIN configs : configs'[id] = configs[id]
    BY <2>4, <2>5
  <2>7. \A id \in Ids : items'[id] = items[id]
    BY <2>4, <2>5
  <2>8. req' = req
    BY <1>4 DEF DeleteVersion
  <2>9. KeepsVersions
    BY <1>1, <2>1, ContractKeeps DEF KeepsVersions
  <2> QED BY <2>6, <2>7, <2>8, <2>9
<1> QED BY <1>2, <1>4, <1>3 DEF VersionStep

LEMMA VersionInv ==
    ASSUME Inv, VersionStep
    PROVE  RowsInv' /\ FitsInv'
<1>1. /\ KeepsVersions /\ req' = req
      /\ DOMAIN configs' = DOMAIN configs
      /\ \A id \in DOMAIN configs : configs'[id] = configs[id]
      /\ \A id \in Ids : items'[id] = items[id]
  BY VersionSpares
<1>2. BaseInv /\ RowsInv /\ FitsInv /\ DOMAIN configs \subseteq Ids
  BY MaxConfigsAssumption DEF Inv, BaseInv, TypeOK, Ids
<1>3. ASSUME NEW p \in Requests
      PROVE  \E q : q = req'[p] /\ Fits(q)'
  <2>1. PICK q : q = req[p]
    OBVIOUS
  <2>2. Known(q) /\ Fits(q)
    BY <1>2, <2>1, RequestIs DEF FitsInv
  <2>3. q.kind = "finalize" => q.id \in Ids
    BY <1>2, <2>2, RequestIs DEF Known
  <2>4. Spares(q)
    BY <1>1, <2>3 DEF Spares, Agrees
  <2> QED BY <1>1, <2>1, <2>2, <2>4, OtherFits
<1>4. FitsInv'
  BY <1>3, AllFit
<1>5. \A id \in DOMAIN configs' : \E row : row = configs'[id] /\ Fine(id, row)'
  BY <1>1, <1>2, StillFine
<1> QED BY <1>4, <1>5, RowsFine

LEMMA NextInv ==
    ASSUME UsersOnly, EnoughQueued
    PROVE  Inv /\ [Next]_vars => Inv'
<1> SUFFICES ASSUME Inv, [Next]_vars PROVE Inv'
  OBVIOUS
<1>1. BaseInv /\ BaseInv'
  BY NextBase DEF Inv
<1>2. RowsInv' /\ FitsInv'
  <2>1. CASE Next
    BY <1>1, <2>1, StepIs, QuietInv, InsertInv, UpdateInv, DeleteInv, WriteItemInv,
       DeleteListInv, VersionInv
  <2>2. CASE UNCHANGED vars
    <3>1. UNCHANGED <<contractVars, configs, items>> /\ req' = req
      BY <2>2 DEF vars, tables
    <3>2. RowsInv'
      BY <3>1, SameRows DEF Inv
    <3>3. ASSUME NEW p \in Requests
          PROVE  \E q : q = req'[p] /\ Fits(q)'
      <4>1. PICK q : q = req[p]
        OBVIOUS
      <4>2. Known(q) /\ Fits(q)
        BY <1>1, <4>1, RequestIs DEF Inv, FitsInv
      <4> QED BY <3>1, <4>1, <4>2, SameSpares, OtherFits
    <3> QED BY <3>2, <3>3, AllFit
  <2> QED BY <2>1, <2>2
<1> QED BY <1>1, <1>2 DEF Inv

LEMMA InitInv == Init => Inv
<1> SUFFICES ASSUME Init PROVE Inv
  OBVIOUS
<1>1. BaseInv
  BY InitBase
<1>2. RowsInv
  BY DEF Init, RowsInv
<1>3. Fits(Idle)
  BY IdleIs DEF Fits, MakesDraft, ChangesDraft, Finalizes, Flags, FindsDraft, Unlists
<1>4. FitsInv
  BY <1>3 DEF Init, FitsInv
<1> QED BY <1>1, <1>2, <1>4 DEF Inv

LEMMA Invariance ==
    ASSUME UsersOnly, EnoughQueued
    PROVE  Spec => []Inv
<1> QED BY InitInv, NextInv, PTL DEF Spec

LEMMA PromisesHold ==
    ASSUME Inv
    PROVE  SnapshotIsOfTheRow /\ FinalizedIsCompleteUntouched /\ CompleteIsTrue
<1>1. SnapshotIsOfTheRow
  BY DEF Inv, RowsInv, Fine, Snap, SnapshotIsOfTheRow, Finalized
<1>2. FinalizedIsCompleteUntouched
  BY DEF Inv, BaseInv, KeyInv, RowsInv, Fine, Whole, FinalizedIsCompleteUntouched,
         Finalized
<1>3. CompleteIsTrue
  BY DEF Inv, BaseInv, KeyInv, RowsInv, Fine, Sound, CompleteIsTrue
<1> QED BY <1>1, <1>2, <1>3

(* finalize_configuration freezes the result of exactly what the row, its  *)
(* custom items and its price list show, when nobody saves against a DRAFT *)
(* version and a finalization waits for whatever touches what it freezes.  *)
THEOREM SnapshotTrue ==
    ASSUME UsersOnly, EnoughQueued
    PROVE  Spec => []SnapshotIsOfTheRow
<1>1. Inv => SnapshotIsOfTheRow
  BY PromisesHold
<1> QED BY <1>1, Invariance, PTL

(* Under the same queueing finalize_configuration lets no incomplete       *)
(* configuration through, for all that the status and the completeness are *)
(* read before the engine runs and written after it, unless a PATCH moved  *)
(* a field into the published version.                                     *)
THEOREM FinalizedComplete ==
    ASSUME UsersOnly, EnoughQueued
    PROVE  Spec => []FinalizedIsCompleteUntouched
<1>1. Inv => FinalizedIsCompleteUntouched
  BY PromisesHold
<1> QED BY <1>1, Invariance, PTL

(* Under the same queueing the cached is_complete, which the copy of a     *)
(* configuration takes over unseen, is what the engine says of the inputs. *)
THEOREM CompleteTrue ==
    ASSUME UsersOnly, EnoughQueued
    PROVE  Spec => []CompleteIsTrue
<1>1. Inv => CompleteIsTrue
  BY PromisesHold
<1> QED BY <1>1, Invariance, PTL

-----------------------------------------------------------------------------
(* What a step does to a finalized configuration                           *)

Guarded(id) ==
    /\ id \in DOMAIN configs'
    /\ configs'[id] \in {configs[id], Flagged(configs[id])}
    /\ items'[id] = items[id]

LEMMA UpdateGuards ==
    ASSUME Inv, NEW r \in Requests, Update(r), NEW id \in Finalized
    PROVE  Guarded(id)
<1>1. /\ id \in DOMAIN configs /\ configs[id].status = "FINALIZED"
      /\ items' = items
  BY DEF Finalized, Update
<1>2. CASE UNCHANGED configs
  BY <1>1, <1>2 DEF Guarded
<1>3. CASE ~UNCHANGED configs
  <2>1. PICK row, q : q = req[r] /\ row = configs'[q.id]
    OBVIOUS
  <2>2. /\ q.id \in DOMAIN configs
        /\ configs' = [configs EXCEPT ![q.id] = row]
        /\ q.kind \in Inputs => configs[q.id].status = "DRAFT"
        /\ q.kind = "finalize" => configs[q.id].status = "DRAFT"
        /\ q.kind = "delete" => row = Flagged(configs[q.id])
        /\ q.kind \in Inputs \cup {"finalize", "delete"}
    BY <1>3, <2>1, UpdateIs
  <2>4. CASE id = q.id
    BY <1>1, <2>1, <2>2, <2>4 DEF Guarded
  <2>5. CASE id # q.id
    BY <1>1, <2>2, <2>5 DEF Guarded
  <2> QED BY <2>4, <2>5
<1> QED BY <1>2, <1>3

LEMMA StepGuards ==
    ASSUME Inv, [Next]_vars, NEW id \in Finalized
    PROVE  Guarded(id)
<1>1. /\ id \in DOMAIN configs /\ configs[id].status = "FINALIZED"
      /\ BaseInv /\ configs[id] \in Row
      /\ id \in 1..born /\ born \in Nat /\ id \in Ids
      /\ items \in [Ids -> SUBSET Item]
  BY MaxConfigsAssumption DEF Finalized, Inv, BaseInv, TypeOK, Ids
<1>2. ASSUME NEW r \in Requests, QuietStep(r) PROVE Guarded(id)
  BY <1>1, <1>2 DEF QuietStep, Quiet, tables, Guarded
<1>3. ASSUME NEW r \in Requests, Insert(r) PROVE Guarded(id)
  <2>1. CASE UNCHANGED <<configs, born, items>>
    BY <1>1, <2>1 DEF Guarded
  <2>2. CASE ~UNCHANGED <<configs, born, items>>
    <3>1. /\ born' = born + 1
          /\ configs' = [i \in DOMAIN configs \cup {born'} |->
                            IF i = born' THEN req[r].new ELSE configs[i]]
          /\ items' = [items EXCEPT ![born'] = req[r].items]
      BY <1>3, <2>2 DEF Insert
    <3>2. id # born'
      BY <1>1, <3>1
    <3> QED BY <1>1, <3>1, <3>2 DEF Guarded
  <2> QED BY <2>1, <2>2
<1>4. ASSUME NEW r \in Requests, Delete(r) PROVE Guarded(id)
  <2>1. /\ configs' = [i \in DOMAIN configs \ {req[r].id} |-> configs[i]]
        /\ \A i \in Ids \ {req[r].id} : items'[i] = items[i]
        /\ req[r].at = "delete"
    BY <1>4 DEF Delete, Remove
  <2>2. id # req[r].id
    BY <1>1, <2>1 DEF Inv, FitsInv, Fits, FindsDraft
  <2> QED BY <1>1, <2>1, <2>2 DEF Guarded
<1>5. ASSUME NEW r \in Requests, WriteItem(r) PROVE Guarded(id)
  <2>1. configs' = configs /\ req[r].at = "item"
    BY <1>5 DEF WriteItem
  <2>2. id # req[r].id
    BY <1>1, <2>1 DEF Inv, FitsInv, Fits, FindsDraft
  <2>3. items'[id] = items[id]
    BY <1>1, <1>5, <2>2, WriteItemTables
  <2> QED BY <1>1, <2>1, <2>3 DEF Guarded
<1>6. ASSUME NEW r \in Requests, DeleteList(r) PROVE Guarded(id)
  <2>1. PICK gone : gone = req[r].arg
    OBVIOUS
  <2>2. /\ configs' = [i \in DOMAIN configs |-> Unlisted(configs[i], gone)]
        /\ items' = items /\ req[r].at = "list"
    BY <1>6, <2>1 DEF DeleteList, Unlisted
  <2>3. configs[id].list # gone
    BY <1>1, <2>1, <2>2 DEF Inv, FitsInv, Fits, Unlists
  <2> QED BY <1>1, <2>2, <2>3, UnlistedIs DEF Guarded
<1>7. CASE VersionStep
  BY <1>1, <1>7, VersionSpares DEF Guarded
<1>8. CASE UNCHANGED vars
  BY <1>1, <1>8 DEF vars, tables, Guarded
<1> QED BY <1>1, <1>2, <1>3, <1>4, <1>5, <1>6, <1>7, <1>8, StepIs, UpdateGuards

LEMMA StepKeepsFinalized ==
    ASSUME Inv, [Next]_vars
    PROVE  /\ Finalized \subseteq DOMAIN configs'
           /\ \A id \in Finalized \cap DOMAIN configs' :
                 /\ configs'[id] \in {configs[id], [configs[id] EXCEPT !.deleted = TRUE]}
                 /\ items'[id] = items[id]
  BY StepGuards DEF Guarded, Flagged

(* Nothing of a FINALIZED configuration is ever written but the flag of    *)
(* its soft deletion, whatever becomes of prices, days, versions and price *)
(* lists, under the same queueing: two finalizations of one configuration  *)
(* are queued behind each other too.                                       *)
THEOREM FinalizedFrozen ==
    ASSUME UsersOnly, EnoughQueued
    PROVE  Spec => FinalizedIsFrozen
<1>1. Inv /\ [Next]_vars =>
         [\A id \in Finalized \cap DOMAIN configs' :
             /\ configs'[id] \in {configs[id], [configs[id] EXCEPT !.deleted = TRUE]}
             /\ items'[id] = items[id]]_vars
  BY StepKeepsFinalized
<1> QED BY <1>1, Invariance, PTL DEF Spec, FinalizedIsFrozen

(* No handler, and no deletion of a version, takes a FINALIZED row away,   *)
(* under the same queueing.                                                *)
THEOREM FinalizedKept ==
    ASSUME UsersOnly, EnoughQueued
    PROVE  Spec => FinalizedIsKept
<1>1. Inv /\ [Next]_vars => [Finalized \subseteq DOMAIN configs']_vars
  BY StepKeepsFinalized
<1> QED BY <1>1, Invariance, PTL DEF Spec, FinalizedIsKept
=============================================================================
