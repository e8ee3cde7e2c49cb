-------------------------- MODULE VersionLifecycle --------------------------
(***************************************************************************)
(* The handlers that change the versions of one entity                     *)
(* (app/services/versioning.py, app/routers/versions.py, and the handlers  *)
(* of fields, values, rules and BOM that edit a version's content).        *)
(*                                                                         *)
(* A handler is a transaction at READ COMMITTED that reads, checks what it *)
(* read, and writes by primary key when it commits; no row is locked and   *)
(* no constraint of the table repeats the checks.  One action is one       *)
(* query, or the flush and commit that end the handler.                    *)
(***************************************************************************)
EXTENDS VersionContract

CONSTANTS
    Requests,       \* handlers that can run at the same time
    Conflicts       \* pairs of kinds the environment does not let overlap

Kinds == {"create", "clone", "publish", "edit", "delete"}

ASSUME ConflictsAssumption == \A pair \in Conflicts : pair \subseteq Kinds

VARIABLE req        \* what each handler is doing, and what it has read

vars == <<contractVars, req>>

Labels == {"idle", "draft", "number", "insert", "current", "publish",
           "edit", "delete"}

Request == [kind : Kinds \cup {"none"}, at : Labels, version : 0..MaxVersions,
            current : 0..MaxVersions, number : Nat \ {0}, content : Contents]

Idle == [kind |-> "none", at |-> "idle", version |-> 0, current |-> 0,
         number |-> 1, content |-> Blank]

Init ==
    /\ ContractInit
    /\ req = [r \in Requests |-> Idle]

-----------------------------------------------------------------------------
MayStart(r, kind) ==
    /\ req[r] = Idle
    /\ \A q \in Requests : {kind, req[q].kind} \notin Conflicts

Continue(r, reads) == req' = [req EXCEPT ![r] = reads]

(* The handler ends, by its commit or by an error that rolls back.         *)
End(r) == Continue(r, Idle)

-----------------------------------------------------------------------------
(* create_draft_version and clone_version                                  *)

(* _check_draft_constraint is the first query that can refuse a create.    *)
BeginCreate(r) ==
    /\ MayStart(r, "create")
    /\ Having("DRAFT") = {}                           \* else 400
    /\ Continue(r, [Idle EXCEPT !.kind = "create", !.at = "number"])
    /\ UNCHANGED contractVars

(* One joined query reads the source version, whatever its status.         *)
BeginClone(r, source) ==
    /\ MayStart(r, "clone")
    /\ source \in versions                            \* else 404
    /\ Continue(r, [Idle EXCEPT !.kind = "clone", !.at = "draft",
                                !.content = source.content])
    /\ UNCHANGED contractVars

(* Mutant: a clone does not look for a DRAFT.                              *)
DraftNotChecked(r) ==
    /\ req[r].at = "draft"
    /\ Continue(r, [req[r] EXCEPT !.at = "number"])
    /\ UNCHANGED contractVars

CheckDraft(r) ==
    /\ req[r].at = "draft"
    /\ IF Having("DRAFT") = {}
       THEN Continue(r, [req[r] EXCEPT !.at = "number"])
       ELSE End(r)                                    \* 400
    /\ UNCHANGED contractVars

(* _calculate_next_version_number                                          *)
ReadNumber(r) ==
    /\ req[r].at = "number"
    /\ \E n \in 1..(MaxVersions + 1) :
          /\ IsNextNumber(n)
          /\ Continue(r, [req[r] EXCEPT !.at = "insert", !.number = n])
    /\ UNCHANGED contractVars

(* INSERT and commit; MaxVersions, the bound of the model, is the end of   *)
(* the primary key sequence.                                               *)
Insert(r) ==
    /\ req[r].at = "insert"
    /\ IF lastId < MaxVersions
       THEN /\ lastId' = lastId + 1
            /\ versions' = versions \cup
                  {[id |-> lastId + 1, number |-> req[r].number,
                    status |-> "DRAFT", content |-> req[r].content,
                    arrived |-> {}]}
       ELSE UNCHANGED contractVars
    /\ End(r)

-----------------------------------------------------------------------------
(* publish_version                                                         *)

BeginPublish(r, v) ==
    /\ MayStart(r, "publish")
    /\ v \in Having("DRAFT")                          \* else 400
    /\ Continue(r, [Idle EXCEPT !.kind = "publish", !.at = "current",
                                !.version = v.id])
    /\ UNCHANGED contractVars

(* Mutant: the query filters by a status that is never found.              *)
ReadNoCurrent(r) ==
    /\ req[r].at = "current"
    /\ Continue(r, [req[r] EXCEPT !.at = "publish", !.current = 0])
    /\ UNCHANGED contractVars

(* .first() of the PUBLISHED versions, in no order; 0 when there is none.  *)
ReadCurrent(r) ==
    /\ req[r].at = "current"
    /\ \E id \in 0..MaxVersions :
          /\ IF Having("PUBLISHED") = {}
             THEN id = 0
             ELSE \E v \in Having("PUBLISHED") : v.id = id
          /\ Continue(r, [req[r] EXCEPT !.at = "publish", !.current = id])
    /\ UNCHANGED contractVars

Ids == {v.id : v \in versions}

(* Mutant: the previous version is not archived.                           *)
CommitPublishOnly(r) ==
    /\ req[r].at = "publish"
    /\ versions' = {IF v.id = req[r].version
                    THEN [v EXCEPT !.status = "PUBLISHED"] ELSE v :
                       v \in versions}
    /\ End(r)
    /\ UNCHANGED lastId

(* Both UPDATEs go by primary key; a row that is gone is a StaleDataError. *)
CommitPublish(r) ==
    LET new == req[r].version
        old == req[r].current
    IN  /\ req[r].at = "publish"
        /\ versions' =
              IF {new, old} \subseteq Ids \cup {0}
              THEN {CASE v.id = new -> [v EXCEPT !.status = "PUBLISHED"]
                      [] v.id = old /\ old # new ->
                             [v EXCEPT !.status = "ARCHIVED"]
                      [] OTHER -> v : v \in versions}
              ELSE versions                           \* 500
        /\ End(r)
        /\ UNCHANGED lastId

-----------------------------------------------------------------------------
(* update_version_metadata, delete_version, and every handler behind       *)
(* get_editable_version and its kin: the version is read and found DRAFT,  *)
(* the write comes later and goes by primary key.                          *)

(* Mutant: any version can be edited or deleted.                           *)
BeginWriteAny(r, v, kind) ==
    /\ MayStart(r, kind)
    /\ Continue(r, [Idle EXCEPT !.kind = kind, !.at = kind, !.version = v.id])
    /\ UNCHANGED contractVars

BeginWrite(r, v, kind) ==
    /\ MayStart(r, kind)
    /\ v \in Having("DRAFT")                          \* else 409
    /\ Continue(r, [Idle EXCEPT !.kind = kind, !.at = kind, !.version = v.id])
    /\ UNCHANGED contractVars

BeginEdit(r, v) == BeginWrite(r, v, "edit")
BeginDelete(r, v) == BeginWrite(r, v, "delete")

CommitEdit(r) ==
    /\ req[r].at = "edit"
    /\ \E c \in Contents :
          versions' = {IF v.id = req[r].version THEN [v EXCEPT !.content = c]
                                                ELSE v : v \in versions}
    /\ End(r)
    /\ UNCHANGED lastId

(* update_field: the version of the field is the one that was checked, the *)
(* version its entity_version_id names is not looked at.                   *)
CommitMove(r, x, target) ==
    LET from == req[r].version
    IN  /\ req[r].at = "edit"
        /\ x \notin target.content
        /\ \E v \in versions : v.id = from /\ x \in v.content
        /\ versions' = {CASE v = target  -> Received(v, x)
                          [] v.id = from -> [v EXCEPT !.content = @ \ {x}]
                          [] OTHER       -> v : v \in versions}
        /\ End(r)
        /\ UNCHANGED lastId

(* The same by a handler on the DRAFT of another entity: all it does to    *)
(* this one is its write.                                                  *)
ReceiveField(x, target) ==
    /\ Receive(target, x)
    /\ UNCHANGED req

(* The cascade takes the fields, values, rules, BOM and configurations.    *)
CommitDelete(r) ==
    /\ req[r].at = "delete"
    /\ versions' = {v \in versions : v.id # req[r].version}
    /\ End(r)
    /\ UNCHANGED lastId

-----------------------------------------------------------------------------
Step(r) ==
    \/ CheckDraft(r)
    \/ ReadNumber(r)
    \/ Insert(r)
    \/ ReadCurrent(r)
    \/ CommitPublish(r)
    \/ CommitEdit(r)
    \/ \E x \in Rows, target \in versions : CommitMove(r, x, target)
    \/ CommitDelete(r)

Next ==
    \/ \E r \in Requests :
          \/ BeginCreate(r)
          \/ \E v \in versions :
                \/ BeginClone(r, v)
                \/ BeginPublish(r, v)
                \/ BeginEdit(r, v)
                \/ BeginDelete(r, v)
          \/ Step(r)
    \/ \E x \in Rows, target \in versions : ReceiveField(x, target)

Spec == Init /\ [][Next]_vars

-----------------------------------------------------------------------------
(* Every variable holds a value of the kind its column or local has.       *)
TypeOK ==
    /\ versions \subseteq Version
    /\ lastId \in 0..MaxVersions
    /\ req \in [Requests -> Request]
=============================================================================
