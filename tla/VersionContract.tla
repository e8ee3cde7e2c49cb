-------------------------- MODULE VersionContract --------------------------
(***************************************************************************)
(* What the versions of one entity are to their users (the docstring of    *)
(* EntityVersion in app/models/domain.py, the README): numbered states of  *)
(* a product definition that go DRAFT -> PUBLISHED -> ARCHIVED, one DRAFT  *)
(* and one PUBLISHED at a time, that are edited while they are DRAFT.      *)
(* Every operation is one step here; VersionLifecycle has the handlers.    *)
(*                                                                         *)
(* One operation reaches a version that is not DRAFT: PATCH /fields/{id}   *)
(* takes the entity_version_id of any version, and moves the field there.  *)
(***************************************************************************)
EXTENDS Naturals

CONSTANTS
    Rows,           \* what a version may hold: a field, a rule, a BOM item
    MaxVersions     \* bound on the versions ever inserted

ASSUME MaxVersionsAssumption == MaxVersions \in Nat

VARIABLES
    versions,       \* the rows of entity_versions that belong to the entity
    lastId          \* the primary key given to the latest row

contractVars == <<versions, lastId>>

Statuses == {"DRAFT", "PUBLISHED", "ARCHIVED"}

Contents == SUBSET Rows

(* The content of a version that was just created.                         *)
Blank == {}

(* "arrived" is history: of the content, the fields that were moved in     *)
(* after the version was published.                                        *)
Version == [id : 1..MaxVersions, number : Nat \ {0}, status : Statuses,
            content : Contents, arrived : Contents]

Having(status) == {v \in versions : v.status = status}

ContractInit ==
    /\ versions = {}
    /\ lastId = 0

(* Mutant: the largest number itself, or 1.                                *)
IsLatestNumber(n) ==
    \/ versions = {} /\ n = 1
    \/ /\ \A v \in versions : v.number <= n
       /\ \E v \in versions : v.number = n

(* The number after the largest, or 1.                                     *)
IsNextNumber(n) ==
    \/ versions = {} /\ n = 1
    \/ /\ \A v \in versions : v.number < n
       /\ \E v \in versions : v.number + 1 = n

NewDraft(n, content) ==
    /\ Having("DRAFT") = {}
    /\ IsNextNumber(n)
    /\ lastId < MaxVersions
    /\ lastId' = lastId + 1
    /\ versions' = versions \cup
          {[id |-> lastId + 1, number |-> n, status |-> "DRAFT",
            content |-> content, arrived |-> {}]}

Publish(draft) ==
    /\ draft \in Having("DRAFT")
    /\ versions' = {CASE v = draft -> [v EXCEPT !.status = "PUBLISHED"]
                      [] v \in Having("PUBLISHED") ->
                             [v EXCEPT !.status = "ARCHIVED"]
                      [] OTHER -> v : v \in versions}
    /\ UNCHANGED lastId

Edit(draft, content) ==
    /\ draft \in Having("DRAFT")
    /\ versions' = (versions \ {draft}) \cup {[draft EXCEPT !.content = content]}
    /\ UNCHANGED lastId

(* The version with a field that is moved into it, whatever its status.    *)
Received(v, x) ==
    [v EXCEPT !.content = @ \cup {x},
              !.arrived = IF v.status = "DRAFT" THEN @ ELSE @ \cup {x}]

Move(draft, x, target) ==
    /\ draft \in Having("DRAFT")
    /\ x \in draft.content \ target.content
    /\ versions' = (versions \ {draft, target}) \cup
          {[draft EXCEPT !.content = @ \ {x}], Received(target, x)}
    /\ UNCHANGED lastId

(* The same, from the DRAFT of another entity.                             *)
Receive(target, x) ==
    /\ x \notin target.content
    /\ versions' = (versions \ {target}) \cup {Received(target, x)}
    /\ UNCHANGED lastId

Discard(draft) ==
    /\ draft \in Having("DRAFT")
    /\ versions' = versions \ {draft}
    /\ UNCHANGED lastId

ContractNext ==
    \/ \E n \in 1..MaxVersions, c \in Contents : NewDraft(n, c)
    \/ \E v \in versions :
          \/ Publish(v)
          \/ \E c \in Contents : Edit(v, c)
          \/ \E x \in Rows :
                \/ \E target \in versions : Move(v, x, target)
                \/ Receive(v, x)
          \/ Discard(v)

ContractSpec == ContractInit /\ [][ContractNext]_contractVars

-----------------------------------------------------------------------------
(* Properties                                                              *)

(* create_draft_version: "one DRAFT per entity".                           *)
AtMostOneDraft == \A u, v \in Having("DRAFT") : u = v

(* README, "Single published version": publishing archives the other one.  *)
AtMostOnePublished == \A u, v \in Having("PUBLISHED") : u = v

Age == [ARCHIVED |-> 1, PUBLISHED |-> 2, DRAFT |-> 3]

(* Numbers name versions and follow their lives: no two versions share a   *)
(* number, the DRAFT has the largest one, and the PUBLISHED version a      *)
(* larger one than every ARCHIVED version.                                 *)
NumbersFollowLifecycle ==
    \A u, v \in versions :
        /\ u.number = v.number => u = v
        /\ Age[u.status] < Age[v.status] => u.number < v.number

Later(v) == {w \in versions' : w.id = v.id}

(* A version never returns to an earlier status; in particular no ARCHIVED *)
(* version comes back to be the PUBLISHED one.                             *)
StatusMovesForward ==
    [][\A v \in versions : \A w \in Later(v) :
          \/ w.status = v.status
          \/ v.status = "DRAFT" /\ w.status = "PUBLISHED"
          \/ v.status = "PUBLISHED" /\ w.status = "ARCHIVED"]_contractVars

(* Once published a version is there for good, and keeps every row it was  *)
(* published with: whoever edits, moves, publishes or deletes, published   *)
(* content gains moved fields and loses nothing.                           *)
PublishedIsKept ==
    [][\A v \in versions \ Having("DRAFT") :
          \E w \in Later(v) : v.content \subseteq w.content]_contractVars
=============================================================================
