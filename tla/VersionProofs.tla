---------------------------- MODULE VersionProofs ---------------------------
(***************************************************************************)
(* Theorems about VersionLifecycle and VersionCache, for every number of   *)
(* handlers, calculations, versions and contents, every life of a cache    *)
(* entry and every size of the cache.                                      *)
(*                                                                         *)
(* First what VersionLifecycle keeps of VersionContract, and what the      *)
(* environment has to run one at a time for it; then what a calculation    *)
(* answers from and what the cache holds.                                  *)
(***************************************************************************)
EXTENDS VersionCache, TLAPS

-----------------------------------------------------------------------------
(* Facts that hold however the handlers interleave                         *)

KindsAt(label) ==
    CASE label = "idle" -> {"none"}
      [] label \in {"draft", "number", "insert"} -> {"create", "clone"}
      [] label \in {"current", "publish"} -> {"publish"}
      [] label = "edit" -> {"edit"}
      [] OTHER -> {"delete"}

(* A request is where its kind can be, and no two requests of kinds in     *)
(* conflict are in flight.                                                 *)
KindInv == \A r \in Requests : req[r].kind \in KindsAt(req[r].at)

ConflictInv ==
    \A r, q \in Requests : {req[r].kind, req[q].kind} \in Conflicts => r = q

KeyInv ==
    /\ \A v \in versions : v.id <= lastId
    /\ \A u, v \in versions : u.id = v.id => u = v

BaseInv == TypeOK /\ KindInv /\ ConflictInv /\ KeyInv

LEMMA InitBase == Init => BaseInv
<1> SUFFICES ASSUME Init PROVE BaseInv
  OBVIOUS
<1>1. TypeOK
  BY MaxVersionsAssumption
     DEF Init, ContractInit, TypeOK, Idle, Request, Kinds, Labels, Blank, Contents
<1>2. KindInv /\ KeyInv
  BY DEF Init, ContractInit, KindInv, KindsAt, Idle, KeyInv
<1>3. ConflictInv
  BY ConflictsAssumption DEF Init, ConflictInv, Idle, Kinds
<1> QED BY <1>1, <1>2, <1>3 DEF BaseInv

(* A handler that starts or goes on, with what it read, keeps the facts.   *)
LEMMA ContinueBase ==
    ASSUME BaseInv, NEW r \in Requests,
           NEW reads \in Request,
           Continue(r, reads), reads.kind \in KindsAt(reads.at),
           \/ reads.kind \in {req[r].kind, "none"}
           \/ MayStart(r, reads.kind)
    PROVE  /\ req' \in [Requests -> Request]
           /\ KindInv'
           /\ ConflictInv'
<1>1. /\ req'[r] = reads
      /\ \A q \in Requests \ {r} : req'[q] = req[q]
  BY DEF BaseInv, TypeOK, Continue
<1>2. KindInv'
  BY <1>1 DEF BaseInv, KindInv
<1>3. \A kind : {kind, "none"} \notin Conflicts /\ {"none", kind} \notin Conflicts
  BY ConflictsAssumption DEF Kinds
<1>4. \A q \in Requests \ {r} : {reads.kind, req[q].kind} \notin Conflicts
  <2> SUFFICES ASSUME NEW q \in Requests \ {r}
               PROVE  {reads.kind, req[q].kind} \notin Conflicts
    OBVIOUS
  <2>1. CASE reads.kind = req[r].kind
    BY <2>1 DEF BaseInv, ConflictInv
  <2>2. CASE reads.kind = "none"
    BY <1>3, <2>2
  <2>3. CASE MayStart(r, reads.kind)
    BY <2>3 DEF MayStart
  <2> QED BY <2>1, <2>2, <2>3
<1>5. ConflictInv'
  <2> SUFFICES ASSUME NEW p \in Requests, NEW q \in Requests, p # q
               PROVE  {req'[p].kind, req'[q].kind} \notin Conflicts
    BY DEF ConflictInv
  <2>1. CASE p = r
    BY <1>1, <1>4, <2>1
  <2>2. CASE q = r
    <3>1. {req'[p].kind, req'[q].kind} = {reads.kind, req[p].kind}
      BY <1>1, <2>2
    <3> QED BY <1>4, <2>2, <3>1
  <2>3. CASE p # r /\ q # r
    BY <1>1, <2>3 DEF BaseInv, ConflictInv
  <2> QED BY <2>1, <2>2, <2>3
<1> QED BY <1>2, <1>5 DEF BaseInv, TypeOK, Continue

LEMMA IdleIs == Idle \in Request
  BY MaxVersionsAssumption DEF Idle, Request, Labels, Blank, Contents

LEMMA EndBase ==
    ASSUME BaseInv, NEW r \in Requests, End(r)
    PROVE  /\ req' \in [Requests -> Request]
           /\ KindInv'
           /\ ConflictInv'
<1>1. Idle \in Request
  BY IdleIs
<1>2. Idle.kind = "none" /\ Idle.kind \in KindsAt(Idle.at)
  BY DEF Idle, KindsAt
<1> QED BY <1>1, <1>2, ContinueBase DEF End

(* What a move makes of a version: its key stays, and what arrives at one  *)
(* that is not DRAFT is said to have arrived.                              *)
Same(v, w) == w.id = v.id /\ w.number = v.number /\ w.status = v.status

Gained(v, w) ==
    /\ v.content \subseteq w.content
    /\ w.content \ w.arrived \subseteq v.content \ v.arrived

LEMMA ReceivedIs ==
    ASSUME NEW v \in Version, NEW x \in Rows
    PROVE  /\ Received(v, x) \in Version
           /\ Same(v, Received(v, x))
           /\ Received(v, x).content = v.content \cup {x}
           /\ v.status # "DRAFT" => Gained(v, Received(v, x))
<1>1. /\ Received(v, x) \in Version
      /\ Received(v, x).content = v.content \cup {x}
      /\ Same(v, Received(v, x))
  BY DEF Received, Version, Contents, Same
<1>2. ASSUME v.status # "DRAFT"
      PROVE  Received(v, x).arrived = v.arrived \cup {x}
  BY <1>2 DEF Received, Version
<1> QED BY <1>1, <1>2 DEF Gained

(* A move writes every version in its place; one that no edit is about to  *)
(* write gains, if it is not DRAFT, and loses nothing.                     *)
LEMMA MoveIs ==
    ASSUME BaseInv, NEW x \in Rows, NEW target \in versions,
           \/ ReceiveField(x, target)
           \/ \E r \in Requests : CommitMove(r, x, target)
    PROVE  /\ lastId' = lastId
           /\ versions' \subseteq Version
           /\ \A w \in versions' : \E v \in versions : Same(v, w)
           /\ \A v \in versions : \E w \in versions' :
                 /\ Same(v, w)
                 /\ \/ v.status = "DRAFT"
                    \/ Gained(v, w)
                    \/ \E r \in Requests : /\ req[r].at = "edit"
                                           /\ req[r].version = v.id
           /\ KeyInv'
<1>1. /\ \A v \in versions : v \in Version
      /\ \A u, v \in versions : u.id = v.id => u = v
      /\ \A v \in versions : v.id <= lastId
  BY DEF BaseInv, TypeOK, KeyInv
<1>2. /\ Received(target, x) \in Version /\ Same(target, Received(target, x))
      /\ target.status # "DRAFT" => Gained(target, Received(target, x))
  BY <1>1, ReceivedIs
<1>3. \A v \in versions : Same(v, v) /\ Gained(v, v)
  BY DEF Same, Gained
<1>4. CASE ReceiveField(x, target)
  <2>1. /\ versions' = (versions \ {target}) \cup {Received(target, x)}
        /\ lastId' = lastId
    BY <1>4 DEF ReceiveField, Receive
  <2>2. KeyInv'
    BY <1>1, <1>2, <2>1 DEF KeyInv, Same
  <2> QED BY <1>1, <1>2, <1>3, <2>1, <2>2
<1>5. CASE \E r \in Requests : CommitMove(r, x, target)
  <2>1. PICK r \in Requests : CommitMove(r, x, target)
    BY <1>5
  <2> DEFINE from == req[r].version
             goes(u) == CASE u = target   -> Received(u, x)
                          [] u.id = from  -> [u EXCEPT !.content = @ \ {x}]
                          [] OTHER        -> u
  <2>2. /\ versions' = {goes(u) : u \in versions}
        /\ lastId' = lastId
        /\ req[r].at = "edit"
        /\ target.id # from
    BY <1>1, <2>1 DEF CommitMove
  <2>3. \A u \in versions : goes(u) \in Version /\ Same(u, goes(u))
    <3> SUFFICES ASSUME NEW u \in versions
                 PROVE  goes(u) \in Version /\ Same(u, goes(u))
      OBVIOUS
    <3>1. CASE u = target
      <4>1. goes(target) = Received(target, x)
        BY <2>2
      <4> HIDE DEF goes
      <4> QED BY <1>2, <3>1, <4>1
    <3>2. CASE u # target /\ u.id = from
      <4>1. goes(u) = [u EXCEPT !.content = @ \ {x}]
        BY <3>2
      <4> QED BY <1>1, <4>1 DEF Version, Contents, Same
    <3>3. CASE u # target /\ u.id # from
      BY <1>1, <1>3, <3>3
    <3> QED BY <3>1, <3>2, <3>3
  <2>4. \A u \in versions : u.status = "DRAFT" \/ u.id = from \/ Gained(u, goes(u))
    BY <1>2, <1>3, <2>2
  <2> HIDE DEF goes
  <2>5. KeyInv'
    BY <1>1, <2>2, <2>3 DEF KeyInv, Same
  <2> QED BY <2>2, <2>3, <2>4, <2>5
<1> QED BY <1>4, <1>5

LEMMA StepBase ==
    ASSUME BaseInv, NEW r \in Requests, Step(r)
    PROVE  BaseInv'
<1>1. req[r] \in Request /\ MaxVersions \in Nat /\ lastId \in 0..MaxVersions
  BY MaxVersionsAssumption DEF BaseInv, TypeOK
<1>2. CASE CheckDraft(r) /\ Having("DRAFT") = {}
  <2> DEFINE reads == [req[r] EXCEPT !.at = "number"]
  <2>1. Continue(r, reads) /\ UNCHANGED contractVars /\ req[r].at = "draft"
    BY <1>2 DEF CheckDraft
  <2>2. reads \in Request /\ reads.kind = req[r].kind /\ reads.at = "number"
    BY <1>1 DEF Request, Labels
  <2>3. reads.kind \in KindsAt(reads.at)
    BY <2>1, <2>2 DEF BaseInv, KindInv, KindsAt
  <2> HIDE DEF reads
  <2> QED BY <2>1, <2>2, <2>3, ContinueBase
          DEF BaseInv, TypeOK, KeyInv, contractVars
<1>3. CASE ReadNumber(r)
  <2>1. PICK n \in 1..(MaxVersions + 1) :
            Continue(r, [req[r] EXCEPT !.at = "insert", !.number = n])
    BY <1>3 DEF ReadNumber
  <2> DEFINE reads == [req[r] EXCEPT !.at = "insert", !.number = n]
  <2>2. reads \in Request /\ reads.kind = req[r].kind /\ reads.at = "insert"
    <3>1. n \in Nat \ {0}
      BY <1>1
    <3> QED BY <1>1, <3>1 DEF Request, Labels
  <2>3. reads.kind \in KindsAt(reads.at)
    BY <1>3, <2>2 DEF ReadNumber, BaseInv, KindInv, KindsAt
  <2>4. Continue(r, reads) /\ UNCHANGED contractVars
    BY <1>3, <2>1 DEF ReadNumber
  <2> HIDE DEF reads
  <2> QED BY <2>2, <2>3, <2>4, ContinueBase
          DEF BaseInv, TypeOK, KeyInv, contractVars
<1>4. CASE ReadCurrent(r)
  <2>1. PICK id \in 0..MaxVersions :
            Continue(r, [req[r] EXCEPT !.at = "publish", !.current = id])
    BY <1>4 DEF ReadCurrent
  <2> DEFINE reads == [req[r] EXCEPT !.at = "publish", !.current = id]
  <2>2. reads \in Request /\ reads.kind = req[r].kind /\ reads.at = "publish"
    BY <1>1 DEF Request, Labels
  <2>3. reads.kind \in KindsAt(reads.at)
    BY <1>4, <2>2 DEF ReadCurrent, BaseInv, KindInv, KindsAt
  <2>4. Continue(r, reads) /\ UNCHANGED contractVars
    BY <1>4, <2>1 DEF ReadCurrent
  <2> HIDE DEF reads
  <2> QED BY <2>2, <2>3, <2>4, ContinueBase
          DEF BaseInv, TypeOK, KeyInv, contractVars
<1>5. CASE CheckDraft(r) /\ Having("DRAFT") # {}
  BY <1>5, EndBase DEF CheckDraft, BaseInv, TypeOK, KeyInv, contractVars
<1>6. CASE Insert(r)
  <2>1. End(r)
    BY <1>6 DEF Insert
  <2>2. CASE UNCHANGED contractVars
    BY <2>1, <2>2, EndBase DEF BaseInv, TypeOK, KeyInv, contractVars
  <2>3. CASE /\ lastId < MaxVersions /\ lastId' = lastId + 1
             /\ versions' = versions \cup
                  {[id |-> lastId + 1, number |-> req[r].number,
                    status |-> "DRAFT", content |-> req[r].content,
                    arrived |-> {}]}
    <3> DEFINE new == [id |-> lastId + 1, number |-> req[r].number,
                       status |-> "DRAFT", content |-> req[r].content,
                       arrived |-> {}]
    <3>1. /\ new \in Version
          /\ new.id = lastId + 1 /\ lastId' \in 0..MaxVersions
      BY <1>1, <2>3 DEF Request, Version, Statuses, Contents
    <3>2. versions' = versions \cup {new} /\ lastId' = lastId + 1
      BY <2>3
    <3> HIDE DEF new
    <3>3. KeyInv'
      BY <1>1, <3>1, <3>2 DEF BaseInv, TypeOK, KeyInv, Version
    <3> QED BY <2>1, <3>1, <3>2, <3>3, EndBase DEF BaseInv, TypeOK
  <2> QED BY <1>6, <2>2, <2>3 DEF Insert
<1>7. CASE CommitPublish(r) \/ CommitEdit(r) \/ CommitDelete(r)
  <2>1. End(r) /\ lastId' = lastId
    BY <1>7 DEF CommitPublish, CommitEdit, CommitDelete
  <2>2. versions' \subseteq Version
    BY <1>7 DEF BaseInv, TypeOK, CommitPublish, CommitEdit, CommitDelete,
              Version, Statuses
  <2>3. KeyInv'
    BY <1>7, <2>1
       DEF BaseInv, TypeOK, KeyInv, Version, CommitPublish, CommitEdit,
           CommitDelete
  <2> QED BY <2>1, <2>2, <2>3, EndBase DEF BaseInv, TypeOK
<1>8. ASSUME NEW x \in Rows, NEW target \in versions, CommitMove(r, x, target)
      PROVE  BaseInv'
  <2>1. End(r)
    BY <1>8 DEF CommitMove
  <2>2. /\ lastId' = lastId
        /\ versions' \subseteq Version
        /\ KeyInv'
    BY <1>8, MoveIs
  <2> QED BY <2>1, <2>2, EndBase DEF BaseInv, TypeOK
<1> QED BY <1>2, <1>3, <1>4, <1>5, <1>6, <1>7, <1>8 DEF Step

LEMMA BeginBase ==
    ASSUME BaseInv, NEW r \in Requests,
           \/ BeginCreate(r)
           \/ \E v \in versions : \/ BeginClone(r, v)
                                  \/ BeginPublish(r, v)
                                  \/ BeginEdit(r, v)
                                  \/ BeginDelete(r, v)
    PROVE  BaseInv'
<1>1. Idle \in Request
  BY IdleIs
<1>2. PICK reads \in Request :
          /\ Continue(r, reads)
          /\ MayStart(r, reads.kind)
          /\ reads.kind \in KindsAt(reads.at)
  <2>1. CASE BeginCreate(r)
    <3> DEFINE reads == [Idle EXCEPT !.kind = "create", !.at = "number"]
    <3>1. reads \in Request /\ reads.kind \in KindsAt(reads.at)
          /\ reads.kind = "create"
      BY <1>1 DEF Request, Labels, Kinds, KindsAt
    <3> QED BY <2>1, <3>1 DEF BeginCreate
  <2>2. ASSUME NEW v \in versions, BeginClone(r, v)
        PROVE  \E reads \in Request : /\ Continue(r, reads)
                                      /\ MayStart(r, reads.kind)
                                      /\ reads.kind \in KindsAt(reads.at)
    <3> DEFINE reads == [Idle EXCEPT !.kind = "clone", !.at = "draft",
                                     !.content = v.content]
    <3>1. reads \in Request /\ reads.kind \in KindsAt(reads.at)
          /\ reads.kind = "clone"
      BY <1>1 DEF Request, Labels, Kinds, KindsAt, BaseInv, TypeOK, Version
    <3> QED BY <2>2, <3>1 DEF BeginClone
  <2>3. ASSUME NEW v \in versions, BeginPublish(r, v)
        PROVE  \E reads \in Request : /\ Continue(r, reads)
                                      /\ MayStart(r, reads.kind)
                                      /\ reads.kind \in KindsAt(reads.at)
    <3> DEFINE reads == [Idle EXCEPT !.kind = "publish", !.at = "current",
                                     !.version = v.id]
    <3>1. v.id \in 0..MaxVersions
      BY DEF BaseInv, TypeOK, Version
    <3>2. reads \in Request /\ reads.kind \in KindsAt(reads.at)
          /\ reads.kind = "publish"
      BY <1>1, <3>1 DEF Request, Labels, Kinds, KindsAt
    <3> QED BY <2>3, <3>2 DEF BeginPublish
  <2>4. ASSUME NEW v \in versions, NEW k \in {"edit", "delete"},
               BeginWrite(r, v, k)
        PROVE  \E reads \in Request : /\ Continue(r, reads)
                                      /\ MayStart(r, reads.kind)
                                      /\ reads.kind \in KindsAt(reads.at)
    <3> DEFINE reads == [Idle EXCEPT !.kind = k, !.at = k, !.version = v.id]
    <3>1. v.id \in 0..MaxVersions
      BY DEF BaseInv, TypeOK, Version
    <3>2. reads \in Request /\ reads.kind \in KindsAt(reads.at)
          /\ reads.kind = k
      BY <1>1, <3>1 DEF Request, Labels, Kinds, KindsAt
    <3> QED BY <2>4, <3>2 DEF BeginWrite
  <2> QED BY <2>1, <2>2, <2>3, <2>4 DEF BeginEdit, BeginDelete
<1>3. UNCHANGED contractVars
  BY DEF BeginCreate, BeginClone, BeginPublish, BeginEdit, BeginDelete, BeginWrite
<1> QED BY <1>2, <1>3, ContinueBase DEF BaseInv, TypeOK, KeyInv, contractVars

LEMMA NextBase == BaseInv /\ [Next]_vars => BaseInv'
<1> SUFFICES ASSUME BaseInv, [Next]_vars PROVE BaseInv'
  OBVIOUS
<1>1. CASE UNCHANGED vars
  BY <1>1 DEF vars, contractVars, BaseInv, TypeOK, KindInv, ConflictInv, KeyInv
<1>2. ASSUME NEW x \in Rows, NEW target \in versions, ReceiveField(x, target)
      PROVE  BaseInv'
  <2>1. /\ lastId' = lastId
        /\ versions' \subseteq Version
        /\ KeyInv'
    BY <1>2, MoveIs
  <2>2. req' = req
    BY <1>2 DEF ReceiveField
  <2> QED BY <2>1, <2>2 DEF BaseInv, TypeOK, KindInv, ConflictInv
<1> QED BY <1>1, <1>2, BeginBase, StepBase DEF Next

LEMMA BaseInvariance == Spec => []BaseInv
BY InitBase, NextBase, PTL DEF Spec

(* Whatever handlers run and however they interleave, every variable keeps *)
(* a value of its kind.                                                    *)
THEOREM TypeCorrect == Spec => []TypeOK
<1>1. BaseInv => TypeOK
  BY DEF BaseInv
<1> QED BY <1>1, BaseInvariance, PTL

-----------------------------------------------------------------------------
(* With creations one at a time, and publications one at a time            *)

(* What makes a DRAFT is kept apart, and so are publications; a creation   *)
(* and a publication may overlap.                                          *)
LifecycleApart ==
    /\ \A x, y \in {"create", "clone"} : {x, y} \in Conflicts
    /\ {"publish"} \in Conflicts

(* What the handlers in flight rely on: no DRAFT appears between the check *)
(* and the INSERT and the number stays the next one; the version to publish*)
(* stays a DRAFT, if it stays at all, and no new one can be taken for it;  *)
(* the PUBLISHED version stays the one that was read.                      *)
FlightInv ==
    \A r \in Requests :
        /\ req[r].at \in {"number", "insert"} => Having("DRAFT") = {}
        /\ req[r].at = "insert" => \A v \in versions : v.number < req[r].number
        /\ req[r].at \in {"current", "publish"} =>
              /\ req[r].version \in 1..lastId
              /\ \A v \in versions : v.id = req[r].version => v.status = "DRAFT"
        /\ req[r].at = "publish" =>
              \A v \in Having("PUBLISHED") : v.id = req[r].current

LifecycleInv ==
    /\ AtMostOneDraft
    /\ AtMostOnePublished
    /\ NumbersFollowLifecycle
    /\ FlightInv

LEMMA InitLifecycle == Init => LifecycleInv
BY DEF Init, ContractInit, LifecycleInv, AtMostOneDraft, AtMostOnePublished,
       NumbersFollowLifecycle, FlightInv, Having, Idle

(* Beside a creation no other one is in flight, nor beside a publication.  *)
LEMMA Alone ==
    ASSUME BaseInv, LifecycleApart,
           NEW r \in Requests, NEW q \in Requests, q # r
    PROVE  /\ req[r].at = "insert" => req[q].at \notin {"number", "insert"}
           /\ req[r].at = "publish" => req[q].at \notin {"current", "publish"}
<1>1. /\ req[r].kind \in KindsAt(req[r].at)
      /\ req[q].kind \in KindsAt(req[q].at)
      /\ {req[r].kind, req[q].kind} \notin Conflicts
  BY DEF BaseInv, KindInv, ConflictInv
<1>2. CASE req[r].at = "insert" /\ req[q].at \in {"number", "insert"}
  BY <1>1, <1>2 DEF KindsAt, LifecycleApart
<1>3. CASE req[r].at = "publish" /\ req[q].at \in {"current", "publish"}
  <2>1. req[r].kind = "publish" /\ req[q].kind = "publish"
    BY <1>1, <1>3 DEF KindsAt
  <2> QED BY <1>1, <2>1 DEF LifecycleApart
<1> QED BY <1>2, <1>3

(* A publication finds nothing to write once there is no DRAFT.            *)
LEMMA NothingToPublish ==
    ASSUME BaseInv, LifecycleInv, NEW r \in Requests, CommitPublish(r),
           Having("DRAFT") = {}
    PROVE  versions' = versions
<1>1. req[r].version \notin Ids \cup {0}
  BY MaxVersionsAssumption
     DEF CommitPublish, LifecycleInv, FlightInv, Having, Ids, BaseInv, TypeOK
<1> QED BY <1>1 DEF CommitPublish

(* A step that only reads has to establish what its own request relies on. *)
LEMMA ReadLifecycle ==
    ASSUME BaseInv, LifecycleInv, NEW r \in Requests, NEW reads \in Request,
           Continue(r, reads), UNCHANGED contractVars,
           reads.at \in {"number", "insert"} => Having("DRAFT") = {},
           reads.at = "insert" => \A v \in versions : v.number < reads.number,
           reads.at \in {"current", "publish"} =>
              /\ reads.version \in 1..lastId
              /\ \A v \in versions : v.id = reads.version => v.status = "DRAFT",
           reads.at = "publish" =>
              \A v \in Having("PUBLISHED") : v.id = reads.current
    PROVE  LifecycleInv'
<1>1. /\ req'[r] = reads
      /\ \A q \in Requests \ {r} : req'[q] = req[q]
  BY DEF BaseInv, TypeOK, Continue
<1>2. /\ versions' = versions /\ lastId' = lastId
      /\ \A s : Having(s)' = Having(s)
  BY DEF contractVars, Having
<1>3. FlightInv'
  BY <1>1, <1>2 DEF LifecycleInv, FlightInv
<1> QED BY <1>2, <1>3 DEF LifecycleInv, AtMostOneDraft, AtMostOnePublished,
                          NumbersFollowLifecycle

(* A write that only takes versions away or changes their content.         *)
LEMMA WriteLifecycle ==
    ASSUME BaseInv, BaseInv', LifecycleInv,
           \A q \in Requests : req'[q] \in {Idle, req[q]},
           UNCHANGED lastId,
           \A w \in versions' : \E v \in versions : Same(v, w)
    PROVE  LifecycleInv'
<1>1. \A w \in versions' : \E v \in versions :
          v.id = w.id /\ v.number = w.number /\ v.status = w.status
  BY DEF Same
<1>2. \A u, w \in versions' : u.id = w.id => u = w
  BY DEF BaseInv, KeyInv
<1>3. AtMostOneDraft' /\ AtMostOnePublished'
  BY <1>1, <1>2 DEF LifecycleInv, AtMostOneDraft, AtMostOnePublished, Having
<1>4. NumbersFollowLifecycle'
  BY <1>1, <1>2 DEF LifecycleInv, NumbersFollowLifecycle
<1>5. FlightInv'
  <2> SUFFICES ASSUME NEW q \in Requests PROVE FlightInv!(q)'
    BY DEF FlightInv
  <2>1. CASE req'[q] = Idle
    BY <2>1 DEF Idle
  <2>2. CASE req'[q] = req[q]
    BY <1>1, <2>2 DEF LifecycleInv, FlightInv, Having
  <2> QED BY <2>1, <2>2
<1> QED BY <1>3, <1>4, <1>5 DEF LifecycleInv

LEMMA EndIs ==
    ASSUME BaseInv, NEW r \in Requests, End(r)
    PROVE  \A q \in Requests : req'[q] \in {Idle, req[q]}
  BY DEF BaseInv, TypeOK, End, Continue

LEMMA InsertLifecycle ==
    ASSUME BaseInv, LifecycleInv, LifecycleApart,
           NEW r \in Requests, Insert(r)
    PROVE  LifecycleInv'
<1>1. /\ req'[r] = Idle
      /\ \A q \in Requests \ {r} : req'[q] = req[q]
      /\ req[r].at = "insert"
  BY DEF BaseInv, TypeOK, Insert, End, Continue
<1>2. \A q \in Requests \ {r} : req[q].at \notin {"number", "insert"}
  BY <1>1, Alone
<1>3. lastId \in Nat
  BY MaxVersionsAssumption DEF BaseInv, TypeOK
<1>4. CASE UNCHANGED contractVars
  BY <1>1, <1>4 DEF contractVars, LifecycleInv, AtMostOneDraft, FlightInv,
                    AtMostOnePublished, NumbersFollowLifecycle, Having, Idle
<1>5. ASSUME NEW new, versions' = versions \cup {new}, lastId' = lastId + 1,
             new.id = lastId + 1, new.number = req[r].number,
             new.status = "DRAFT"
      PROVE  LifecycleInv'
  <2>1. /\ Having("DRAFT") = {}
        /\ \A v \in versions : v.number < new.number
        /\ \A v \in versions : v.number \in Nat
        /\ new.number \in Nat
    BY <1>1, <1>5 DEF LifecycleInv, FlightInv, BaseInv, TypeOK, Version, Request
  <2>2. \A v \in versions : v.status \in {"PUBLISHED", "ARCHIVED"}
    BY <2>1 DEF Having, BaseInv, TypeOK, Version, Statuses
  <2>3. AtMostOneDraft' /\ AtMostOnePublished'
    BY <1>5, <2>2 DEF LifecycleInv, AtMostOneDraft, AtMostOnePublished, Having
  <2>4. NumbersFollowLifecycle'
    BY <1>5, <2>1, <2>2 DEF LifecycleInv, NumbersFollowLifecycle, Age
  <2>5. FlightInv'
    <3> SUFFICES ASSUME NEW q \in Requests, q # r PROVE FlightInv!(q)'
      BY <1>1 DEF FlightInv, Idle
    <3>1. req'[q] = req[q] /\ req[q].at \notin {"number", "insert"}
      BY <1>1, <1>2
    <3>2. Having("PUBLISHED")' = Having("PUBLISHED")
      BY <1>5 DEF Having
    <3>3. CASE req[q].at \in {"current", "publish"}
      <4>1. req[q].version \in 1..lastId /\ FlightInv!(q)
        BY <3>3 DEF LifecycleInv, FlightInv
      <4>2. req[q].version \in 1..lastId' /\ req[q].version # new.id
        BY <1>3, <1>5, <4>1
      <4> QED BY <1>5, <3>1, <3>2, <4>1, <4>2
    <3> QED BY <3>1, <3>3
  <2> QED BY <2>3, <2>4, <2>5 DEF LifecycleInv
<1> QED BY <1>4, <1>5 DEF Insert, contractVars

LEMMA PublishLifecycle ==
    ASSUME BaseInv, BaseInv', LifecycleInv, LifecycleApart,
           NEW r \in Requests, CommitPublish(r)
    PROVE  LifecycleInv'
<1> DEFINE new == req[r].version
           old == req[r].current
           moved(v) == CASE v.id = new -> [v EXCEPT !.status = "PUBLISHED"]
                         [] v.id = old /\ old # new ->
                                [v EXCEPT !.status = "ARCHIVED"]
                         [] OTHER -> v
<1>1. /\ req'[r] = Idle
      /\ \A q \in Requests \ {r} : req'[q] = req[q]
      /\ req[r].at = "publish"
  BY DEF BaseInv, TypeOK, CommitPublish, End, Continue
<1>2. lastId' = lastId
  BY DEF CommitPublish
<1>3. FlightInv'
  <2> SUFFICES ASSUME NEW q \in Requests, q # r PROVE FlightInv!(q)'
    BY <1>1 DEF FlightInv, Idle
  <2>1. req'[q] = req[q] /\ req[q].at \notin {"current", "publish"}
    BY <1>1, Alone
  <2>2. CASE req[q].at \in {"number", "insert"}
    <3>1. Having("DRAFT") = {}
      BY <2>2 DEF LifecycleInv, FlightInv
    <3>2. versions' = versions
      BY <3>1, NothingToPublish
    <3> QED BY <2>1, <3>1, <3>2 DEF LifecycleInv, FlightInv, Having
  <2> QED BY <2>1, <2>2
<1>4. CASE versions' = versions
  BY <1>3, <1>4 DEF LifecycleInv, AtMostOneDraft, AtMostOnePublished,
                    NumbersFollowLifecycle, Having
<1>5. CASE versions' = {moved(v) : v \in versions}
  <2>1. \A v \in versions :
            /\ v.status \in Statuses /\ v.number \in Nat
            /\ moved(v).number = v.number
            /\ moved(v).status =
                  IF v.id = new THEN "PUBLISHED"
                  ELSE IF v.id = old THEN "ARCHIVED" ELSE v.status
    BY DEF BaseInv, TypeOK, Version
  <2>2. /\ \A v \in versions : v.id = new => v.status = "DRAFT"
        /\ \A v \in versions : v.status = "PUBLISHED" => v.id = old
        /\ \A u, v \in versions : u.id = v.id => u = v
        /\ \A u, v \in versions : u.status = "DRAFT" /\ v.status = "DRAFT" => u = v
    BY <1>1 DEF LifecycleInv, FlightInv, AtMostOneDraft, Having, BaseInv, KeyInv
  <2> HIDE DEF moved, new, old
  <2>3. AtMostOneDraft' /\ AtMostOnePublished'
    BY <1>5, <2>1, <2>2 DEF AtMostOneDraft, AtMostOnePublished, Having, Statuses
  <2>4. NumbersFollowLifecycle'
    <3> SUFFICES ASSUME NEW u \in versions, NEW v \in versions
                 PROVE  /\ moved(u).number = moved(v).number => moved(u) = moved(v)
                        /\ Age[moved(u).status] < Age[moved(v).status] =>
                              moved(u).number < moved(v).number
      BY <1>5 DEF NumbersFollowLifecycle
    <3>1. /\ u.number = v.number => u = v
          /\ Age[u.status] < Age[v.status] => u.number < v.number
      BY DEF LifecycleInv, NumbersFollowLifecycle
    <3> QED BY <2>1, <2>2, <3>1 DEF Age, Statuses
  <2> QED BY <1>3, <2>3, <2>4 DEF LifecycleInv
<1> QED BY <1>4, <1>5 DEF CommitPublish

LEMMA BeginLifecycle ==
    ASSUME BaseInv, LifecycleInv, NEW r \in Requests,
           \/ BeginCreate(r)
           \/ \E v \in versions : \/ BeginClone(r, v)
                                  \/ BeginPublish(r, v)
                                  \/ BeginEdit(r, v)
                                  \/ BeginDelete(r, v)
    PROVE  LifecycleInv'
<1>1. Idle \in Request
  BY IdleIs
<1>2. /\ \A v \in versions : v.id \in 0..MaxVersions /\ v.content \in Contents
      /\ \A u, v \in versions : u.id = v.id => u = v
  BY DEF BaseInv, TypeOK, KeyInv, Version
<1>3. CASE BeginCreate(r)
  <2> DEFINE reads == [Idle EXCEPT !.kind = "create", !.at = "number"]
  <2>1. reads \in Request /\ reads.at = "number"
    BY <1>1 DEF Request, Labels, Kinds
  <2> QED BY <1>3, <2>1, ReadLifecycle DEF BeginCreate
<1>4. ASSUME NEW v \in versions, BeginClone(r, v)
      PROVE  LifecycleInv'
  <2> DEFINE reads == [Idle EXCEPT !.kind = "clone", !.at = "draft",
                                   !.content = v.content]
  <2>1. reads \in Request /\ reads.at = "draft"
    BY <1>1, <1>2 DEF Request, Labels, Kinds
  <2> QED BY <1>4, <2>1, ReadLifecycle DEF BeginClone
<1>5. ASSUME NEW v \in versions, BeginPublish(r, v)
      PROVE  LifecycleInv'
  <2> DEFINE reads == [Idle EXCEPT !.kind = "publish", !.at = "current",
                                   !.version = v.id]
  <2>1. reads \in Request /\ reads.at = "current" /\ reads.version = v.id
    BY <1>1, <1>2 DEF Request, Labels, Kinds
  <2>2. /\ reads.version \in 1..lastId
        /\ \A u \in versions : u.id = reads.version => u.status = "DRAFT"
    <3>1. v.id \in 1..MaxVersions /\ v.id <= lastId /\ lastId \in Nat
      BY MaxVersionsAssumption DEF BaseInv, TypeOK, KeyInv, Version
    <3>2. v.id \in 1..lastId
      BY <3>1, MaxVersionsAssumption
    <3>3. v.status = "DRAFT"
      BY <1>5 DEF BeginPublish, Having
    <3> HIDE DEF reads
    <3> QED BY <1>2, <2>1, <3>2, <3>3
  <2> HIDE DEF reads
  <2>3. Continue(r, reads) /\ UNCHANGED contractVars
    BY <1>5 DEF BeginPublish, reads
  <2> QED BY <2>1, <2>2, <2>3, ReadLifecycle
<1>6. ASSUME NEW v \in versions, NEW k \in {"edit", "delete"},
             BeginWrite(r, v, k)
      PROVE  LifecycleInv'
  <2> DEFINE reads == [Idle EXCEPT !.kind = k, !.at = k, !.version = v.id]
  <2>1. reads \in Request /\ reads.at = k
    BY <1>1, <1>2 DEF Request, Labels, Kinds
  <2> QED BY <1>6, <2>1, ReadLifecycle DEF BeginWrite
<1> QED BY <1>3, <1>4, <1>5, <1>6 DEF BeginEdit, BeginDelete

LEMMA StepLifecycle ==
    ASSUME BaseInv, BaseInv', LifecycleInv, LifecycleApart,
           NEW r \in Requests, Step(r)
    PROVE  LifecycleInv'
<1>1. req[r] \in Request /\ Idle \in Request
  BY IdleIs DEF BaseInv, TypeOK
<1>2. CASE CheckDraft(r)
  <2>1. CASE Having("DRAFT") = {}
    <3> DEFINE reads == [req[r] EXCEPT !.at = "number"]
    <3>1. reads \in Request /\ reads.at = "number"
      BY <1>1 DEF Request, Labels
    <3> QED BY <1>2, <2>1, <3>1, ReadLifecycle DEF CheckDraft
  <2>2. CASE Having("DRAFT") # {}
    BY <1>1, <1>2, <2>2, ReadLifecycle DEF CheckDraft, End, Idle
  <2> QED BY <2>1, <2>2
<1>3. CASE ReadNumber(r)
  <2>1. PICK n \in 1..(MaxVersions + 1) :
            /\ IsNextNumber(n)
            /\ Continue(r, [req[r] EXCEPT !.at = "insert", !.number = n])
    BY <1>3 DEF ReadNumber
  <2> DEFINE reads == [req[r] EXCEPT !.at = "insert", !.number = n]
  <2>2. reads \in Request /\ reads.at = "insert" /\ reads.number = n
    <3>1. n \in Nat \ {0}
      BY MaxVersionsAssumption
    <3> QED BY <1>1, <3>1 DEF Request, Labels
  <2>3. Having("DRAFT") = {} /\ \A v \in versions : v.number < n
    BY <1>3, <2>1 DEF ReadNumber, IsNextNumber, LifecycleInv, FlightInv
  <2>4. Continue(r, reads) /\ UNCHANGED contractVars
    BY <1>3, <2>1 DEF ReadNumber
  <2> HIDE DEF reads
  <2> QED BY <2>2, <2>3, <2>4, ReadLifecycle
<1>4. CASE ReadCurrent(r)
  <2>1. PICK id \in 0..MaxVersions :
            /\ IF Having("PUBLISHED") = {}
               THEN id = 0
               ELSE \E v \in Having("PUBLISHED") : v.id = id
            /\ Continue(r, [req[r] EXCEPT !.at = "publish", !.current = id])
    BY <1>4 DEF ReadCurrent
  <2> DEFINE reads == [req[r] EXCEPT !.at = "publish", !.current = id]
  <2>2. /\ reads \in Request /\ reads.at = "publish"
        /\ reads.current = id /\ reads.version = req[r].version
    BY <1>1 DEF Request, Labels
  <2>3. /\ reads.version \in 1..lastId
        /\ \A v \in versions : v.id = reads.version => v.status = "DRAFT"
    BY <1>4, <2>2 DEF ReadCurrent, LifecycleInv, FlightInv
  <2>4. \A v \in Having("PUBLISHED") : v.id = reads.current
    BY <2>1, <2>2 DEF LifecycleInv, AtMostOnePublished
  <2>5. Continue(r, reads) /\ UNCHANGED contractVars
    BY <1>4, <2>1 DEF ReadCurrent
  <2> HIDE DEF reads
  <2> QED BY <2>2, <2>3, <2>4, <2>5, ReadLifecycle
<1>5. CASE CommitEdit(r) \/ CommitDelete(r)
  <2>1. End(r) /\ UNCHANGED lastId /\ \A w \in versions' : \E v \in versions :
            Same(v, w)
    BY <1>5 DEF CommitEdit, CommitDelete, BaseInv, TypeOK, Version, Same
  <2> QED BY <2>1, EndIs, WriteLifecycle
<1>6. ASSUME NEW x \in Rows, NEW target \in versions, CommitMove(r, x, target)
      PROVE  LifecycleInv'
  <2>1. End(r)
    BY <1>6 DEF CommitMove
  <2>2. UNCHANGED lastId /\ \A w \in versions' : \E v \in versions : Same(v, w)
    BY <1>6, MoveIs
  <2> QED BY <2>1, <2>2, EndIs, WriteLifecycle
<1> QED BY <1>2, <1>3, <1>4, <1>5, <1>6, InsertLifecycle, PublishLifecycle DEF Step

LEMMA NextLifecycle ==
    ASSUME LifecycleApart, BaseInv, LifecycleInv, [Next]_vars
    PROVE  LifecycleInv'
<1>1. BaseInv'
  BY NextBase
<1>2. CASE UNCHANGED vars
  BY <1>2 DEF vars, contractVars, LifecycleInv, AtMostOneDraft,
              AtMostOnePublished, NumbersFollowLifecycle, FlightInv, Having
<1>3. ASSUME NEW x \in Rows, NEW target \in versions, ReceiveField(x, target)
      PROVE  LifecycleInv'
  <2>1. UNCHANGED lastId /\ \A w \in versions' : \E v \in versions : Same(v, w)
    BY <1>3, MoveIs
  <2>2. \A q \in Requests : req'[q] \in {Idle, req[q]}
    BY <1>3 DEF ReceiveField
  <2> QED BY <1>1, <2>1, <2>2, WriteLifecycle
<1> QED BY <1>1, <1>2, <1>3, BeginLifecycle, StepLifecycle DEF Next

LEMMA LifecycleInvariance ==
    ASSUME LifecycleApart
    PROVE  Spec => []LifecycleInv
<1>1. BaseInv /\ LifecycleInv /\ BaseInv' /\ [Next]_vars => LifecycleInv'
  BY NextLifecycle
<1> QED BY <1>1, InitLifecycle, BaseInvariance, PTL DEF Spec

(* When creations and clones of an entity do not overlap each other, nor   *)
(* publications each other, there is one DRAFT at most: creations may      *)
(* overlap publications, and edits and deletions all of them, in any way.  *)
THEOREM OneDraft ==
    ASSUME LifecycleApart
    PROVE  Spec => []AtMostOneDraft
<1>1. LifecycleInv => AtMostOneDraft
  BY DEF LifecycleInv
<1> QED BY <1>1, LifecycleInvariance, PTL

(* Under the same condition publish_version leaves one PUBLISHED version   *)
(* at most.                                                                *)
THEOREM OnePublished ==
    ASSUME LifecycleApart
    PROVE  Spec => []AtMostOnePublished
<1>1. LifecycleInv => AtMostOnePublished
  BY DEF LifecycleInv
<1> QED BY <1>1, LifecycleInvariance, PTL

(* Under the same condition the numbers that _calculate_next_version_number*)
(* gives are unique and ordered as the lives of the versions are.          *)
THEOREM NumbersOrdered ==
    ASSUME LifecycleApart
    PROVE  Spec => []NumbersFollowLifecycle
<1>1. LifecycleInv => NumbersFollowLifecycle
  BY DEF LifecycleInv
<1> QED BY <1>1, LifecycleInvariance, PTL
-----------------------------------------------------------------------------
(* With publications kept apart from edits and deletions                   *)

WritersApart ==
    {"publish", "edit"} \in Conflicts /\ {"publish", "delete"} \in Conflicts

(* The version an edit or a deletion is about to write is still a DRAFT.   *)
WriteInv ==
    \A r \in Requests : req[r].at \in {"edit", "delete"} =>
        \A v \in versions : v.id = req[r].version => v.status = "DRAFT"

(* Beside a publication no edit and no deletion is in flight.              *)
LEMMA WritersOut ==
    ASSUME BaseInv, WritersApart,
           NEW r \in Requests, req[r].kind = "publish",
           NEW q \in Requests
    PROVE  req[q].at \notin {"edit", "delete"}
<1>1. req[q].kind \notin {"edit", "delete"} \/ q = r
  BY DEF BaseInv, ConflictInv, WritersApart
<1>2. req[q].kind \in KindsAt(req[q].at)
  BY DEF BaseInv, KindInv
<1> QED BY <1>1, <1>2 DEF KindsAt

LEMMA StepWrite ==
    ASSUME BaseInv, BaseInv', WriteInv, WritersApart,
           NEW r \in Requests, Step(r)
    PROVE  WriteInv'
<1>1. /\ \A q \in Requests \ {r} : req'[q] = req[q]
      /\ req'[r].at \notin {"edit", "delete"}
  <2>1. req \in [Requests -> Request]
    BY DEF BaseInv, TypeOK
  <2>2. Idle.at = "idle"
    BY DEF Idle
  <2>3. CASE End(r)
    BY <2>1, <2>2, <2>3 DEF End, Continue
  <2>4. ASSUME NEW n, NEW at \in {"number", "insert", "publish"},
               \/ Continue(r, [req[r] EXCEPT !.at = at])
               \/ Continue(r, [req[r] EXCEPT !.at = at, !.number = n])
               \/ Continue(r, [req[r] EXCEPT !.at = at, !.current = n])
        PROVE  /\ \A q \in Requests \ {r} : req'[q] = req[q]
               /\ req'[r].at \notin {"edit", "delete"}
    <3>1. req[r] \in Request /\ "at" \in DOMAIN req[r]
      BY <2>1 DEF Request
    <3> QED BY <2>1, <2>4, <3>1 DEF Continue
  <2> QED BY <2>3, <2>4
          DEF Step, CheckDraft, ReadNumber, Insert, ReadCurrent, CommitPublish,
              CommitEdit, CommitMove, CommitDelete
<1>2. CASE CommitPublish(r)
  <2>1. req[r].kind = "publish"
    BY <1>2 DEF CommitPublish, BaseInv, KindInv, KindsAt
  <2> QED BY <1>1, <2>1, WritersOut DEF WriteInv
<1>3. CASE ~CommitPublish(r)
  <2>1. \A w \in versions' :
            \/ w.status = "DRAFT"
            \/ \E v \in versions : v.id = w.id /\ v.status = w.status
    <3>1. CASE UNCHANGED contractVars
      BY <3>1 DEF contractVars
    <3>2. CASE Insert(r)
      BY <3>2 DEF Insert, contractVars
    <3>3. CASE CommitEdit(r)
      BY <3>3 DEF CommitEdit, BaseInv, TypeOK, Version
    <3>4. CASE CommitDelete(r)
      BY <3>4 DEF CommitDelete
    <3>5. ASSUME NEW x \in Rows, NEW target \in versions, CommitMove(r, x, target)
          PROVE  \A w \in versions' :
                     \E v \in versions : v.id = w.id /\ v.status = w.status
      BY <3>5, MoveIs DEF Same
    <3> QED BY <1>3, <3>1, <3>2, <3>3, <3>4, <3>5
            DEF Step, CheckDraft, ReadNumber, ReadCurrent
  <2> QED BY <1>1, <2>1 DEF WriteInv
<1> QED BY <1>2, <1>3

LEMMA BeginWriteInv ==
    ASSUME BaseInv, WriteInv, NEW r \in Requests,
           \/ BeginCreate(r)
           \/ \E v \in versions : \/ BeginClone(r, v)
                                  \/ BeginPublish(r, v)
                                  \/ BeginEdit(r, v)
                                  \/ BeginDelete(r, v)
    PROVE  WriteInv'
<1>1. /\ \A q \in Requests \ {r} : req'[q] = req[q]
      /\ versions' = versions
  BY DEF BeginCreate, BeginClone, BeginPublish, BeginEdit, BeginDelete,
         BeginWrite, Continue, contractVars, BaseInv, TypeOK
<1>2. req'[r].at \in {"edit", "delete"} =>
          \E v \in versions : req'[r].version = v.id /\ v.status = "DRAFT"
  BY DEF BeginCreate, BeginClone, BeginPublish, BeginEdit, BeginDelete,
         BeginWrite, Continue, Idle, BaseInv, TypeOK, Having
<1> QED BY <1>1, <1>2 DEF WriteInv, BaseInv, KeyInv

LEMMA NextWrite ==
    ASSUME WritersApart, BaseInv, WriteInv, [Next]_vars
    PROVE  WriteInv'
<1>1. BaseInv'
  BY NextBase
<1>2. CASE UNCHANGED vars
  BY <1>2 DEF vars, contractVars, WriteInv
<1>3. ASSUME NEW x \in Rows, NEW target \in versions, ReceiveField(x, target)
      PROVE  WriteInv'
  <2>1. \A w \in versions' : \E v \in versions : v.id = w.id /\ v.status = w.status
    BY <1>3, MoveIs DEF Same
  <2> QED BY <1>3, <2>1 DEF WriteInv, ReceiveField
<1> QED BY <1>1, <1>2, <1>3, BeginWriteInv, StepWrite DEF Next

LEMMA WriteInvariance ==
    ASSUME WritersApart
    PROVE  Spec => []WriteInv
<1>1. Init => WriteInv
  BY DEF Init, WriteInv, Idle
<1>2. BaseInv /\ WriteInv /\ [Next]_vars => WriteInv'
  BY NextWrite
<1> QED BY <1>1, <1>2, BaseInvariance, PTL DEF Spec

(* A published version stays published or archived, and keeps what it      *)
(* holds; what it holds besides arrived by a move.                         *)
Kept(v, w) == w.id = v.id /\ w.status # "DRAFT" /\ Gained(v, w)

LEMMA StepKept ==
    ASSUME BaseInv, WriteInv, [Next]_vars
    PROVE  \A v \in versions \ Having("DRAFT") : \E w \in versions' : Kept(v, w)
<1> SUFFICES ASSUME NEW v \in versions, v.status # "DRAFT"
             PROVE  \E w \in versions' : Kept(v, w)
  BY DEF Having
<1>1. CASE versions' = versions
  BY <1>1 DEF Kept, Gained
<1>2. ASSUME NEW r \in Requests, Insert(r)
      PROVE  \E w \in versions' : Kept(v, w)
  BY <1>2 DEF Insert, contractVars, Kept, Gained
<1>3. ASSUME NEW r \in Requests, CommitPublish(r)
      PROVE  \E w \in versions' : Kept(v, w)
  <2>1. v \in Version
    BY DEF BaseInv, TypeOK
  <2> DEFINE moved(u) ==
        CASE u.id = req[r].version -> [u EXCEPT !.status = "PUBLISHED"]
          [] u.id = req[r].current /\ req[r].current # req[r].version ->
                [u EXCEPT !.status = "ARCHIVED"]
          [] OTHER -> u
  <2>2. Kept(v, moved(v))
    BY <2>1 DEF Version, Kept, Gained
  <2>3. versions' = versions \/ versions' = {moved(u) : u \in versions}
    BY <1>3 DEF CommitPublish
  <2> HIDE DEF moved
  <2>4. Kept(v, v)
    BY DEF Kept, Gained
  <2> QED BY <2>2, <2>3, <2>4
<1>4. ASSUME NEW r \in Requests, CommitEdit(r) \/ CommitDelete(r)
      PROVE  \E w \in versions' : Kept(v, w)
  <2>1. v.id # req[r].version
    BY <1>4 DEF WriteInv, CommitEdit, CommitDelete
  <2> QED BY <1>4, <2>1 DEF CommitEdit, CommitDelete, Kept, Gained
<1>5. CASE UNCHANGED vars
  BY <1>1, <1>5 DEF vars, contractVars
<1>6. ASSUME NEW x \in Rows, NEW target \in versions,
             \/ ReceiveField(x, target)
             \/ \E r \in Requests : CommitMove(r, x, target)
      PROVE  \E w \in versions' : Kept(v, w)
  <2>1. ~\E r \in Requests : req[r].at = "edit" /\ req[r].version = v.id
    BY DEF WriteInv
  <2>2. PICK w \in versions' : Same(v, w) /\ Gained(v, w)
    BY <1>6, <2>1, MoveIs
  <2> QED BY <2>2 DEF Kept, Same
<1> QED BY <1>1, <1>2, <1>3, <1>4, <1>5, <1>6
        DEF Next, Step, BeginCreate, BeginClone, BeginPublish, BeginEdit,
            BeginDelete, BeginWrite, CheckDraft, ReadNumber, ReadCurrent,
            contractVars

KeptStep == \A v \in versions \ Having("DRAFT") :
               \E w \in Later(v) : v.content \subseteq w.content

(* When no edit and no deletion overlaps a publication, a version keeps    *)
(* from its publication on every row it was published with, however many   *)
(* creations, clones and publications overlap and wherever fields are      *)
(* moved: what validate_version_is_draft is enough for.                    *)
THEOREM PublishedStays ==
    ASSUME WritersApart
    PROVE  Spec => PublishedIsKept
<1>1. BaseInv /\ WriteInv /\ [Next]_vars => [KeptStep]_contractVars
  BY StepKept DEF KeptStep, Later, Having, Kept, Gained
<1> QED BY <1>1, BaseInvariance, WriteInvariance, PTL
        DEF Spec, PublishedIsKept, KeptStep

-----------------------------------------------------------------------------
(* With both: the handlers implement the contract                          *)

(* A number stays the next one until it is inserted, and the version that  *)
(* a publication read stays the PUBLISHED one.                             *)
NextInv ==
    /\ \A v \in versions : v.number <= lastId
    /\ \A r \in Requests :
          /\ req[r].at = "insert" => IsNextNumber(req[r].number)
          /\ req[r].at = "publish" =>
                /\ req[r].current <= lastId
                /\ \A v \in versions :
                      v.id = req[r].current => v.status = "PUBLISHED"

AllInv == BaseInv /\ LifecycleInv /\ WriteInv /\ NextInv

QueuedAssumption == LifecycleApart /\ WritersApart

(* The number being inserted fits under the bound on versions.             *)
LEMMA NumberFits ==
    ASSUME BaseInv, NextInv, NEW n \in Nat \ {0}, IsNextNumber(n)
    PROVE  n <= lastId + 1
<1>1. lastId \in Nat /\ \A v \in versions : v.number \in Nat /\ v.number <= lastId
  BY MaxVersionsAssumption DEF BaseInv, TypeOK, Version, NextInv
<1> QED BY <1>1 DEF IsNextNumber

LEMMA StepNext ==
    ASSUME AllInv, BaseInv', QueuedAssumption, NEW r \in Requests, Step(r)
    PROVE  NextInv'
<1>1. /\ req \in [Requests -> Request]
      /\ Idle.at = "idle"
      /\ MaxVersions \in Nat /\ lastId \in Nat
  BY MaxVersionsAssumption DEF AllInv, BaseInv, TypeOK, Idle
<1>2. CASE CheckDraft(r)
  <2>1. /\ \A q \in Requests \ {r} : req'[q] = req[q]
        /\ req'[r].at \notin {"insert", "current", "publish"}
    BY <1>1, <1>2 DEF CheckDraft, End, Continue, Request
  <2> QED BY <1>2, <2>1
          DEF CheckDraft, contractVars, AllInv, NextInv, IsNextNumber
<1>3. CASE ReadNumber(r)
  <2>1. PICK n \in 1..(MaxVersions + 1) :
            /\ IsNextNumber(n)
            /\ Continue(r, [req[r] EXCEPT !.at = "insert", !.number = n])
    BY <1>3 DEF ReadNumber
  <2>2. /\ \A q \in Requests \ {r} : req'[q] = req[q]
        /\ req'[r].at = "insert" /\ req'[r].number = n
    BY <1>1, <2>1 DEF Continue, Request
  <2> QED BY <1>3, <2>1, <2>2
          DEF ReadNumber, contractVars, AllInv, NextInv, IsNextNumber
<1>4. CASE ReadCurrent(r)
  <2>1. PICK id \in 0..MaxVersions :
            /\ IF Having("PUBLISHED") = {}
               THEN id = 0
               ELSE \E v \in Having("PUBLISHED") : v.id = id
            /\ Continue(r, [req[r] EXCEPT !.at = "publish", !.current = id])
    BY <1>4 DEF ReadCurrent
  <2>2. /\ \A q \in Requests \ {r} : req'[q] = req[q]
        /\ req'[r].at = "publish" /\ req'[r].current = id
        /\ req'[r].version = req[r].version
    BY <1>1, <2>1 DEF Continue, Request
  <2>3. /\ id <= lastId
        /\ \A v \in versions : v.id = id => v.status = "PUBLISHED"
    BY <1>1, <2>1 DEF Having, AllInv, BaseInv, TypeOK, KeyInv, Version
  <2> QED BY <1>4, <2>2, <2>3
          DEF ReadCurrent, contractVars, AllInv, NextInv, IsNextNumber
<1>5. CASE Insert(r) \/ CommitPublish(r)
  <2>1. /\ \A q \in Requests \ {r} : req'[q] = req[q]
        /\ req'[r] = Idle
    BY <1>1, <1>5 DEF Insert, CommitPublish, End, Continue
  <2>2. \A v \in versions' : v.number <= lastId'
    <3>1. \A v \in versions : v \in Version /\ v.number \in Nat /\ v.number <= lastId
      BY DEF AllInv, NextInv, BaseInv, TypeOK, Version
    <3>2. CASE Insert(r)
      <4>1. req[r].number \in Nat \ {0} /\ req[r].number <= lastId + 1
        BY <1>1, <3>2, NumberFits DEF Insert, AllInv, NextInv, Request
      <4> QED BY <1>1, <3>1, <3>2, <4>1 DEF Insert, contractVars
    <3>3. CASE CommitPublish(r)
      BY <1>1, <3>1, <3>3 DEF CommitPublish, Version
    <3> QED BY <1>5, <3>2, <3>3
  <2>3. ASSUME NEW q \in Requests, q # r, req[q].at = "insert"
        PROVE  IsNextNumber(req[q].number)'
    <3>1. Having("DRAFT") = {} /\ req[r].at # "insert"
      BY <2>3, Alone DEF AllInv, LifecycleInv, FlightInv, QueuedAssumption
    <3>2. versions' = versions
      BY <1>5, <3>1, NothingToPublish DEF Insert, AllInv
    <3>3. IsNextNumber(req[q].number) /\ req'[q] = req[q]
      BY <2>1, <2>3 DEF AllInv, NextInv
    <3> QED BY <3>2, <3>3 DEF IsNextNumber
  <2>4. ASSUME NEW q \in Requests, q # r, req[q].at = "publish"
        PROVE  /\ req[q].current <= lastId'
               /\ \A v \in versions' :
                     v.id = req[q].current => v.status = "PUBLISHED"
    <3>1. Insert(r)
      BY <1>5, <2>4, Alone DEF CommitPublish, AllInv, QueuedAssumption
    <3>2. /\ req[q].current \in Nat /\ req[q].current <= lastId
          /\ \A v \in versions : v.id = req[q].current => v.status = "PUBLISHED"
      BY <1>1, <2>4 DEF AllInv, NextInv, Request
    <3> QED BY <1>1, <3>1, <3>2 DEF Insert, contractVars
  <2> QED BY <1>1, <2>1, <2>2, <2>3, <2>4 DEF NextInv
<1>6. CASE CommitEdit(r) \/ CommitDelete(r)
  <2>1. /\ \A q \in Requests \ {r} : req'[q] = req[q]
        /\ req'[r].at \notin {"insert", "current", "publish"}
        /\ lastId' = lastId
    BY <1>1, <1>6 DEF CommitEdit, CommitDelete, End, Continue
  <2>2. \A w \in versions' : \E v \in versions :
            v.id = w.id /\ v.number = w.number /\ v.status = w.status
    BY <1>6 DEF CommitEdit, CommitDelete, AllInv, BaseInv, TypeOK, Version
  <2>3. ASSUME NEW q \in Requests, req[q].at = "insert"
        PROVE  versions' = versions
    <3>1. \A v \in versions : v.status # "DRAFT"
      BY <2>3 DEF AllInv, LifecycleInv, FlightInv, Having
    <3>2. \A v \in versions : v.id # req[r].version
      BY <1>6, <3>1 DEF CommitEdit, CommitDelete, AllInv, WriteInv
    <3> QED BY <1>6, <3>2 DEF CommitEdit, CommitDelete
  <2>4. ASSUME NEW q \in Requests, req'[q].at = "insert"
        PROVE  IsNextNumber(req[q].number)' /\ req'[q] = req[q]
    <3>1. req'[q] = req[q] /\ versions' = versions
      BY <2>1, <2>3, <2>4
    <3> QED BY <2>4, <3>1 DEF AllInv, NextInv, IsNextNumber
  <2>5. ASSUME NEW q \in Requests
        PROVE  req'[q].at = "publish" =>
                  /\ req'[q].current <= lastId'
                  /\ \A w \in versions' :
                        w.id = req'[q].current => w.status = "PUBLISHED"
    BY <2>1, <2>2, <2>5 DEF AllInv, NextInv
  <2> QED BY <2>1, <2>2, <2>4, <2>5 DEF AllInv, NextInv
<1>7. ASSUME NEW x \in Rows, NEW target \in versions, CommitMove(r, x, target)
      PROVE  NextInv'
  <2>1. \A q \in Requests : req'[q] \in {Idle, req[q]}
    BY <1>7, EndIs DEF CommitMove, AllInv
  <2>2. \A q \in Requests : req[q].at # "insert"
    <3>1. PICK v \in versions : v.id = req[r].version /\ req[r].at = "edit"
      BY <1>7 DEF CommitMove
    <3>2. v.status = "DRAFT"
      BY <3>1 DEF AllInv, WriteInv
    <3> QED BY <3>2 DEF AllInv, LifecycleInv, FlightInv, Having
  <2>3. /\ lastId' = lastId
        /\ \A w \in versions' : \E v \in versions : Same(v, w)
    BY <1>7, MoveIs DEF AllInv
  <2> QED BY <1>1, <2>1, <2>2, <2>3 DEF AllInv, NextInv, Same
<1> QED BY <1>2, <1>3, <1>4, <1>5, <1>6, <1>7 DEF Step

LEMMA ReceiveNext ==
    ASSUME AllInv, NEW x \in Rows, NEW target \in versions,
           ReceiveField(x, target)
    PROVE  NextInv'
<1>1. /\ \A v \in versions : v \in Version
      /\ lastId' = lastId /\ req' = req
      /\ versions' = (versions \ {target}) \cup {Received(target, x)}
      /\ Same(target, Received(target, x))
  BY ReceivedIs DEF ReceiveField, Receive, AllInv, BaseInv, TypeOK
<1>2. \A w \in versions' : \E v \in versions : Same(v, w)
  BY <1>1 DEF Same
<1>3. \A v \in versions : \E w \in versions' : Same(v, w)
  BY <1>1 DEF Same
<1>4. ASSUME NEW n \in Nat, IsNextNumber(n)
      PROVE  IsNextNumber(n)'
  <2>1. versions # {} /\ \A v \in versions : v.number < n
    BY <1>4 DEF IsNextNumber
  <2>2. PICK v \in versions : v.number + 1 = n
    BY <1>4, <2>1 DEF IsNextNumber
  <2>3. PICK w \in versions' : Same(v, w)
    BY <1>3
  <2> QED BY <1>2, <2>1, <2>2, <2>3 DEF IsNextNumber, Same
<1>5. \A r \in Requests : req[r].number \in Nat
  BY DEF AllInv, BaseInv, TypeOK, Request
<1> QED BY <1>1, <1>2, <1>4, <1>5 DEF AllInv, NextInv, Same

LEMMA BeginNext ==
    ASSUME AllInv, NEW r \in Requests,
           \/ BeginCreate(r)
           \/ \E v \in versions : \/ BeginClone(r, v)
                                  \/ BeginPublish(r, v)
                                  \/ BeginEdit(r, v)
                                  \/ BeginDelete(r, v)
    PROVE  NextInv'
<1> DEFINE Starts == /\ \A q \in Requests \ {r} : req'[q] = req[q]
                     /\ req'[r].at \notin {"insert", "publish"}
<1>1. Starts
  <2>1. req \in [Requests -> Request]
    BY DEF AllInv, BaseInv, TypeOK
  <2>2. CASE BeginCreate(r)
    BY <2>1, <2>2 DEF BeginCreate, Continue, Idle
  <2>3. ASSUME NEW v \in versions, BeginClone(r, v)
        PROVE  Starts
    BY <2>1, <2>3 DEF BeginClone, Continue, Idle
  <2>4. ASSUME NEW v \in versions, BeginPublish(r, v)
        PROVE  Starts
    BY <2>1, <2>4 DEF BeginPublish, Continue, Idle
  <2>5. ASSUME NEW v \in versions, NEW kind \in {"edit", "delete"},
               BeginWrite(r, v, kind)
        PROVE  Starts
    BY <2>1, <2>5 DEF BeginWrite, Continue, Idle
  <2> HIDE DEF Starts
  <2> QED BY <2>2, <2>3, <2>4, <2>5 DEF BeginEdit, BeginDelete
<1>2. UNCHANGED contractVars
  BY DEF BeginCreate, BeginClone, BeginPublish, BeginEdit, BeginDelete, BeginWrite
<1> QED BY <1>1, <1>2 DEF contractVars, AllInv, NextInv, IsNextNumber

LEMMA NextNext ==
    ASSUME QueuedAssumption, AllInv, [Next]_vars
    PROVE  AllInv'
<1>1. BaseInv' /\ LifecycleInv' /\ WriteInv'
  BY NextBase, NextLifecycle, NextWrite DEF AllInv, QueuedAssumption
<1>2. CASE UNCHANGED vars
  BY <1>1, <1>2 DEF vars, contractVars, AllInv, NextInv, IsNextNumber
<1> QED BY <1>1, <1>2, BeginNext, StepNext, ReceiveNext DEF Next, AllInv

LEMMA AllInvariance ==
    ASSUME QueuedAssumption
    PROVE  Spec => []AllInv
<1>1. Init => AllInv
  <2>1. Init => WriteInv /\ NextInv
    BY DEF Init, ContractInit, WriteInv, NextInv, Idle
  <2> QED BY <2>1, InitBase, InitLifecycle DEF AllInv
<1>2. AllInv /\ [Next]_vars => AllInv'
  BY NextNext
<1> QED BY <1>1, <1>2, PTL DEF Spec

LEMMA StepImplements ==
    ASSUME AllInv, NEW r \in Requests, Step(r)
    PROVE  ContractNext \/ UNCHANGED contractVars
<1>1. /\ req[r] \in Request /\ MaxVersions \in Nat /\ lastId \in Nat
      /\ \A u, v \in versions : u.id = v.id => u = v
  BY MaxVersionsAssumption DEF AllInv, BaseInv, TypeOK, KeyInv
<1>2. CASE Insert(r) /\ ~UNCHANGED contractVars
  <2> DEFINE n == req[r].number
             c == req[r].content
  <2>1. n \in Nat \ {0} /\ c \in Contents /\ IsNextNumber(n)
    BY <1>1, <1>2 DEF Insert, AllInv, NextInv, Request
  <2>2. n \in 1..MaxVersions
    BY <1>1, <1>2, <2>1, NumberFits DEF Insert, AllInv
  <2>3. NewDraft(n, c)
    BY <1>2, <2>1 DEF Insert, NewDraft, AllInv, LifecycleInv, FlightInv
  <2> QED BY <2>1, <2>2, <2>3 DEF ContractNext
<1>3. CASE CommitPublish(r) /\ ~UNCHANGED contractVars
  <2> DEFINE new == req[r].version
             old == req[r].current
  <2>1. /\ req[r].at = "publish" /\ new \in Ids \cup {0} /\ lastId' = lastId
        /\ versions' = {CASE v.id = new -> [v EXCEPT !.status = "PUBLISHED"]
                          [] v.id = old /\ old # new ->
                                 [v EXCEPT !.status = "ARCHIVED"]
                          [] OTHER -> v : v \in versions}
    BY <1>3 DEF CommitPublish, contractVars
  <2>2. /\ \A v \in versions : v.id = new => v.status = "DRAFT"
        /\ \A v \in versions : v.id = old <=> v.status = "PUBLISHED"
    BY <2>1 DEF AllInv, NextInv, LifecycleInv, FlightInv, Having
  <2>3. CASE \E v \in versions : v.id = new
    <3>1. PICK d \in versions : d.id = new
      BY <2>3
    <3>2. \A v \in versions :
              /\ v.id = new <=> v = d
              /\ v.id = old /\ old # new <=> v \in Having("PUBLISHED")
      BY <1>1, <2>2, <3>1 DEF Having
    <3>3. versions' = {CASE v = d -> [v EXCEPT !.status = "PUBLISHED"]
                         [] v \in Having("PUBLISHED") ->
                                [v EXCEPT !.status = "ARCHIVED"]
                         [] OTHER -> v : v \in versions}
      BY <2>1, <3>2
    <3>4. Publish(d)
      BY <2>1, <2>2, <3>1, <3>3 DEF Publish, Having
    <3> QED BY <3>4 DEF ContractNext
  <2>4. CASE ~\E v \in versions : v.id = new
    <3>1. new \in 1..lastId
      BY <2>1 DEF AllInv, LifecycleInv, FlightInv
    <3> QED BY <1>1, <2>1, <2>4, <3>1 DEF Ids
  <2> QED BY <2>3, <2>4
<1>4. CASE CommitEdit(r) /\ ~UNCHANGED contractVars
  <2>1. PICK c \in Contents : versions' =
            {IF v.id = req[r].version THEN [v EXCEPT !.content = c]
                                      ELSE v : v \in versions}
    BY <1>4 DEF CommitEdit
  <2>2. PICK d \in versions : d.id = req[r].version
    BY <1>4, <2>1 DEF CommitEdit, contractVars
  <2>3. versions' = (versions \ {d}) \cup {[d EXCEPT !.content = c]}
    BY <1>1, <2>1, <2>2
  <2>4. Edit(d, c)
    BY <1>4, <2>2, <2>3 DEF Edit, CommitEdit, Having, AllInv, WriteInv
  <2> QED BY <2>4 DEF ContractNext
<1>5. CASE CommitDelete(r) /\ ~UNCHANGED contractVars
  <2>1. PICK d \in versions : d.id = req[r].version
    BY <1>5 DEF CommitDelete, contractVars
  <2>2. versions' = versions \ {d}
    BY <1>1, <1>5, <2>1 DEF CommitDelete
  <2>3. Discard(d)
    BY <1>5, <2>1, <2>2 DEF Discard, CommitDelete, Having, AllInv, WriteInv
  <2> QED BY <2>3 DEF ContractNext
<1>6. ASSUME NEW x \in Rows, NEW target \in versions, CommitMove(r, x, target)
      PROVE  ContractNext
  <2>1. PICK d \in versions : d.id = req[r].version /\ x \in d.content
    BY <1>6 DEF CommitMove
  <2>2. d.status = "DRAFT" /\ x \notin target.content /\ lastId' = lastId
    BY <1>6, <2>1 DEF CommitMove, AllInv, WriteInv
  <2>3. versions' = {CASE v = target -> Received(v, x)
                       [] v = d      -> [v EXCEPT !.content = @ \ {x}]
                       [] OTHER      -> v : v \in versions}
    <3>1. \A v \in versions : v.id = req[r].version <=> v = d
      BY <1>1, <2>1
    <3>2. versions' = {CASE v = target           -> Received(v, x)
                         [] v.id = req[r].version -> [v EXCEPT !.content = @ \ {x}]
                         [] OTHER                 -> v : v \in versions}
      BY <1>6 DEF CommitMove
    <3> QED BY <3>1, <3>2
  <2>4. d # target
    BY <2>1, <2>2
  <2>5. versions' = (versions \ {d, target}) \cup
                       {[d EXCEPT !.content = @ \ {x}], Received(target, x)}
    <3> DEFINE left == [d EXCEPT !.content = @ \ {x}]
               come == Received(target, x)
             goes(v) == CASE v = target -> Received(v, x)
                          [] v = d      -> [v EXCEPT !.content = @ \ {x}]
                          [] OTHER      -> v
    <3>1. versions' = {goes(v) : v \in versions}
      BY <2>3
    <3>2. /\ goes(target) = come
          /\ goes(d) = left
          /\ \A v \in versions \ {d, target} : goes(v) = v
      BY <2>4
    <3> HIDE DEF left, come, goes
    <3>3. versions' = (versions \ {d, target}) \cup {left, come}
      BY <3>1, <3>2
    <3> QED BY <3>3 DEF left, come
  <2>6. Move(d, x, target)
    BY <2>1, <2>2, <2>5 DEF Move, Having
  <2> QED BY <2>6 DEF ContractNext
<1> QED BY <1>2, <1>3, <1>4, <1>5, <1>6
        DEF Step, CheckDraft, ReadNumber, ReadCurrent

LEMMA NextImplements ==
    ASSUME AllInv, [Next]_vars
    PROVE  ContractNext \/ UNCHANGED contractVars
<1>1. CASE UNCHANGED vars
  BY <1>1 DEF vars
<1>2. CASE \E r \in Requests : Step(r)
  BY <1>2, StepImplements
<1>3. CASE Next /\ ~\E r \in Requests : Step(r)
  BY <1>3
     DEF ContractNext, ReceiveField, Next, BeginCreate, BeginClone, BeginPublish, BeginEdit,
         BeginDelete, BeginWrite
<1> QED BY <1>1, <1>2, <1>3

(* When creations and clones do not overlap each other, nor publications,  *)
(* edits or deletions a publication, the handlers implement the contract:  *)
(* whatever else overlaps, every handler takes effect in one step that the *)
(* contract allows, or in none.                                            *)
THEOREM ImplementsContract ==
    ASSUME QueuedAssumption
    PROVE  Spec => ContractSpec
<1>1. Init => ContractInit
  BY DEF Init
<1>2. AllInv /\ [Next]_vars => [ContractNext]_contractVars
  BY NextImplements
<1> QED BY <1>1, <1>2, AllInvariance, PTL DEF Spec, ContractSpec

Forward == \A v \in versions : \A w \in Later(v) :
              \/ w.status = v.status
              \/ v.status = "DRAFT" /\ w.status = "PUBLISHED"
              \/ v.status = "PUBLISHED" /\ w.status = "ARCHIVED"

(* What the contract does to a version it does to that version only: ids   *)
(* are keys, and the id of a new version is a new one.                     *)
LEMMA ContractForward ==
    ASSUME BaseInv, ContractNext
    PROVE  Forward
<1> SUFFICES ASSUME NEW v \in versions, NEW w \in versions', w.id = v.id
             PROVE  \/ w.status = v.status
                    \/ v.status = "DRAFT" /\ w.status = "PUBLISHED"
                    \/ v.status = "PUBLISHED" /\ w.status = "ARCHIVED"
  BY DEF Forward, Later
<1>1. /\ \A u \in versions : u \in Version
      /\ \A u \in versions : u.id = v.id => u = v
      /\ v.id <= lastId /\ v.id \in Nat /\ lastId \in Nat
  BY MaxVersionsAssumption DEF BaseInv, TypeOK, KeyInv, Version
<1>2. ASSUME NEW n, NEW c, NewDraft(n, c)
      PROVE  w.status = v.status
  <2>1. w \in versions \/ w.id = lastId + 1
    BY <1>2 DEF NewDraft
  <2> QED BY <1>1, <2>1
<1>3. ASSUME NEW d \in versions, Publish(d)
      PROVE  \/ w.status = v.status
             \/ v.status = "DRAFT" /\ w.status = "PUBLISHED"
             \/ v.status = "PUBLISHED" /\ w.status = "ARCHIVED"
  <2> DEFINE moved(u) ==
        CASE u = d -> [u EXCEPT !.status = "PUBLISHED"]
          [] u \in Having("PUBLISHED") -> [u EXCEPT !.status = "ARCHIVED"]
          [] OTHER -> u
  <2>1. PICK u \in versions : w = moved(u)
    BY <1>3 DEF Publish
  <2>2. w.id = u.id
    BY <1>1, <2>1 DEF Version
  <2>3. u = v
    BY <1>1, <2>2
  <2>4. d.status = "DRAFT"
    BY <1>3 DEF Publish, Having
  <2> QED BY <1>1, <2>1, <2>3, <2>4 DEF Having, Version
<1>4. ASSUME NEW d \in versions, NEW c, Edit(d, c)
      PROVE  w.status = v.status
  <2>1. w \in versions \/ w = [d EXCEPT !.content = c]
    BY <1>4 DEF Edit
  <2>2. [d EXCEPT !.content = c].id = d.id
    BY <1>1 DEF Version
  <2>3. [d EXCEPT !.content = c].status = d.status
    BY <1>1 DEF Version
  <2> QED BY <1>1, <2>1, <2>2, <2>3
<1>5. ASSUME NEW d \in versions, Discard(d)
      PROVE  w.status = v.status
  BY <1>1, <1>5 DEF Discard
<1>6. ASSUME NEW d \in versions, NEW x \in Rows, NEW target \in versions,
             Move(d, x, target)
      PROVE  w.status = v.status
  <2> DEFINE left == [d EXCEPT !.content = @ \ {x}]
  <2>1. w \in versions \/ w = left \/ w = Received(target, x)
    BY <1>6 DEF Move
  <2>2. left.id = d.id /\ left.status = d.status
    BY <1>1 DEF Version
  <2>3. Same(target, Received(target, x))
    BY <1>1, ReceivedIs
  <2> HIDE DEF left
  <2> QED BY <1>1, <2>1, <2>2, <2>3 DEF Same
<1>7. ASSUME NEW target \in versions, NEW x \in Rows, Receive(target, x)
      PROVE  w.status = v.status
  <2>1. w \in versions \/ w = Received(target, x)
    BY <1>7 DEF Receive
  <2>2. Same(target, Received(target, x))
    BY <1>1, ReceivedIs
  <2> QED BY <1>1, <2>1, <2>2 DEF Same
<1> QED BY <1>2, <1>3, <1>4, <1>5, <1>6, <1>7 DEF ContractNext

(* Under the same condition no version returns to an earlier status: what  *)
(* publish_version archives stays archived, even when its own publication  *)
(* was checked before.                                                     *)
THEOREM StatusesForward ==
    ASSUME QueuedAssumption
    PROVE  Spec => StatusMovesForward
<1>1. AllInv /\ [Next]_vars => [Forward]_contractVars
  BY NextImplements, ContractForward DEF AllInv
<1> QED BY <1>1, AllInvariance, PTL DEF Spec, StatusMovesForward, Forward

-----------------------------------------------------------------------------

-----------------------------------------------------------------------------
(* The operations of TTLCache                                              *)

Says(entry, key, value) == entry.key = key /\ entry.value = value

LEMMA PlaceIs ==
    ASSUME NEW store, NEW key, Has(store, key)
    PROVE  /\ Place(store, key) \in DOMAIN store
           /\ store[Place(store, key)].key = key
  BY DEF Has, Place

LEMMA InvalidateKeeps ==
    ASSUME NEW K, NEW V, NEW store \in Seq(Entry(K, V)), NEW key,
           StoreIsBounded(store)
    PROVE  /\ Invalidate(store, key) \in Seq(Entry(K, V))
           /\ StoreIsBounded(Invalidate(store, key))
           /\ \A i \in DOMAIN Invalidate(store, key) :
                 \E j \in DOMAIN store : Invalidate(store, key)[i] = store[j]
<1>1. CASE ~Has(store, key)
  BY <1>1 DEF Invalidate
<1>2. CASE Has(store, key)
  <2> DEFINE k == Place(store, key)
             n == Len(store)
             from(i) == IF i < k THEN i ELSE i + 1
             left == Invalidate(store, key)
  <2>1. k \in 1..n /\ n \in Nat /\ DOMAIN store = 1..n
    BY <1>2, PlaceIs
  <2>2. left = [i \in 1..(n - 1) |-> store[from(i)]]
    BY <1>2 DEF Invalidate
  <2>3. \A i \in 1..(n - 1) : from(i) \in 1..n
    BY <2>1
  <2>4. \A i, j \in 1..(n - 1) : from(i) = from(j) => i = j
    BY <2>1
  <2>5. \A i \in 1..n : store[i] \in Entry(K, V)
    BY <2>1
  <2> HIDE DEF k, from
  <2>6. left \in Seq(Entry(K, V)) /\ Len(left) = n - 1 /\ DOMAIN left = 1..(n - 1)
    BY <2>1, <2>2, <2>3, <2>5
  <2>7. Len(left) <= MaxSize
    BY <2>1, <2>6, MaxSizeAssumption DEF StoreIsBounded
  <2>8. \A i, j \in DOMAIN left : left[i].key = left[j].key => i = j
    BY <2>1, <2>2, <2>3, <2>4, <2>6 DEF StoreIsBounded
  <2> QED BY <2>1, <2>2, <2>3, <2>6, <2>7, <2>8 DEF StoreIsBounded
<1> QED BY <1>1, <1>2

LEMMA GotKeeps ==
    ASSUME NEW K, NEW V, NEW store \in Seq(Entry(K, V)), NEW key,
           StoreIsBounded(store)
    PROVE  /\ Got(store, key) \in Seq(Entry(K, V))
           /\ StoreIsBounded(Got(store, key))
           /\ \A i \in DOMAIN Got(store, key) :
                 \E j \in DOMAIN store : Got(store, key)[i] = store[j]
  BY InvalidateKeeps DEF Got

LEMMA RoomKeeps ==
    ASSUME NEW K, NEW V, NEW store \in Seq(Entry(K, V)), NEW key,
           StoreIsBounded(store)
    PROVE  /\ MadeRoom(store, key) \in Seq(Entry(K, V))
           /\ StoreIsBounded(MadeRoom(store, key))
           /\ Has(MadeRoom(store, key), key) \/ Len(MadeRoom(store, key)) < MaxSize
           /\ \A i \in DOMAIN MadeRoom(store, key) :
                 \E j \in DOMAIN store : MadeRoom(store, key)[i] = store[j]
<1>1. CASE ~(Len(store) >= MaxSize /\ ~Has(store, key))
  BY <1>1, MaxSizeAssumption DEF MadeRoom
<1>2. CASE Len(store) >= MaxSize /\ ~Has(store, key)
  <2> DEFINE n == Len(store)
             left == MadeRoom(store, key)
  <2>1. n \in Nat /\ n # 0 /\ n = MaxSize /\ MaxSize \in Nat /\ store # <<>>
    BY <1>2, MaxSizeAssumption DEF StoreIsBounded
  <2>2. left = Tail(store)
    BY <1>2 DEF MadeRoom
  <2>3. /\ left \in Seq(Entry(K, V))
        /\ Len(left) = n - 1
        /\ DOMAIN left = 1..(n - 1)
        /\ \A i \in 1..(n - 1) : left[i] = store[i + 1]
    BY <2>1, <2>2
  <2>4. \A i \in 1..(n - 1) : i + 1 \in DOMAIN store
    BY <2>1
  <2> HIDE DEF left
  <2>5. ASSUME NEW i \in DOMAIN left, NEW j \in DOMAIN left,
               left[i].key = left[j].key
        PROVE  i = j
    <3>1. i + 1 \in DOMAIN store /\ j + 1 \in DOMAIN store
      BY <2>3, <2>4
    <3>2. store[i + 1].key = store[j + 1].key
      BY <2>3, <2>5
    <3>3. i + 1 = j + 1
      BY <3>1, <3>2 DEF StoreIsBounded
    <3> QED BY <2>1, <2>3, <3>3
  <2> QED BY <2>1, <2>3, <2>4, <2>5 DEF left, StoreIsBounded
<1> QED BY <1>1, <1>2

LEMMA PutKeeps ==
    ASSUME NEW K, NEW V, NEW store \in Seq(Entry(K, V)),
           NEW key \in K, NEW value \in V, StoreIsBounded(store),
           NEW put, put = Put(store, key, value)
    PROVE  /\ put \in Seq(Entry(K, V))
           /\ StoreIsBounded(put)
           /\ \A i \in DOMAIN put :
                 \/ Says(put[i], key, value)
                 \/ \E j \in DOMAIN store : put[i] = store[j]
<1> DEFINE room == MadeRoom(store, key)
           entry == [key |-> key, left |-> TTL, value |-> value]
<1>1. entry \in Entry(K, V) /\ entry.key = key /\ entry.value = value
  BY TTLAssumption DEF Entry
<1>2. /\ room \in Seq(Entry(K, V))
      /\ StoreIsBounded(room)
      /\ Has(room, key) \/ Len(room) < MaxSize
      /\ \A i \in DOMAIN room : \E j \in DOMAIN store : room[i] = store[j]
  BY RoomKeeps
<1>3. put = IF Has(room, key)
            THEN [i \in DOMAIN room |-> IF room[i].key = key THEN entry
                                                             ELSE room[i]]
            ELSE Append(room, entry)
  BY DEF Put
<1> HIDE DEF room, entry
<1>4. CASE Has(room, key)
  <2>1. DOMAIN room = 1..Len(room) /\ Len(room) \in Nat
    BY <1>2
  <2>2. put \in Seq(Entry(K, V)) /\ DOMAIN put = DOMAIN room /\ Len(put) = Len(room)
    BY <1>1, <1>2, <1>3, <1>4, <2>1
  <2>3. \A i \in DOMAIN put : put[i].key = room[i].key
    BY <1>1, <1>3, <1>4, <2>2
  <2>4. StoreIsBounded(put)
    BY <1>2, <2>2, <2>3 DEF StoreIsBounded
  <2>5. \A i \in DOMAIN put : put[i] = entry \/ put[i] = room[i]
    BY <1>3, <1>4, <2>2
  <2> QED BY <1>1, <1>2, <2>2, <2>4, <2>5 DEF Says
<1>5. CASE ~Has(room, key)
  <2>1. /\ put \in Seq(Entry(K, V))
        /\ Len(put) = Len(room) + 1
        /\ DOMAIN put = 1..(Len(room) + 1)
        /\ \A i \in DOMAIN room : put[i] = room[i]
        /\ put[Len(room) + 1] = entry
        /\ DOMAIN room = 1..Len(room) /\ Len(room) \in Nat
    BY <1>1, <1>2, <1>3, <1>5
  <2>2. \A i \in DOMAIN put : i = Len(room) + 1 \/ i \in DOMAIN room
    BY <2>1
  <2>3. \A i \in DOMAIN room : room[i].key # key
    BY <1>5 DEF Has
  <2>4. StoreIsBounded(put)
    <3>1. Len(put) <= MaxSize
      BY <1>2, <1>5, <2>1, MaxSizeAssumption
    <3>2. \A i, j \in DOMAIN put : put[i].key = put[j].key => i = j
      BY <1>1, <1>2, <2>1, <2>2, <2>3 DEF StoreIsBounded
    <3> QED BY <3>1, <3>2 DEF StoreIsBounded
  <2> QED BY <1>1, <1>2, <2>1, <2>2, <2>4 DEF Says
<1> QED BY <1>4, <1>5

LEMMA AgedKeeps ==
    ASSUME NEW K, NEW V, NEW store \in Seq(Entry(K, V)), StoreIsBounded(store)
    PROVE  /\ Aged(store) \in Seq(Entry(K, V))
           /\ StoreIsBounded(Aged(store))
           /\ \A i \in DOMAIN Aged(store) :
                 /\ i \in DOMAIN store
                 /\ Says(Aged(store)[i], store[i].key, store[i].value)
<1> DEFINE aged == Aged(store)
           older(e) == [e EXCEPT !.left = IF @ < 0 THEN @ ELSE @ - 1]
<1>1. aged = [i \in DOMAIN store |-> older(store[i])]
  BY DEF Aged
<1>2. ASSUME NEW e \in Entry(K, V)
      PROVE  older(e) \in Entry(K, V) /\ older(e).key = e.key /\ older(e).value = e.value
  BY TTLAssumption DEF Entry
<1>3. /\ \A i \in DOMAIN store : store[i] \in Entry(K, V)
      /\ DOMAIN store = 1..Len(store) /\ Len(store) \in Nat
  OBVIOUS
<1> HIDE DEF aged, older
<1>4. aged \in Seq(Entry(K, V)) /\ DOMAIN aged = DOMAIN store /\ Len(aged) = Len(store)
  BY <1>1, <1>2, <1>3
<1>5. \A i \in DOMAIN store : aged[i].key = store[i].key /\ aged[i].value = store[i].value
  BY <1>1, <1>2, <1>3
<1>6. StoreIsBounded(aged)
  BY <1>4, <1>5 DEF StoreIsBounded
<1> QED BY <1>4, <1>5, <1>6 DEF aged, Says

-----------------------------------------------------------------------------
(* What holds whatever the handlers do                                     *)

Entries == Entry(0..MaxVersions, Loads)

CacheTyped ==
    /\ cache \in Seq(Entries)
    /\ reader \in [Readers -> Reader]

CacheBase == BaseInv /\ CacheTyped /\ CacheIsBounded

LEMMA Resting == AtRest \in Reader
  BY MaxVersionsAssumption
     DEF AtRest, Reader, Statuses, Loads, Blank, Contents

(* The handlers take their steps and no others.                            *)
LEMMA CacheSteps ==
    ASSUME [CacheNext]_cacheVars
    PROVE  [Next]_vars
<1>1. CASE UNCHANGED vars
  BY <1>1
<1>2. ASSUME NEW r \in Requests, ArchiveCurrent(r)
      PROVE  Next
  BY <1>2 DEF ArchiveCurrent, Next, Step
<1>3. CASE Handle
  BY <1>3 DEF Handle
<1> QED BY <1>1, <1>2, <1>3
        DEF CacheNext, cacheVars, Resolve, Read, Get, ReadFields, ReadRest,
            Keep, Answer, Tick

LEMMA ContentIs ==
    ASSUME BaseInv, NEW id
    PROVE  /\ ContentOf(id) \in Contents
           /\ \A v \in versions : v.id = id => ContentOf(id) = v.content
<1>1. \A v \in versions : v \in Version
  BY DEF BaseInv, TypeOK
<1>2. CASE id \in Ids
  <2> DEFINE u == CHOOSE v \in versions : v.id = id
  <2>1. u \in versions /\ u.id = id
    BY <1>2 DEF Ids
  <2>2. \A v \in versions : v.id = id => v = u
    BY <2>1 DEF BaseInv, KeyInv
  <2>3. ContentOf(id) = u.content
    BY <1>2 DEF ContentOf
  <2> HIDE DEF u
  <2> QED BY <1>1, <2>1, <2>2, <2>3 DEF Version
<1>3. CASE id \notin Ids
  BY <1>3 DEF ContentOf, Ids, Blank, Contents
<1> QED BY <1>2, <1>3

LEMMA HitIs ==
    ASSUME CacheTyped, NEW key, Hit(cache, key)
    PROVE  /\ HitValue(cache, key) \in Loads
           /\ \E i \in DOMAIN cache : Says(cache[i], key, HitValue(cache, key))
<1>1. /\ Place(cache, key) \in DOMAIN cache
      /\ cache[Place(cache, key)].key = key
  BY PlaceIs DEF Hit
<1>2. cache[Place(cache, key)] \in Entries
  BY <1>1 DEF CacheTyped
<1> QED BY <1>1, <1>2 DEF HitValue, Says, Entries, Entry

(* What a step of a calculation makes of it.                               *)
Goes(c, to) ==
    \/ \E v \in versions :
          to = [AtRest EXCEPT !.at = "get", !.version = v.id, !.status = v.status]
    \/ /\ reader[c].at = "get"
       /\ to = [reader[c] EXCEPT !.at = "fields"]
    \/ /\ reader[c].at = "get" /\ Hit(cache, reader[c].version)
       /\ to = [reader[c] EXCEPT !.at = "answer",
                                 !.data = HitValue(cache, reader[c].version)]
    \/ /\ reader[c].at = "fields"
       /\ to = [reader[c] EXCEPT !.at = "rest",
                    !.data = <<ContentOf(reader[c].version), Blank>>]
    \/ /\ reader[c].at = "rest"
       /\ to = [reader[c] EXCEPT !.at = "put",
                    !.data = <<@[1], ContentOf(reader[c].version)>>]
    \/ /\ reader[c].at = "put"
       /\ to = [reader[c] EXCEPT !.at = "answer"]
    \/ to = AtRest

LEMMA ReaderGoes ==
    ASSUME CacheTyped, NEW c \in Readers,
           Read(c) \/ \E v \in versions : Resolve(c, v)
    PROVE  \E to : Goes(c, to) /\ Proceed(c, to)
<1>1. ASSUME NEW v \in versions, Resolve(c, v)
      PROVE  \E to : Goes(c, to) /\ Proceed(c, to)
  BY <1>1 DEF Resolve, Goes
<1>2. CASE Get(c)
  BY <1>2 DEF Get, Goes
<1>3. CASE ReadFields(c)
  BY <1>3 DEF ReadFields, Goes
<1>4. CASE ReadRest(c)
  BY <1>4 DEF ReadRest, Goes
<1>5. CASE Keep(c)
  BY <1>5 DEF Keep, Goes
<1>6. CASE Answer(c)
  BY <1>6 DEF Answer, Goes
<1> QED BY <1>1, <1>2, <1>3, <1>4, <1>5, <1>6 DEF Read

LEMMA GoesTyped ==
    ASSUME BaseInv, CacheTyped, NEW c \in Readers, NEW to, Goes(c, to)
    PROVE  to \in Reader
<1>1. reader[c] \in Reader /\ AtRest \in Reader
  BY Resting DEF CacheTyped
<1>2. ContentOf(reader[c].version) \in Contents /\ Blank \in Contents
  BY ContentIs DEF Blank, Contents
<1>3. \A v \in versions : v.id \in 0..MaxVersions /\ v.status \in Statuses
  BY MaxVersionsAssumption DEF BaseInv, TypeOK, Version
<1>4. reader[c].data[1] \in Contents
  BY <1>1 DEF Reader, Loads
<1>5. Hit(cache, reader[c].version) => HitValue(cache, reader[c].version) \in Loads
  BY HitIs
<1>6. ASSUME NEW at \in {"fields", "answer"}
      PROVE  [reader[c] EXCEPT !.at = at] \in Reader
  BY <1>1 DEF Reader
<1>7. ASSUME NEW at \in {"rest", "put", "answer"}, NEW data \in Loads
      PROVE  [reader[c] EXCEPT !.at = at, !.data = data] \in Reader
  BY <1>1 DEF Reader
<1>8. ASSUME NEW v \in versions
      PROVE  [AtRest EXCEPT !.at = "get", !.version = v.id, !.status = v.status]
                \in Reader
  BY <1>1, <1>3 DEF Reader
<1>9. \A x, y \in Contents : <<x, y>> \in Loads
  BY DEF Loads
<1> QED BY <1>1, <1>2, <1>4, <1>5, <1>6, <1>7, <1>8, <1>9 DEF Goes

(* Where the entries come from.                                            *)
LEMMA CacheGoes ==
    ASSUME CacheBase, [CacheNext]_cacheVars
    PROVE  /\ cache' \in Seq(Entries)
           /\ StoreIsBounded(cache')
           /\ \A i \in DOMAIN cache' :
                 \/ \E j \in DOMAIN cache :
                       Says(cache'[i], cache[j].key, cache[j].value)
                 \/ \E c \in Readers :
                       /\ reader[c].at = "put" /\ reader[c].status = "PUBLISHED"
                       /\ Says(cache'[i], reader[c].version, reader[c].data)
<1>1. cache \in Seq(Entry(0..MaxVersions, Loads)) /\ StoreIsBounded(cache)
  BY DEF CacheBase, CacheTyped, CacheIsBounded, Entries
<1>2. CASE cache' = cache
  BY <1>1, <1>2 DEF Says, Entries
<1>3. ASSUME NEW c \in Readers, Get(c), cache' = Got(cache, reader[c].version)
      PROVE  /\ cache' \in Seq(Entries)
             /\ StoreIsBounded(cache')
             /\ \A i \in DOMAIN cache' : \E j \in DOMAIN cache : cache'[i] = cache[j]
  BY <1>1, <1>3, GotKeeps DEF Entries
<1>4. ASSUME NEW c \in Readers, Keep(c), reader[c].status = "PUBLISHED"
      PROVE  /\ cache' \in Seq(Entries)
             /\ StoreIsBounded(cache')
             /\ \A i \in DOMAIN cache' :
                   \/ Says(cache'[i], reader[c].version, reader[c].data)
                   \/ \E j \in DOMAIN cache : cache'[i] = cache[j]
  <2>1. reader[c].version \in 0..MaxVersions /\ reader[c].data \in Loads
    BY DEF CacheBase, CacheTyped, Reader
  <2> DEFINE ids == 0..MaxVersions
             key == reader[c].version
             value == reader[c].data
  <2>2. cache' = Put(cache, key, value)
    BY <1>4 DEF Keep
  <2> HIDE DEF ids, key, value
  <2>3. cache \in Seq(Entry(ids, Loads)) /\ key \in ids /\ value \in Loads
    BY <1>1, <2>1 DEF ids, key, value
  <2>4. /\ cache' \in Seq(Entry(ids, Loads))
        /\ StoreIsBounded(cache')
        /\ \A i \in DOMAIN cache' :
              \/ Says(cache'[i], key, value)
              \/ \E j \in DOMAIN cache : cache'[i] = cache[j]
    BY <1>1, <2>2, <2>3, PutKeeps
  <2> QED BY <2>4 DEF Entries, ids, key, value
<1>5. ASSUME NEW key, cache' = Invalidate(cache, key)
      PROVE  /\ cache' \in Seq(Entries)
             /\ StoreIsBounded(cache')
             /\ \A i \in DOMAIN cache' : \E j \in DOMAIN cache : cache'[i] = cache[j]
  BY <1>1, <1>5, InvalidateKeeps DEF Entries
<1>6. CASE Tick
  BY <1>1, <1>6, AgedKeeps DEF Tick, Entries
<1> QED BY <1>1, <1>2, <1>3, <1>4, <1>5, <1>6
        DEF CacheNext, cacheVars, Resolve, Read, Get, ReadFields, ReadRest,
            Keep, Answer, ArchiveCurrent, Handle, Says

LEMMA ReaderTyped ==
    ASSUME CacheBase, [CacheNext]_cacheVars
    PROVE  reader' \in [Readers -> Reader]
<1>1. reader \in [Readers -> Reader] /\ BaseInv /\ CacheTyped
  BY DEF CacheBase, CacheTyped
<1>2. ASSUME NEW c \in Readers, Read(c) \/ \E v \in versions : Resolve(c, v)
      PROVE  reader' \in [Readers -> Reader]
  <2>1. PICK to : Goes(c, to) /\ Proceed(c, to)
    BY <1>1, <1>2, ReaderGoes
  <2>2. to \in Reader
    BY <1>1, <2>1, GoesTyped
  <2> QED BY <1>1, <2>1, <2>2 DEF Proceed
<1> QED BY <1>1, <1>2 DEF CacheNext, cacheVars, ArchiveCurrent, Handle, Tick

LEMMA NextCacheBase ==
    ASSUME CacheBase, [CacheNext]_cacheVars
    PROVE  CacheBase'
<1>1. BaseInv'
  BY CacheSteps, NextBase DEF CacheBase
<1> QED BY <1>1, CacheGoes, ReaderTyped DEF CacheBase, CacheTyped, CacheIsBounded

LEMMA InitCacheBase == CacheInit => CacheBase
<1> SUFFICES ASSUME CacheInit PROVE CacheBase
  OBVIOUS
<1>1. cache = <<>> /\ reader \in [Readers -> Reader]
  BY Resting DEF CacheInit
<1>2. cache \in Seq(Entries) /\ Len(cache) = 0 /\ DOMAIN cache = {}
  BY <1>1
<1>3. CacheIsBounded
  BY <1>2, MaxSizeAssumption DEF CacheIsBounded, StoreIsBounded
<1> QED BY <1>1, <1>2, <1>3, InitBase DEF CacheInit, CacheBase, CacheTyped

LEMMA CacheBaseInvariance == CacheSpec => []CacheBase
<1>1. CacheBase /\ [CacheNext]_cacheVars => CacheBase'
  BY NextCacheBase
<1> QED BY <1>1, InitCacheBase, PTL DEF CacheSpec

(* Whichever loads end at the same time, and whatever publications drop,   *)
(* the cache holds CACHE_MAX_SIZE entries at most and one for a version:   *)
(* TTLCache.set makes room before it adds a key, and only then.            *)
THEOREM CacheBounded == CacheSpec => []CacheIsBounded
  BY CacheBaseInvariance, PTL DEF CacheBase

-----------------------------------------------------------------------------
(* When edits and deletions stay apart from publications                   *)

(* What the version was published with, with or without what arrived.      *)
Settled(id, data) ==
    \E v \in versions : /\ v.id = id /\ v.status # "DRAFT"
                        /\ \A k \in 1..2 : ReadOf(data[k], v)

EntriesInv == \A i \in DOMAIN cache : Settled(cache[i].key, cache[i].value)

(* What a calculation on such a version has read so far is of it.          *)
HasRead(q, v) ==
    /\ v.id = q.version
    /\ v.status # "DRAFT"
    /\ q.at \in {"rest", "put", "answer"} => ReadOf(q.data[1], v)
    /\ q.at \in {"put", "answer"} => ReadOf(q.data[2], v)

Faithful(q) ==
    q.at # "idle" /\ q.status # "DRAFT" => \E v \in versions : HasRead(q, v)

ReadersInv == \A c \in Readers : Faithful(reader[c])

ExactInv == CacheBase /\ WriteInv /\ EntriesInv /\ ReadersInv

LEMMA SettledStays ==
    ASSUME BaseInv, WriteInv, [Next]_vars
    PROVE  /\ \A id, data : Settled(id, data) => Settled(id, data)'
           /\ \A q : Faithful(q) => Faithful(q)'
<1>1. \A v \in versions : v.status # "DRAFT" => \E w \in versions' : Kept(v, w)
  BY StepKept DEF Having
<1>2. \A v, w : Kept(v, w) => \A content : ReadOf(content, v) => ReadOf(content, w)
  BY DEF Kept, Gained, ReadOf
<1>3. \A v, w, q : Kept(v, w) /\ HasRead(q, v) => HasRead(q, w)
  BY <1>2 DEF HasRead, Kept
<1>4. \A id, data : Settled(id, data) => Settled(id, data)'
  BY <1>1, <1>2 DEF Settled, Kept
<1>5. ASSUME NEW q, Faithful(q)
      PROVE  Faithful(q)'
  <2>1. CASE q.at # "idle" /\ q.status # "DRAFT"
    <3>1. PICK v \in versions : HasRead(q, v)
      BY <1>5, <2>1 DEF Faithful
    <3>2. PICK w \in versions' : Kept(v, w)
      BY <1>1, <3>1 DEF HasRead
    <3>3. HasRead(q, w)
      BY <1>3, <3>1, <3>2
    <3>4. HasRead(q, w)'
      BY <3>3 DEF HasRead, ReadOf
    <3> QED BY <3>2, <3>4 DEF Faithful
  <2>2. CASE ~(q.at # "idle" /\ q.status # "DRAFT")
    BY <2>2 DEF Faithful
  <2> QED BY <2>1, <2>2
<1> QED BY <1>4, <1>5

LEMMA GoesFaithful ==
    ASSUME ExactInv, NEW c \in Readers, NEW to, Goes(c, to)
    PROVE  Faithful(to)
<1> DEFINE q == reader[c]
<1>1. q \in Reader /\ Faithful(q) /\ AtRest \in Reader /\ AtRest.at = "idle"
  BY Resting DEF ExactInv, CacheBase, CacheTyped, ReadersInv, AtRest
<1>2. \A v \in versions : v.id = q.version => ContentOf(q.version) = v.content
  BY ContentIs DEF ExactInv, CacheBase
<1>10. \A v : ReadOf(v.content, v)
  BY DEF ReadOf
<1>3. ASSUME NEW v \in versions,
             to = [AtRest EXCEPT !.at = "get", !.version = v.id, !.status = v.status]
      PROVE  Faithful(to)
  <2>1. to.at = "get" /\ to.version = v.id /\ to.status = v.status
    BY <1>1, <1>3 DEF Reader
  <2> QED BY <2>1 DEF Faithful, HasRead
<1>4. CASE q.at = "get" /\ to = [q EXCEPT !.at = "fields"]
  <2>1. to.at = "fields" /\ to.version = q.version /\ to.status = q.status
    BY <1>1, <1>4 DEF Reader
  <2> QED BY <1>1, <1>4, <2>1 DEF Faithful, HasRead
<1>5. CASE /\ q.at = "get" /\ Hit(cache, q.version)
           /\ to = [q EXCEPT !.at = "answer", !.data = HitValue(cache, q.version)]
  <2>1. /\ to.at = "answer" /\ to.version = q.version
        /\ to.data = HitValue(cache, q.version)
    BY <1>1, <1>5 DEF Reader
  <2>2. Settled(q.version, HitValue(cache, q.version))
    <3>1. PICK i \in DOMAIN cache : Says(cache[i], q.version, HitValue(cache, q.version))
      BY <1>5, HitIs DEF ExactInv, CacheBase
    <3> QED BY <3>1 DEF Says, ExactInv, EntriesInv
  <2> QED BY <2>1, <2>2 DEF Faithful, HasRead, Settled
<1>6. CASE /\ q.at = "fields"
           /\ to = [q EXCEPT !.at = "rest", !.data = <<ContentOf(q.version), Blank>>]
  <2>1. /\ to.at = "rest" /\ to.version = q.version /\ to.status = q.status
        /\ to.data[1] = ContentOf(q.version)
    BY <1>1, <1>6 DEF Reader
  <2> HIDE DEF q
  <2> QED BY <1>1, <1>2, <1>10, <1>6, <2>1 DEF Faithful, HasRead
<1>7. CASE /\ q.at = "rest"
           /\ to = [q EXCEPT !.at = "put", !.data = <<@[1], ContentOf(q.version)>>]
  <2>1. /\ to.at = "put" /\ to.version = q.version /\ to.status = q.status
        /\ to.data = <<q.data[1], ContentOf(q.version)>>
    BY <1>1, <1>7 DEF Reader
  <2>2. to.data[1] = q.data[1] /\ to.data[2] = ContentOf(q.version)
    BY <2>1
  <2> HIDE DEF q
  <2> QED BY <1>1, <1>2, <1>10, <1>7, <2>1, <2>2 DEF Faithful, HasRead
<1>8. CASE q.at = "put" /\ to = [q EXCEPT !.at = "answer"]
  <2>1. /\ to.at = "answer" /\ to.version = q.version /\ to.status = q.status
        /\ to.data = q.data
    BY <1>1, <1>8 DEF Reader
  <2> QED BY <1>1, <1>8, <2>1 DEF Faithful, HasRead
<1>9. CASE to = AtRest
  BY <1>1, <1>9 DEF Faithful
<1> QED BY <1>3, <1>4, <1>5, <1>6, <1>7, <1>8, <1>9 DEF Goes

LEMMA NextExact ==
    ASSUME WritersApart, ExactInv, [CacheNext]_cacheVars
    PROVE  ExactInv'
<1>1. /\ CacheBase' /\ WriteInv'
      /\ BaseInv /\ WriteInv /\ [Next]_vars
      /\ CacheTyped /\ reader \in [Readers -> Reader]
  BY NextCacheBase, CacheSteps, NextWrite DEF ExactInv, CacheBase, CacheTyped
<1>2. EntriesInv'
  <2>1. ASSUME NEW i \in DOMAIN cache', NEW key, NEW value, Says(cache'[i], key, value)
        PROVE  Settled(key, value)'
    <3>1. ASSUME NEW j \in DOMAIN cache, Says(cache'[i], cache[j].key, cache[j].value)
          PROVE  Settled(key, value)
      BY <2>1, <3>1 DEF ExactInv, EntriesInv, Says
    <3>2. ASSUME NEW c \in Readers, reader[c].at = "put", reader[c].status = "PUBLISHED",
                 Says(cache'[i], reader[c].version, reader[c].data)
          PROVE  Settled(key, value)
      BY <2>1, <3>2 DEF ExactInv, ReadersInv, Faithful, HasRead, Settled, Says
    <3>3. Settled(key, value)
      BY <3>1, <3>2, CacheGoes DEF ExactInv
    <3> QED BY <1>1, <3>3, SettledStays
  <2> QED BY <2>1 DEF EntriesInv, Settled, Says
<1>3. ReadersInv'
  <2>1. ASSUME NEW d \in Readers, NEW q, q = reader'[d]
        PROVE  Faithful(q)'
    <3>1. ASSUME NEW c \in Readers, Read(c) \/ \E v \in versions : Resolve(c, v)
          PROVE  Faithful(q)
      <4>1. PICK to : Goes(c, to) /\ Proceed(c, to)
        BY <1>1, <3>1, ReaderGoes
      <4>2. Faithful(to)
        BY <4>1, GoesFaithful
      <4>3. q = to \/ q = reader[d]
        BY <1>1, <2>1, <4>1 DEF Proceed
      <4> QED BY <4>2, <4>3 DEF ExactInv, ReadersInv
    <3>2. ASSUME reader' = reader
          PROVE  Faithful(q)
      BY <2>1, <3>2 DEF ExactInv, ReadersInv
    <3>3. Faithful(q)
      BY <3>1, <3>2 DEF CacheNext, cacheVars, ArchiveCurrent, Handle, Tick
    <3> QED BY <1>1, <3>3, SettledStays
  <2> QED BY <2>1 DEF ReadersInv, Faithful, HasRead
<1> QED BY <1>1, <1>2, <1>3 DEF ExactInv

LEMMA ExactInvariance ==
    ASSUME WritersApart
    PROVE  CacheSpec => []ExactInv
<1>1. CacheInit => ExactInv
  <2> SUFFICES ASSUME CacheInit PROVE ExactInv
    OBVIOUS
  <2>1. WriteInv
    BY DEF CacheInit, Init, WriteInv, Idle
  <2>2. EntriesInv /\ ReadersInv
    BY DEF CacheInit, EntriesInv, ReadersInv, Faithful, AtRest
  <2> QED BY <2>1, <2>2, InitCacheBase DEF ExactInv
<1>2. ExactInv /\ [CacheNext]_cacheVars => ExactInv'
  BY NextExact
<1> QED BY <1>1, <1>2, PTL DEF CacheSpec

(* When no edit and no deletion overlaps a publication, an entry of the    *)
(* cache holds its version as it was published, and besides at most what   *)
(* was moved into it since, whichever loads, moves, publications, evictions *)
(* and expiries come between the query that found it PUBLISHED and the set *)
(* that keeps it.                                                          *)
THEOREM CacheExact ==
    ASSUME WritersApart
    PROVE  CacheSpec => []CacheIsExact
<1>1. ExactInv => CacheIsExact
  BY DEF ExactInv, EntriesInv, Settled, CacheIsExact
<1> QED BY <1>1, ExactInvariance, PTL

(* Under the same condition a calculation on a version that it found       *)
(* PUBLISHED or ARCHIVED answers from all that the version was published   *)
(* with, from the cache or from the several queries of its own load.       *)
THEOREM AnswersExact ==
    ASSUME WritersApart
    PROVE  CacheSpec => []AnswersAreExact
<1>1. ExactInv => AnswersAreExact
  BY DEF ExactInv, ReadersInv, Faithful, HasRead, AnswersAreExact
<1> QED BY <1>1, ExactInvariance, PTL

(* The versions beside the cache keep what they keep without it: the       *)
(* calculations and the cache change no version.                           *)
THEOREM CacheRefinesLifecycle == CacheSpec => Spec
<1>1. CacheInit => Init
  BY DEF CacheInit
<1>2. [CacheNext]_cacheVars => [Next]_vars
  BY CacheSteps
<1> QED BY <1>1, <1>2, PTL DEF CacheSpec, Spec
=============================================================================
