------------------------ MODULE EngineeringTemplate ------------------------
(***************************************************************************)
(* The engineering template graph: the rows of engineering_template_items, *)
(* each an edge from a part to a part it is made of, and the handlers that *)
(* add, patch and delete them (app/routers/engineering_template_items.py,  *)
(* app/services/engineering_template.py).                                  *)
(*                                                                         *)
(* A request is one handler running in a thread of its own.  One action is *)
(* one database statement: what two statements of a handler read may be    *)
(* separated by another handler's commit.  Every mutation waits for a      *)
(* transactional advisory lock, which its commit or rollback releases.     *)
(***************************************************************************)
EXTENDS TemplateGraph

CONSTANTS
    Requests,   \* handlers that can run at the same time
    None        \* no request

ASSUME NoneAssumption == None \notin Requests

VARIABLES
    graphLock,  \* the request that holds the advisory lock, or None
    pc,         \* the next statement of each request
    edge,       \* POST: the <<parent, child>> pair of the payload
    target,     \* PATCH, DELETE: key of the row read before the lock
    visited,    \* would_create_cycle: parts whose children have been read
    stack,      \* would_create_cycle: parts still to visit, with their paths
    answer      \* how the latest handler of each request ended

dfsVars == <<visited, stack>>
vars == <<catalog, template, lastId, graphLock, pc, edge, target, visited,
          stack, answer>>

-----------------------------------------------------------------------------
Init ==
    /\ GraphInit
    /\ graphLock = None
    /\ pc = [r \in Requests |-> "idle"]
    /\ edge = [r \in Requests |-> <<>>]
    /\ target = [r \in Requests |-> 0]
    /\ visited = [r \in Requests |-> {}]
    /\ stack = [r \in Requests |-> {}]
    /\ answer = [r \in Requests |-> <<>>]

Goto(r, label) == pc' = [pc EXCEPT ![r] = label]

(* Mutant: a session-level lock, that no commit or rollback releases.      *)
FinishHoldingTheLock(r, cyclePath) ==
    /\ Goto(r, "idle")
    /\ answer' = [answer EXCEPT ![r] = cyclePath]
    /\ visited' = [visited EXCEPT ![r] = {}]
    /\ stack' = [stack EXCEPT ![r] = {}]
    /\ edge' = [edge EXCEPT ![r] = <<>>]
    /\ target' = [target EXCEPT ![r] = 0]
    /\ UNCHANGED graphLock

(* The handler returns or raises: its session commits or rolls back, which *)
(* releases the lock it holds.  cyclePath is the path a 409 reports.       *)
Finish(r, cyclePath) ==
    /\ Goto(r, "idle")
    /\ answer' = [answer EXCEPT ![r] = cyclePath]
    /\ graphLock' = IF graphLock = r THEN None ELSE graphLock
    /\ visited' = [visited EXCEPT ![r] = {}]
    /\ stack' = [stack EXCEPT ![r] = {}]
    /\ edge' = [edge EXCEPT ![r] = <<>>]
    /\ target' = [target EXCEPT ![r] = 0]

-----------------------------------------------------------------------------
(* create_template_item                                                    *)

BeginCreate(r, p, c) ==
    /\ pc[r] = "idle"
    /\ p \in catalog                                  \* else 404
    /\ Goto(r, "lockCreate")
    /\ edge' = [edge EXCEPT ![r] = <<p, c>>]
    /\ answer' = [answer EXCEPT ![r] = <<>>]
    /\ UNCHANGED <<graphVars, graphLock, target, dfsVars>>

(* Mutant: the advisory lock is not taken.                                 *)
LockSkipped(r, from, to) ==
    /\ pc[r] = from
    /\ Goto(r, to)
    /\ UNCHANGED <<graphVars, graphLock, edge, target, dfsVars, answer>>

Lock(r, from, to) ==
    /\ pc[r] = from
    /\ graphLock = None
    /\ graphLock' = r
    /\ Goto(r, to)
    /\ UNCHANGED <<graphVars, edge, target, dfsVars, answer>>

LockCreate(r) == Lock(r, "lockCreate", "checkChild")

(* _ensure_child_catalog_exists, then the self-loop test and the initial   *)
(* stack of would_create_cycle.                                            *)
CheckChild(r) ==
    LET p == edge[r][1]
        c == edge[r][2]
    IN  /\ pc[r] = "checkChild"
        /\ \/ /\ c \notin catalog                     \* 409
              /\ Finish(r, <<>>)
           \/ /\ c \in catalog
              /\ p = c                                \* 409, self-loop
              /\ Finish(r, <<p, p>>)
           \/ /\ c \in catalog
              /\ p # c
              /\ Goto(r, "dfs")
              /\ visited' = [visited EXCEPT ![r] = {}]
              /\ stack' = [stack EXCEPT ![r] = {[at |-> c, path |-> <<p, c>>]}]
              /\ UNCHANGED <<graphLock, edge, target, answer>>
        /\ UNCHANGED graphVars

(* Mutant: the path keeps its start and forgets the parts between.         *)
ExtendedFromStart(path, part) == <<path[1], part>>

(* The path list of an entry of the stack, one part further.               *)
Extended(path, part) == Append(path, part)

(* Mutant: only the children of the new row's child are searched.          *)
PushedNone(r, entry) == {}

(* The entries that a visit to a part pushes.                              *)
Pushed(r, entry) ==
    {[at |-> d, path |-> Extended(entry.path, d)] :
        d \in Children(entry.at) \ (visited[r] \cup {entry.at})}

(* One iteration of the loop of would_create_cycle.  The query has no      *)
(* ORDER BY, so any entry of the stack may be the one that is popped.      *)
DfsVisit(r) ==
    /\ pc[r] = "dfs"
    /\ \E s \in stack[r] :
          LET found == Children(s.at)
              p == edge[r][1]
          IN  \/ /\ s.at \in visited[r]
                 /\ stack' = [stack EXCEPT ![r] = @ \ {s}]
                 /\ UNCHANGED <<graphLock, pc, edge, target, visited, answer>>
              \/ /\ s.at \notin visited[r]
                 /\ p \in found                       \* 409, cycle
                 /\ Finish(r, Extended(s.path, p))
              \/ /\ s.at \notin visited[r]
                 /\ p \notin found
                 /\ visited' = [visited EXCEPT ![r] = @ \cup {s.at}]
                 /\ stack' = [stack EXCEPT ![r] = (@ \ {s}) \cup Pushed(r, s)]
                 /\ UNCHANGED <<graphLock, pc, edge, target, answer>>
    /\ UNCHANGED graphVars

(* Mutant: no pre-check for a duplicate pair.                              *)
DuplicateNotChecked(r) ==
    /\ pc[r] = "dfs"
    /\ stack[r] = {}
    /\ Goto(r, "insert")
    /\ UNCHANGED <<graphVars, graphLock, edge, target, dfsVars, answer>>

(* The stack is empty: no cycle.  The duplicate pair is looked up next.    *)
CheckDuplicate(r) ==
    /\ pc[r] = "dfs"
    /\ stack[r] = {}
    /\ IF edge[r] \in Edges(template)
       THEN Finish(r, <<>>)                           \* 409
       ELSE /\ Goto(r, "insert")
            /\ UNCHANGED <<graphLock, edge, target, dfsVars, answer>>
    /\ UNCHANGED graphVars

(* INSERT and commit; a part deleted meanwhile fails the foreign key, and  *)
(* MaxRows, the bound of the model, is the end of the primary key sequence.*)
Insert(r) ==
    /\ pc[r] = "insert"
    /\ IF {edge[r][1], edge[r][2]} \subseteq catalog /\ lastId < MaxRows
       THEN \E flag \in BOOLEAN :
              /\ template' = template \cup
                    {[id |-> lastId + 1, parent |-> edge[r][1],
                      child |-> edge[r][2], suppress |-> flag]}
              /\ lastId' = lastId + 1
       ELSE UNCHANGED <<template, lastId>>            \* SQLAlchemyError, 500
    /\ Finish(r, <<>>)
    /\ UNCHANGED catalog

-----------------------------------------------------------------------------
(* update_template_item and delete_template_item read the row first, wait  *)
(* for the lock, then write by primary key.                                *)

BeginEdit(r, row, label) ==
    /\ pc[r] = "idle"
    /\ row \in template                               \* else 404
    /\ Goto(r, label)
    /\ target' = [target EXCEPT ![r] = row.id]
    /\ answer' = [answer EXCEPT ![r] = <<>>]
    /\ UNCHANGED <<graphVars, graphLock, edge, dfsVars>>

BeginPatch(r, row) == BeginEdit(r, row, "lockPatch")
BeginDelete(r, row) == BeginEdit(r, row, "lockDelete")

LockPatch(r) == Lock(r, "lockPatch", "patch")
LockDelete(r) == Lock(r, "lockDelete", "delete")

(* UPDATE of suppress_child_explosion; no row left is a StaleDataError.    *)
Patch(r) ==
    /\ pc[r] = "patch"
    /\ \E flag \in BOOLEAN : SetSuppress(target[r], flag)
    /\ Finish(r, <<>>)

(* DELETE ... WHERE id; a row already gone only logs a warning.            *)
Delete(r) ==
    /\ pc[r] = "delete"
    /\ RemoveRow(target[r])
    /\ Finish(r, <<>>)

-----------------------------------------------------------------------------
(* The catalog handlers this graph depends on.                             *)

CreatePart(p) ==
    /\ AddPart(p)
    /\ UNCHANGED <<graphLock, pc, edge, target, dfsVars, answer>>

DeletePart(p) ==
    /\ RemovePart(p)
    /\ UNCHANGED <<graphLock, pc, edge, target, dfsVars, answer>>

-----------------------------------------------------------------------------
CreateStep(r) ==
    \/ LockCreate(r)
    \/ CheckChild(r)
    \/ DfsVisit(r)
    \/ CheckDuplicate(r)
    \/ Insert(r)

EditStep(r) ==
    \/ LockPatch(r)
    \/ Patch(r)
    \/ LockDelete(r)
    \/ Delete(r)

Next ==
    \/ \E r \in Requests :
          \/ \E p, c \in Parts : BeginCreate(r, p, c)
          \/ \E row \in template : BeginPatch(r, row) \/ BeginDelete(r, row)
          \/ CreateStep(r)
          \/ EditStep(r)
    \/ \E p \in Parts : CreatePart(p) \/ DeletePart(p)

(* A handler that started runs on (weak fairness); PostgreSQL queues the   *)
(* waiters of a lock in order, so one that waits gets it (strong).         *)
Fairness ==
    \A r \in Requests :
        /\ SF_vars(LockCreate(r) \/ LockPatch(r) \/ LockDelete(r))
        /\ WF_vars(CreateStep(r) \/ EditStep(r))

Spec == Init /\ [][Next]_vars

FairSpec == Spec /\ Fairness

-----------------------------------------------------------------------------
(* Properties                                                              *)

Labels == {"idle", "lockCreate", "checkChild", "dfs", "insert",
           "lockPatch", "patch", "lockDelete", "delete"}

(* Every variable holds a value of the kind its column or local has.       *)
TypeOK ==
    /\ catalog \subseteq Parts
    /\ template \subseteq Row
    /\ lastId \in 0..MaxRows
    /\ graphLock \in Requests \cup {None}
    /\ pc \in [Requests -> Labels]
    /\ edge \in [Requests -> (Parts \X Parts) \cup {<<>>}]
    /\ target \in [Requests -> 0..MaxRows]
    /\ visited \in [Requests -> SUBSET Parts]
    /\ stack \in [Requests -> SUBSET [at : Parts, path : Seq(Parts)]]
    /\ answer \in [Requests -> Seq(Parts)]

(* However the handlers interleave, the template stays a DAG: no part is,  *)
(* through any chain of rows, a component of itself.                       *)
TemplateAcyclic == Acyclic(Edges(template))

(* A part pair has at most one row (the pre-check under the lock), and the *)
(* rows never name a part without a catalog row.                           *)
PairsUniqueAndCatalogued ==
    /\ \A t, u \in template : t.parent = u.parent /\ t.child = u.child => t = u
    /\ \A t \in template : {t.parent, t.child} \subseteq catalog

(* A 409 with a cycle_path is never spurious: the path starts and ends at  *)
(* the parent, and after the rejected edge follows rows of the template    *)
(* that exist when it is raised.                                           *)
CyclePathIsReal ==
    [][\A r \in Requests :
         LET path == answer'[r]
         IN  path # answer[r] /\ path # <<>> =>
               /\ <<path[1], path[2]>> = edge[r]
               /\ path[Len(path)] = path[1]
               /\ \A i \in 2..(Len(path) - 1) :
                     <<path[i], path[i + 1]>> \in Edges(template)]_vars

(* Every request that started is answered: the lock is always handed on.   *)
EveryRequestEnds == \A r \in Requests : pc[r] # "idle" ~> pc[r] = "idle"
=============================================================================
