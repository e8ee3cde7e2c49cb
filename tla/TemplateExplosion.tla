------------------------- MODULE TemplateExplosion -------------------------
(***************************************************************************)
(* The recursive expansion of a part's template, for a preview or to       *)
(* materialize BOM rows (explode, materialize and their two handlers),     *)
(* while the graph is edited: EngineeringTemplate implements GraphSpec,    *)
(* whose steps stand here for the commits of the editing handlers.  The    *)
(* expansion takes no lock and its transaction is READ COMMITTED, the      *)
(* default of the engine: every query sees the rows committed before it.   *)
(***************************************************************************)
EXTENDS TemplateGraph, SequencesExt

CONSTANTS
    Limits,     \* the settings to look at: MAX_BOM_EXPLOSION_DEPTH, _NODES
    MaxEdits    \* bound on the commits during one expansion

ASSUME PartsAssumption == IsFiniteSet(Parts)

(* A limit of no nodes would refuse every expansion.                       *)
ASSUME LimitsAssumption == Limits \subseteq [depth : Nat, nodes : Nat \ {0}]

VARIABLES
    obsolete,   \* catalog parts whose status is OBSOLETE
    limit,      \* the settings the expansion runs under
    step,       \* the next statement of the expansion
    mode,       \* "preview" or "materialize"
    todo,       \* the calls of _recurse still to make, in preorder
    nodes,      \* the nodes made so far, in preorder
    status,     \* catalog_status_cache: the status read for each part
    outcome,    \* what the handler answers
    start,      \* history: the template when the expansion started
    edits       \* history: commits of other handlers since then

walkVars == <<limit, step, mode, todo, nodes, status, outcome, start>>
vars == <<graphVars, obsolete, walkVars, edits>>

Node == [path : Seq(Parts), leaf : BOOLEAN]

Part(node) == Last(node.path)
Depth(node) == Len(node.path) - 1

Init ==
    /\ GraphInit
    /\ obsolete = {}
    /\ limit \in Limits
    /\ step = "idle"
    /\ mode = "preview"
    /\ todo = <<>>
    /\ nodes = <<>>
    /\ status = [p \in Parts |-> "unread"]
    /\ outcome = "none"
    /\ start = {}
    /\ edits = 0

Begin(m, root) ==
    /\ step = "idle"
    /\ root \in catalog                                \* else 404, 409
    /\ step' = "visit"
    /\ mode' = m
    /\ todo' = <<[path |-> <<root>>, leaf |-> FALSE]>>
    /\ start' = template
    /\ UNCHANGED <<graphVars, obsolete, limit, nodes, status, outcome, edits>>

BeginPreview(root) == Begin("preview", root)

(* create_bom_item with explode_from_template wants an ACTIVE part that    *)
(* has a template.                                                         *)
BeginMaterialize(root) ==
    /\ root \notin obsolete                            \* else 409
    /\ Children(root) # {}                             \* else 422
    /\ Begin("materialize", root)

End(result) ==
    /\ step' = "return"
    /\ outcome' = result
    /\ todo' = <<>>

(* Mutant: the nodes made are counted before this one.                     *)
ExceedsByOne(node) == Len(nodes) > limit.nodes \/ Depth(node) > limit.depth

(* A node may not be made: the tree has its nodes, or the path its depth.  *)
Exceeds(node) == Len(nodes) + 1 > limit.nodes \/ Depth(node) > limit.depth

(* The head of _recurse: limits, then the status of the part, cached.      *)
Visit ==
    /\ step = "visit"
    /\ todo # <<>>
    /\ LET node == Head(todo)
           p == Part(node)
       IN  IF Exceeds(node)
           THEN /\ End("limit")                       \* 413
                /\ UNCHANGED <<nodes, status>>
           ELSE /\ nodes' = Append(nodes, node)
                /\ status' = IF status[p] # "unread" THEN status
                             ELSE [status EXCEPT ![p] =
                                     CASE p \in obsolete -> "OBSOLETE"
                                       [] p \in catalog \ obsolete -> "ACTIVE"
                                       [] OTHER -> "absent"]
                /\ todo' = Tail(todo)
                /\ step' = IF node.leaf THEN "visit" ELSE "expand"
                /\ UNCHANGED outcome
    /\ UNCHANGED <<graphVars, obsolete, limit, mode, start, edits>>

(* The rows of a part: their order, by sequence, is taken to be that of    *)
(* their keys.                                                             *)
InOrder(rows) ==
    CHOOSE s \in [1..Cardinality(rows) -> rows] :
        \A i, j \in DOMAIN s : i < j => s[i].id < s[j].id

RowsOf(part) == InOrder({t \in template : t.parent = part})

(* Mutant: suppress_child_explosion is not looked at.                      *)
ExpandSuppressed ==
    /\ step = "expand"
    /\ LET node == Last(nodes)
           rows == RowsOf(Part(node))
       IN  todo' = [i \in DOMAIN rows |->
                       [path |-> Append(node.path, rows[i].child),
                        leaf |-> FALSE]] \o todo
    /\ step' = "visit"
    /\ UNCHANGED <<graphVars, obsolete, limit, mode, nodes, status, outcome,
                   start, edits>>

(* The query for the rows of the part just visited.                        *)
Expand ==
    /\ step = "expand"
    /\ LET node == Last(nodes)
           rows == RowsOf(Part(node))
           calls == [i \in DOMAIN rows |->
                       [path |-> Append(node.path, rows[i].child),
                        leaf |-> rows[i].suppress]]
       IN  todo' = calls \o todo
    /\ step' = "visit"
    /\ UNCHANGED <<graphVars, obsolete, limit, mode, nodes, status, outcome,
                   start, edits>>

(* No call is left, and no part seen was OBSOLETE.                         *)
Complete ==
    /\ step = "visit"
    /\ todo = <<>>
    /\ \A p \in Parts : status[p] # "OBSOLETE"

RefuseObsolete ==
    /\ step = "visit"
    /\ todo = <<>>
    /\ \E p \in Parts : status[p] = "OBSOLETE"
    /\ End("obsolete")                                 \* 409
    /\ UNCHANGED <<graphVars, obsolete, limit, mode, nodes, status, start, edits>>

AnswerPreview ==
    /\ Complete
    /\ mode = "preview"
    /\ End("ok")
    /\ UNCHANGED <<graphVars, obsolete, limit, mode, nodes, status, start, edits>>

(* A BOM row per node, in one transaction; a part that is gone by then     *)
(* fails its foreign key, and all of them are rolled back.                 *)
Materialize ==
    /\ Complete
    /\ mode = "materialize"
    /\ End(IF {Part(n) : n \in ToSet(nodes)} \subseteq catalog
           THEN "ok" ELSE "error")
    /\ UNCHANGED <<graphVars, obsolete, limit, mode, nodes, status, start, edits>>

(* The handler returns and its locals are gone.                            *)
Return ==
    /\ step = "return"
    /\ step' = "idle"
    /\ mode' = "preview"
    /\ nodes' = <<>>
    /\ status' = [p \in Parts |-> "unread"]
    /\ outcome' = "none"
    /\ start' = {}
    /\ edits' = 0
    /\ limit' \in Limits
    /\ UNCHANGED <<graphVars, obsolete, todo>>

(* Other handlers commit between two statements of the expansion.          *)
CountEdit ==
    /\ step # "return"
    /\ IF step = "idle" THEN UNCHANGED edits
                        ELSE edits < MaxEdits /\ edits' = edits + 1

(* update_catalog_item: a part is retired or revived.                      *)
SetStatus(p) ==
    /\ p \in catalog
    /\ obsolete' = IF p \in obsolete THEN obsolete \ {p} ELSE obsolete \cup {p}
    /\ CountEdit
    /\ UNCHANGED <<graphVars, walkVars>>

(* A commit of one of the handlers that edit the graph or the catalog.     *)
Edit ==
    /\ GraphNext
    /\ obsolete' = obsolete \cap catalog'
    /\ CountEdit
    /\ UNCHANGED walkVars

Next ==
    \/ \E p \in Parts : BeginPreview(p) \/ BeginMaterialize(p)
    \/ Visit
    \/ Expand
    \/ RefuseObsolete
    \/ AnswerPreview
    \/ Materialize
    \/ Return
    \/ \E p \in Parts : SetStatus(p)
    \/ Edit

Spec == Init /\ [][Next]_vars

-----------------------------------------------------------------------------
(* Properties                                                              *)

(* The tree that a template promises: every chain of rows from the root    *)
(* that enters no suppressed row before its last.                          *)
Tree(rows, root) ==
    LET extend(N) == N \cup
            {[path |-> Append(n[1].path, n[2].child), leaf |-> n[2].suppress] :
                n \in {x \in N \X rows :
                         ~x[1].leaf /\ Part(x[1]) = x[2].parent}}
        grow[k \in 0..Cardinality(Parts)] ==
            IF k = 0 THEN {[path |-> <<root>>, leaf |-> FALSE]}
                     ELSE extend(grow[k - 1])
    IN  grow[Cardinality(Parts)]

(* An expansion that nothing disturbed returns exactly the tree of the     *)
(* template, with each node once, and fails for OBSOLETE parts or for the  *)
(* limits only when that tree has them.                                    *)
QuietExplosionIsExact ==
    step = "return" /\ edits = 0 =>
        LET tree == Tree(template, nodes[1].path[1])
            stale == {n \in tree : Part(n) \in obsolete}
            tooBig == \/ Cardinality(tree) > limit.nodes
                      \/ \E n \in tree : Depth(n) > limit.depth
        IN  /\ (outcome = "limit") = tooBig
            /\ outcome # "limit" => ToSet(nodes) = tree /\ IsInjective(nodes)
            /\ outcome = "obsolete" => stale # {}
            /\ outcome = "ok" => stale = {}

(* Whatever is committed meanwhile, an expansion makes no more nodes and   *)
(* goes no deeper than the settings allow: edits cannot make it run on.    *)
WithinLimits ==
    /\ Len(nodes) <= limit.nodes
    /\ \A i \in DOMAIN nodes : Depth(nodes[i]) <= limit.depth

(* ADR_ENGINEERING_BOM.md, decision 24: the materialization gets "a        *)
(* snapshot-consistent view of the graph at transaction start".            *)
MaterializesTheStartingGraph ==
    outcome = "ok" /\ mode = "materialize" =>
        ToSet(nodes) = Tree(start, nodes[1].path[1])
=============================================================================
