--------------------------- MODULE TemplateGraph ---------------------------
(***************************************************************************)
(* What the engineering template promises its readers: a set of rows, each *)
(* an edge from a part to a part it is made of, that changes by one row at *)
(* a time and stays a DAG.  EngineeringTemplate shows how the handlers of  *)
(* app/routers/engineering_template_items.py keep the promise while they   *)
(* interleave; TemplateExplosion reads the graph while it changes.         *)
(***************************************************************************)
EXTENDS Naturals, Sequences, FiniteSets

CONSTANTS
    Parts,      \* part numbers that requests may name
    MaxRows     \* bound on the template rows ever inserted

ASSUME MaxRowsAssumption == MaxRows \in Nat

VARIABLES
    catalog,    \* the part numbers that have a catalog_items row
    template,   \* the rows of engineering_template_items
    lastId      \* the primary key given to the latest row

graphVars == <<catalog, template, lastId>>

Row == [id : 1..MaxRows, parent : Parts, child : Parts, suppress : BOOLEAN]

Edges(rows) == {<<r.parent, r.child>> : r \in rows}

Children(part) == {r.child : r \in {t \in template : t.parent = part}}

-----------------------------------------------------------------------------
(* Reachability without recursion: y is reachable from x when every set    *)
(* that holds x and is closed under the edges holds y.                     *)

Closed(S, E) == \A e \in E : e[1] \in S => e[2] \in S

Reaches(E, x, y) == \A S \in SUBSET Parts : x \in S /\ Closed(S, E) => y \in S

Acyclic(E) == \A e \in E : ~Reaches(E, e[2], e[1])

-----------------------------------------------------------------------------
GraphInit ==
    /\ catalog = Parts
    /\ template = {}
    /\ lastId = 0

(* A row for a new pair of catalog parts, when it closes no cycle.         *)
AddRow(p, c, flag) ==
    /\ {p, c} \subseteq catalog
    /\ <<p, c>> \notin Edges(template)
    /\ ~Reaches(Edges(template), c, p)
    /\ lastId < MaxRows
    /\ lastId' = lastId + 1
    /\ template' = template \cup
          {[id |-> lastId + 1, parent |-> p, child |-> c, suppress |-> flag]}
    /\ UNCHANGED catalog

SetSuppress(id, flag) ==
    /\ template' = {IF t.id = id THEN [t EXCEPT !.suppress = flag] ELSE t :
                       t \in template}
    /\ UNCHANGED <<catalog, lastId>>

RemoveRow(id) ==
    /\ template' = {t \in template : t.id # id}
    /\ UNCHANGED <<catalog, lastId>>

AddPart(p) ==
    /\ p \notin catalog
    /\ catalog' = catalog \cup {p}
    /\ UNCHANGED <<template, lastId>>

(* delete_catalog_item looks for references, and the foreign keys repeat   *)
(* the test at its DELETE.                                                 *)
RemovePart(p) ==
    /\ p \in catalog
    /\ \A t \in template : p \notin {t.parent, t.child}
    /\ catalog' = catalog \ {p}
    /\ UNCHANGED <<template, lastId>>

GraphNext ==
    \/ \E p, c \in Parts, flag \in BOOLEAN : AddRow(p, c, flag)
    \/ \E id \in 0..MaxRows :
          RemoveRow(id) \/ \E flag \in BOOLEAN : SetSuppress(id, flag)
    \/ \E p \in Parts : AddPart(p) \/ RemovePart(p)

GraphSpec == GraphInit /\ [][GraphNext]_graphVars
=============================================================================
