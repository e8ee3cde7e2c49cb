----------------------- MODULE MCEngineeringTemplate -----------------------
(* EngineeringTemplate on a small instance.                                *)
EXTENDS EngineeringTemplate
LOCAL INSTANCE Relation

CONSTANTS p1, p2, p3, r1, r2

MCParts == {p1, p2, p3}
MCRequests == {r1, r2}

(* The state after a third INSERT is checked, and not gone on from: it is  *)
(* what closes a cycle of three parts, and handlers have no new way after  *)
(* it. EveryRequestEnds is then about histories of two rows.               *)
Scope == lastId < MaxRows

(* Acyclic, stated with closed sets so that it can be proved about, agrees *)
(* with the transitive closure of the community modules on every graph.    *)
ASSUME AcyclicMeansNoPartReachesItself ==
    \A E \in SUBSET (Parts \X Parts) :
        LET R == [e \in Parts \X Parts |-> e \in E]
        IN  Acyclic(E) <=>
              \A p \in Parts : ~TransitiveClosure(R, Parts)[p, p]
=============================================================================
