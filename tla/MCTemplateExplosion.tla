------------------------ MODULE MCTemplateExplosion ------------------------
(* TemplateExplosion on a small instance: one expansion among edits. *)
EXTENDS TemplateExplosion

CONSTANTS p1, p2, p3

MCParts == {p1, p2, p3}

(* Among the trees of three parts some exceed only the depth of the first, *)
(* some only the nodes of the second, and most neither.                    *)
MCLimits == {[depth |-> 1, nodes |-> 4], [depth |-> 2, nodes |-> 3]}

Sym == Permutations(MCParts)
=============================================================================
