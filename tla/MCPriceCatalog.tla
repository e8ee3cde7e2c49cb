---------------------------- MODULE MCPriceCatalog ----------------------------
(* PriceCatalog on a small instance.                                       *)
EXTENDS PriceCatalog, TLC

CONSTANTS p, q

Pairs(x, kinds) == {{x, y} : y \in kinds}

(* The kinds that have to queue: those that move windows, and what changes *)
(* or removes a part behind what gives it a price.                         *)
Queued ==
    Pairs("update list", {"update list", "create item", "update item"}) \cup
    Pairs("create item", {"create item", "update item"}) \cup
    Pairs("update item", {"update item"}) \cup
    {{x, y} : x \in {"create item", "update item"},
              y \in {"update part", "delete part"}}

MCDays == 1..4
MCParts == {p, q}

(* Beside a second list, two items and three days.                         *)
Scope ==
    lastList = 2 =>
        lastItem <= 2 /\ \A l \in DOMAIN lists : lists[l].to <= 3

Sym == Permutations(MCParts)
=============================================================================
