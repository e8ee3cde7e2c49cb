--------------------------- MODULE MCVersionCache ---------------------------
(* VersionCache on a small instance.                                       *)
EXTENDS VersionCache, FiniteSets, TLC

CONSTANTS f, r1, r2, r3, c1, c2

(* Publications queue behind each other and behind the writers of the      *)
(* DRAFT they publish, and creations behind each other.                    *)
Queued == {{x, y} : x, y \in {"create", "clone"}} \cup
          {{"publish", x} : x \in {"publish", "edit", "delete"}}

Handling == {r \in Requests : req[r] # Idle}

Reading == {c \in Readers : reader[c] # AtRest}

(* Explored is either a long history without calculations, or a shorter one *)
(* of two handlers at a time beside the calculations and their cache.  Once *)
(* a field was moved into a published version, two handlers or calculations *)
(* are in flight at most, and a third version is the last.                  *)
Scope ==
    /\ (\E v \in versions : v.arrived # {}) =>
          lastId <= 3 /\ Cardinality(Handling) + Cardinality(Reading) <= 2
    /\ \/ cache = <<>> /\ Reading = {}
       \/ lastId <= 2 /\ Cardinality(Handling) <= 2

Sym == Permutations({r1, r2, r3}) \cup Permutations({c1, c2})
=============================================================================
