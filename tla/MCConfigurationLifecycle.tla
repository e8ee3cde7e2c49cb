---------------------- MODULE MCConfigurationLifecycle ----------------------
(* ConfigurationLifecycle on a small instance: a version has no required   *)
(* field or one, which the one choice there is fills, and prices are one   *)
(* thing or another.                                                       *)
EXTENDS ConfigurationLifecycle, TLC

CONSTANTS a, l1, k1, t1, t2, m1, m2, r1, r2

(* What would have to be queued per configuration: the handlers that change *)
(* its inputs, and a finalization behind everything that touches what it   *)
(* freezes.                                                                *)
QueuedButFinalizations ==
    {{x, y} : x, y \in {"update", "upgrade"}} \cup
    {{"finalize", x} : x \in {"update", "upgrade", "delete", "add item",
                              "change item", "drop item", "delete list"}}

(* The same, and one finalization behind another.                          *)
Queued == QueuedButFinalizations \cup {{"finalize"}}

(* Explored are two handlers on one configuration, and one handler at a     *)
(* time, against one version, on a configuration whose version fields are  *)
(* moved into, and on a configuration and its copy.                        *)
Scope ==
    LET alone == \E r \in Requests : \A q \in Requests \ {r} : req[q] = Idle
        still == \A v \in versions : Untouched(v)
    IN  IF alone /\ lastId <= 1 THEN born <= 1 \/ still
                                ELSE born <= 1 /\ still

Sym == Permutations({r1, r2}) \cup Permutations({t1, t2}) \cup
       Permutations({m1, m2})
=============================================================================
