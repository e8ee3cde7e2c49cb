--------------------------- MODULE MCVersionEditor ---------------------------
(* VersionEditor on a small instance.                                      *)
EXTENDS VersionEditor, TLC

CONSTANTS a, b, m

Pairs(x, kinds) == {{x, y} : y \in kinds}

(* The kinds that have to queue, on one version: publication behind every  *)
(* edit, and the writers of what a check relates.                          *)
Queued ==
    Pairs("publish", Kinds) \cup
    Pairs("update field", {"create value", "update value", "delete value",
                           "create rule", "update rule",
                           "update field", "delete field"}) \cup
    Pairs("update value", {"create rule", "update rule"}) \cup
    Pairs("delete value", {"create rule", "update rule"}) \cup
    Pairs("update rule", {"update rule"}) \cup
    Pairs("update item", {"update item"})

MCMax == [fields |-> 2, values |-> 2, rules |-> 1, items |-> 3, uses |-> 1]

Born == last["fields"] + last["values"] + last["rules"] + last["items"] + last["uses"]

(* Either options and rules or a BOM is edited; a copy is edited once, or  *)
(* beside a handler that is held up.                                       *)
Scope ==
    /\ (\E f \in DOMAIN db.fields : db.fields[f].number) =>
          last["fields"] + last["values"] + last["rules"] = 1
    /\ last["items"] # 0 =>
          /\ last["values"] + last["rules"] = 0
          /\ last["fields"] <= 1 /\ \A f \in DOMAIN db.fields : ~db.fields[f].free
    /\ held # Nothing =>
          Born <= (IF last["items"] # 0 THEN 2 ELSE 2 + Cardinality(DOMAIN versions))
    /\ 2 \in DOMAIN versions /\ held = Nothing => SameStructure(db, 1, 2)
=============================================================================
