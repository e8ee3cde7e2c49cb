-------------------------- MODULE MCRuleWaterfall --------------------------
(* RuleWaterfall on three fields: a field with options, and two that may be *)
(* free or have options, with every pair of rules from a list that has each *)
(* type, rules that look back, forward and at themselves, and rules that    *)
(* contradict each other.                                                   *)
EXTENDS RuleWaterfall, TLC

CONSTANTS a, b, padded, m1, m2, NoValue

MCStrip == a :> a @@ b :> b @@ padded :> a

Plain == [free |-> FALSE, hidden |-> FALSE, required |-> FALSE,
          readonly |-> FALSE, default |-> NoValue, whenFilled |-> NoValue]

Seconds == {[Plain EXCEPT !.free = f, !.required = TRUE, !.readonly = f,
                          !.whenFilled = IF f THEN m1 ELSE NoValue]
                : f \in BOOLEAN}

Thirds == {[Plain EXCEPT !.hidden = h, !.required = h] : h \in BOOLEAN} \cup
          {[Plain EXCEPT !.free = TRUE, !.required = TRUE, !.default = d]
                : d \in {NoValue, b, padded}}

MCFields == {<<Plain, second, third>> : second \in Seconds, third \in Thirds}

Choice(n, i, text, default, modifier) ==
    [id |-> n, field |-> i, text |-> text, default |-> default,
     modifier |-> modifier]

MCOptions ==
    {Choice(1, 1, a, FALSE, m1), Choice(2, 1, b, FALSE, NoValue),
     Choice(3, 2, a, TRUE, m1), Choice(4, 2, b, FALSE, m2),
     Choice(5, 3, a, FALSE, NoValue), Choice(6, 3, b, TRUE, m2)}

(* A second option with a text that there is already.                      *)
Twin == Choice(7, 2, a, FALSE, m2)

NotFree(options, fields) == {o \in options : ~fields[o.field].free}

If(i, text) == {[field |-> i, accepts |-> {text}]}

IfNot(i, text) == {[field |-> i, accepts |-> Data \ {text}]}

ARule(type, i, criteria) ==
    [type |-> type, field |-> i, option |-> 0, criteria |-> criteria,
     set |-> NoValue]

Setting(text, rule) == [rule EXCEPT !.set = text]
For(option, rule) == [rule EXCEPT !.option = option]

MCRules ==
    {ARule("visibility", 2, If(1, a)),
     ARule("visibility", 3, If(2, a)),
     ARule("visibility", 1, If(3, a)),
     ARule("editability", 2, If(1, a)),
     ARule("mandatory", 3, IfNot(2, a)),
     ARule("mandatory", 2, If(2, a)),
     ARule("validation", 3, If(3, b) \cup If(1, b)),
     ARule("validation", 2, If(3, b)),
     For(3, ARule("availability", 2, If(1, b))),
     For(6, ARule("availability", 3, If(2, a))),
     Setting(b, ARule("calculation", 2, If(1, b))),
     Setting(padded, ARule("calculation", 2, If(1, a))),
     Setting(a, ARule("calculation", 3, If(1, b))),
     ARule("calculation", 2, If(1, b))}

MCVersions ==
    {[fields |-> fields, options |-> NotFree(options, fields),
      rules |-> {r, s}, sku |-> r # s] :
        fields \in MCFields, options \in {MCOptions, MCOptions \cup {Twin}},
        r, s \in MCRules}
=============================================================================
