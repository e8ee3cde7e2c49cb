-------------------------- MODULE MCBomEvaluation --------------------------
(* BomEvaluation on the versions of MCRuleWaterfall, which have no BOM, and *)
(* on BOMs of up to five items: two roots, children of either and of each   *)
(* other, a commercial item, items that depend on a field or take their     *)
(* quantity from one, a circle of two items, price windows that begin, end  *)
(* and touch on the day of the calculation.                                 *)
EXTENDS MCRuleWaterfall, BomEvaluation

CONSTANTS p, q

(* a is 2, b is 0 and padded is no number.                                  *)
MCAmount == a :> 2 @@ b :> 0 @@ padded :> NoValue

(* A version of a field with options and a field for a number, both shown,  *)
(* the second hidden when the first is b.                                   *)
BomVersion ==
    [fields |-> <<Plain, [Plain EXCEPT !.free = TRUE], Plain>>,
     options |-> {Choice(1, 1, a, FALSE, m1), Choice(2, 1, b, FALSE, NoValue)},
     rules |-> {ARule("visibility", 2, If(1, a))}, sku |-> FALSE]

AnItem(part, parent, sequence, number) ==
    [part |-> part, type |-> "technical", parent |-> parent,
     sequence |-> sequence, quantity |-> number, from |-> 0, rules |-> {}]

When(i, text, item) == [item EXCEPT !.rules = {[criteria |-> If(i, text)]}]
CountedBy(i, item) == [item EXCEPT !.from = i]
Commercial(item) == [item EXCEPT !.type = "commercial"]

Variants(item) == {item, When(1, a, item), CountedBy(2, item)}

(* Two roots, a child of the first, a child of any of them and a leaf.      *)
Trees ==
    {<<AnItem(p, 0, 1, 2), second, third, fourth, fifth>> :
        second \in {AnItem(p, 0, 0, 1), When(1, a, AnItem(p, 0, 2, 1)),
                    AnItem(q, 0, 1, 1)},
        third \in Variants(AnItem(q, 1, 1, 1)),
        fourth \in {AnItem(part, parent, 1, 3) :
                        part \in {p, q}, parent \in 1..3},
        fifth \in Variants(AnItem(p, 4, 0, 1)) \cup
                  {AnItem(p, 2, 1, 1)}}

Offers ==
    {<<Commercial(AnItem(p, 0, 1, 2)), Commercial(AnItem(p, 0, 0, 3)),
       CountedBy(2, Commercial(AnItem(q, 0, 1, 1))),
       AnItem(p, 1, 1, 2), AnItem(q, 0, 1, 2)>>}

(* Two items whose parents were changed at the same time.                   *)
Circle == {<<AnItem(p, 2, 1, 1), AnItem(q, 1, 1, 1), AnItem(p, 0, 1, 2),
             NoValue, NoValue>>}

APrice(part, from, to, amount) ==
    [part |-> part, from |-> from, to |-> to, price |-> amount]

MCPricings ==
    {[list |-> [from |-> 1, to |-> 3, rows |-> rows], date |-> date] :
        date \in {2, 3, 4},
        rows \in {{APrice(p, 1, 2, 5), APrice(q, 3, 3, 2)},
                  {APrice(p, 1, 2, 5), APrice(p, 2, 3, 7)}, {}}}
    \cup {[list |-> NoValue, date |-> 2]}

MCCustoms == {{}, {[key |-> 1, quantity |-> 2, price |-> 3],
                   [key |-> 2, quantity |-> 1, price |-> 0]}}

NoItems == [i \in Ids |-> NoValue]

ALoad(version_, items_, pricing_, customs_) ==
    [version |-> version_, items |-> items_, pricing |-> pricing_,
     customs |-> customs_]

TreeLoads == {ALoad(BomVersion, t, NoValue, {}) : t \in Trees \cup Circle}

OfferLoads ==
    {ALoad(BomVersion, o, r, c) :
        o \in Offers \cup {NoItems}, r \in MCPricings \cup {NoValue},
        c \in MCCustoms}

MCLoads ==
    {ALoad(v, NoItems, NoValue, {}) : v \in MCVersions}
    \cup TreeLoads \cup OfferLoads

AllVersions == MCVersions \cup {BomVersion}
=============================================================================
