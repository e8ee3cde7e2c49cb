--------------------------- MODULE RuleWaterfall ---------------------------
(***************************************************************************)
(* The evaluation of the fields of one version                             *)
(* (RuleEngineService.calculate_state and _process_field): a single pass   *)
(* over the fields in their order, each field decided from the values of   *)
(* the fields before it; then completeness and the SKU.                    *)
(*                                                                         *)
(* Fields are numbered in the order of the query.  A criterion is the set  *)
(* of values that satisfy it, which is all that an operator, an expected   *)
(* value and a type amount to.  Rules and Values come from queries without *)
(* an ORDER BY: they are sets, and the first of several is any of them.    *)
(***************************************************************************)
EXTENDS Naturals, Sequences

CONSTANTS
    N,              \* number of fields
    Data,           \* what a field can hold; texts, numbers and lists
    None,           \* no value
    Strip,          \* what is left of an input without blanks, or None
    Modifiers,      \* pieces of an SKU
    Versions        \* what authors may have put into a version

Fields == 1..N
Value  == Data \cup {None}
Piece  == Modifiers \cup {None}

Field  == [free : BOOLEAN, hidden : BOOLEAN, required : BOOLEAN,
           readonly : BOOLEAN, default : Value, whenFilled : Piece]

Option == [id : Nat, field : Fields, text : Data, default : BOOLEAN,
           modifier : Piece]

RuleTypes == {"visibility", "calculation", "editability", "mandatory",
              "availability", "validation"}

Criterion == [field : Nat, accepts : SUBSET Data]

Rule == [type : RuleTypes, field : Fields, option : Nat,
         criteria : SUBSET Criterion, set : Value]

Version == [fields : [Fields -> Field], options : SUBSET Option,
            rules : SUBSET Rule, sku : BOOLEAN]

ASSUME DataAssumption ==
    /\ N \in Nat
    /\ None \notin Data
    /\ None \notin Modifiers
    /\ Strip \in [Data -> Value]
    /\ \A d \in Data : Strip[d] # None => Strip[Strip[d]] = Strip[d]

ASSUME VersionsAssumption == Versions \subseteq Version

VARIABLES
    version,        \* what _load_version_data returned
    input,          \* user_input_map
    context,        \* running_context; None for what is not in it
    output,         \* output_fields
    answer,         \* is_complete and generated_sku, once they are known
    previous        \* the response to the request before this one

waterfallVars == <<version, input, context, output, answer, previous>>

NoAnswer == [complete |-> FALSE, sku |-> <<>>, given |-> FALSE]
NoResponse == [output |-> <<>>, answer |-> NoAnswer]

Errors == {"none", "invalid", "required"}

State == [value : Value, options : SUBSET Option, required : BOOLEAN,
          readonly : BOOLEAN, hidden : BOOLEAN, error : Errors]

Answer == [complete : BOOLEAN, sku : [Fields -> Piece] \cup {<<>>},
           given : {TRUE}]

-----------------------------------------------------------------------------
(* Rules                                                                   *)

Attributes(i) == version.fields[i]

OptionsOf(i) == {o \in version.options : o.field = i}

RulesOf(i, type) == {r \in version.rules : r.type = type /\ r.field = i}

(* A field that has no value yet, is empty or is not of this version fails *)
(* every criterion.                                                        *)
Passes(r, ctx) ==
    \A c \in r.criteria : c.field \in Fields /\ ctx[c.field] \in c.accepts

AnyPasses(rules, ctx) == \E r \in rules : Passes(r, ctx)

(* The attribute of the field decides only where no rule does.             *)
Decided(i, type, attribute, ctx) ==
    IF RulesOf(i, type) = {} THEN attribute ELSE AnyPasses(RulesOf(i, type), ctx)

Visible(i, ctx)  == Decided(i, "visibility", ~Attributes(i).hidden, ctx)
Editable(i, ctx) == Decided(i, "editability", ~Attributes(i).readonly, ctx)
Required(i, ctx) == Decided(i, "mandatory", Attributes(i).required, ctx)

Calculations(i, ctx) == {r \in RulesOf(i, "calculation") : Passes(r, ctx)}

(* AVAILABILITY rules are found by the option they name.                   *)
Available(i, ctx) ==
    {o \in OptionsOf(i) :
        LET rules == {r \in version.rules :
                        r.type = "availability" /\ r.option = o.id}
        IN  rules = {} \/ AnyPasses(rules, ctx)}

ErrorOf(i, value, required, ctx) ==
    IF value # None /\ AnyPasses(RulesOf(i, "validation"), ctx) THEN "invalid"
    ELSE IF required /\ value = None THEN "required" ELSE "none"

With(ctx, i, value) == [ctx EXCEPT ![i] = value]

-----------------------------------------------------------------------------
(* The three ways in which a field is decided                              *)

HiddenState(i) ==
    [value |-> None, options |-> {}, required |-> Attributes(i).required,
     readonly |-> Attributes(i).readonly, hidden |-> TRUE, error |-> "none"]

(* Mutant: the value that a rule sets is taken as it is.                   *)
SettingsUnchecked(i, text) ==
    {[value |-> text, options |-> {o \in OptionsOf(i) : o.text = text}]}

(* A calculated value of a field with options is one of them, or nothing.  *)
Settings(i, text) ==
    LET matching == {o \in OptionsOf(i) : o.text = text}
    IN  IF Attributes(i).free THEN {[value |-> text, options |-> {}]}
        ELSE IF matching = {} THEN {[value |-> None, options |-> {}]}
        ELSE {[value |-> text, options |-> {o}] : o \in matching}

(* MANDATORY rules see the calculated value; those of an entered field do  *)
(* not see what was entered.                                               *)
CalculatedState(i, setting, ctx) ==
    LET after    == With(ctx, i, setting.value)
        required == Required(i, after)
    IN  [value |-> setting.value, options |-> setting.options,
         required |-> required, readonly |-> TRUE, hidden |-> FALSE,
         error |-> ErrorOf(i, setting.value, required, after)]

TextsOf(options) == {o.text : o \in options}

(* An input is kept if it is offered; a required field without one takes   *)
(* the only option, or else a default.                                     *)
Selections(offered, typed, required) ==
    LET defaults == {o \in offered : o.default}
    IN  IF typed \in TextsOf(offered) THEN {typed}
        ELSE IF ~required THEN {None}
        ELSE IF \E o \in offered : offered = {o} THEN TextsOf(offered)
        ELSE IF defaults # {} THEN TextsOf(defaults) ELSE {None}

Entries(i, typed, required, ctx) ==
    IF Attributes(i).free
    THEN {IF typed = None /\ required THEN Attributes(i).default ELSE typed}
    ELSE Selections(Available(i, ctx), typed, required)

EnteredState(i, value, ctx) ==
    LET required == Required(i, ctx)
    IN  [value |-> value,
         options |-> IF Attributes(i).free THEN {} ELSE Available(i, ctx),
         required |-> required, readonly |-> ~Editable(i, ctx),
         hidden |-> FALSE,
         error |-> ErrorOf(i, value, required, With(ctx, i, value))]

-----------------------------------------------------------------------------
(* The pass                                                                *)

Empty == [i \in Fields |-> None]

(* Blanks around a text go; a text of blanks, an empty list and a field    *)
(* that is not in the request are no input.                                *)
Normalized(raw) == [i \in Fields |-> IF raw[i] = None THEN None
                                                      ELSE Strip[raw[i]]]

Request(raw) ==
    /\ input' = Normalized(raw)
    /\ context' = Empty
    /\ output' = <<>>
    /\ answer' = NoAnswer

FirstRequest ==
    /\ \E raw \in [Fields -> Value] : input = Normalized(raw)
    /\ context = Empty
    /\ output = <<>>
    /\ answer = NoAnswer
    /\ previous = NoResponse

WaterfallInit == version \in Versions /\ FirstRequest

AtField(i) == i = Len(output) + 1

Show(i, state) ==
    /\ output' = Append(output, state)
    /\ context' = With(context, i, state.value)
    /\ UNCHANGED <<version, input, answer, previous>>

(* Mutant: what was entered in a hidden field stays in the context.        *)
HideAndRemember(i) ==
    /\ AtField(i)
    /\ ~Visible(i, context)
    /\ output' = Append(output, HiddenState(i))
    /\ context' = With(context, i, input[i])
    /\ UNCHANGED <<version, input, answer, previous>>

Hide(i) ==
    /\ AtField(i)
    /\ ~Visible(i, context)
    /\ Show(i, HiddenState(i))

(* Mutant: the context gets the value before it is looked up.              *)
CalculateTooEarly(i) ==
    /\ AtField(i)
    /\ Visible(i, context)
    /\ \E r \in Calculations(i, context) :
        /\ r.set # None
        /\ \E setting \in Settings(i, r.set) :
                output' = Append(output, CalculatedState(i, setting, context))
        /\ context' = With(context, i, r.set)
    /\ UNCHANGED <<version, input, answer, previous>>

(* The first rule that passes decides, and it may set nothing (a rule made *)
(* a CALCULATION by an update): then the field is entered.                 *)
Calculate(i) ==
    /\ AtField(i)
    /\ Visible(i, context)
    /\ \E r \in Calculations(i, context) :
        /\ r.set # None
        /\ \E setting \in Settings(i, r.set) :
                Show(i, CalculatedState(i, setting, context))

Enter(i) ==
    /\ AtField(i)
    /\ Visible(i, context)
    /\ \/ Calculations(i, context) = {}
       \/ \E r \in Calculations(i, context) : r.set = None
    /\ \E value \in Entries(i, input[i], Required(i, context), context) :
            Show(i, EnteredState(i, value, context))

(* Mutant: hidden fields count too.                                        *)
CompleteWithHidden(states) ==
    \A i \in Fields : /\ ~(states[i].required /\ states[i].value = None)
                      /\ states[i].error = "none"

Complete(states) ==
    \A i \in Fields :
        /\ ~(states[i].required /\ ~states[i].hidden /\ states[i].value = None)
        /\ states[i].error = "none"

(* What a field adds to the SKU: the modifier of the option with its value *)
(* or, if it is free, the one for any value.                               *)
Pieces(i, state) ==
    LET found == {o.modifier : o \in
                    {p \in OptionsOf(i) : p.text = state.value}} \ {None}
    IN  IF state.hidden \/ state.value = None THEN {None}
        ELSE IF Attributes(i).free THEN {Attributes(i).whenFilled}
        ELSE IF found = {} THEN {None} ELSE found

(* The pieces of an SKU by field; it is their concatenation, cut at 100    *)
(* characters.  A version without an SKU base has none.                    *)
IsSKU(sku, states) ==
    IF version.sku
    THEN /\ sku \in [Fields -> Piece]
         /\ \A i \in Fields : sku[i] \in Pieces(i, states[i])
    ELSE sku = <<>>

Finish ==
    /\ Len(output) = N
    /\ ~answer.given
    /\ \E sku \in [Fields -> Piece] \cup {<<>>} :
        /\ IsSKU(sku, output)
        /\ answer' = [complete |-> Complete(output), sku |-> sku,
                      given |-> TRUE]
    /\ UNCHANGED <<version, input, context, output, previous>>

-----------------------------------------------------------------------------
(* The next request                                                        *)

(* The values of the fields before field i.                                *)
Before(states, i) == [j \in Fields |-> IF j < i THEN states[j].value ELSE None]

Calculated(i, ctx) == \E r \in Calculations(i, ctx) : r.set # None

(* A field whose input the engine does not look at.                        *)
Unasked(i, states) ==
    states[i].hidden \/ Calculated(i, Before(states, i))

(* A client sends back what it was shown, and anything for the fields that *)
(* nobody asks for.                                                        *)
Resubmit ==
    /\ answer.given
    /\ previous' = [output |-> output, answer |-> answer]
    /\ \E raw \in [Fields -> Value] :
        /\ \A i \in Fields : Unasked(i, output) \/ raw[i] = output[i].value
        /\ Request(raw)
    /\ UNCHANGED version

(* A request that has nothing to do with the one before.                   *)
StartAnew ==
    /\ answer.given
    /\ previous' = NoResponse
    /\ \E raw \in [Fields -> Value] : Request(raw)
    /\ UNCHANGED version

WaterfallNext ==
    \/ \E i \in Fields : Hide(i) \/ Calculate(i) \/ Enter(i)
    \/ Finish
    \/ Resubmit
    \/ StartAnew

WaterfallSpec == WaterfallInit /\ [][WaterfallNext]_waterfallVars

-----------------------------------------------------------------------------
(* Properties                                                              *)

IsResponse(response) ==
    \/ response = NoResponse
    \/ /\ response \in [output : Seq(State), answer : Answer]
       /\ Len(response.output) = N

(* Types of the request and of the response in the making; the context     *)
(* holds the values output so far and nothing else, for the BOM is read    *)
(* from the one and the SKU from the other.                                *)
WaterfallTypeOK ==
    /\ version \in Version
    /\ input \in [Fields -> Value]
    /\ output \in Seq(State)
    /\ Len(output) \in 0..N
    /\ context = Before(output, Len(output) + 1)
    /\ answer \in Answer \cup {NoAnswer}
    /\ IsResponse(previous)

(* No rule reads its own field or a later one, but for a VALIDATION rule,  *)
(* which may read its own.                                                 *)
LooksBack ==
    /\ \A r \in version.rules : \A c \in r.criteria :
        c.field < r.field \/ (r.type = "validation" /\ c.field = r.field)
    /\ \A r \in version.rules : \A o \in version.options :
        r.type = "availability" /\ r.option = o.id => r.field = o.field

(* All CALCULATION rules of a field set the same value, and no two options *)
(* of a field have the same text: no choice is left to the database.       *)
Definite ==
    /\ \A r, s \in version.rules :
        /\ r.type = "calculation" /\ s.type = "calculation"
        /\ r.field = s.field
        => r.set = s.set
    /\ \A o, p \in version.options :
        o.field = p.field /\ o.text = p.text => o = p

(* What authors wrote carries no blanks that an input would lose.          *)
Trimmed ==
    /\ \A o \in version.options : Strip[o.text] = o.text
    /\ \A i \in Fields :
        LET default == Attributes(i).default
        IN  default # None => Strip[default] = default

Final == [i \in Fields |-> output[i].value]

(* A field with options shows one of them or nothing: no value that is     *)
(* hidden, unavailable or not defined is ever shown, whatever the rules    *)
(* set and the client sends (docs/ADR_CALCULATION_RULES.md:106).           *)
ShownIsOffered ==
    \A i \in 1..Len(output) :
        LET state == output[i]
        IN  /\ state.options \subseteq OptionsOf(i)
            /\ state.hidden => state.value = None
            /\ state.value = None \/ Attributes(i).free
                  \/ state.value \in TextsOf(state.options)

(* A single pass is enough: in a version whose rules look back, what was   *)
(* decided of each field on the way is what the rules say of the values    *)
(* that the response shows in the end.                                     *)
ReadsAsShown ==
    answer.given /\ LooksBack /\ Definite =>
        \A i \in Fields :
            LET state == output[i]
            IN  /\ state.hidden = ~Visible(i, Final)
                /\ ~state.hidden =>
                    /\ state.required = Required(i, Final)
                    /\ state.error =
                            ErrorOf(i, state.value, state.required, Final)
                    /\ ~Calculated(i, Final) =>
                        /\ state.readonly = ~Editable(i, Final)
                        /\ ~Attributes(i).free =>
                                state.options = Available(i, Final)
                    /\ Calculated(i, Final) => state.readonly

(* Complete means that whoever reads the values of the response against    *)
(* the rules finds every visible required field filled and no VALIDATION   *)
(* rule of a filled field that applies.                                    *)
CompleteIsAnswered ==
    answer.given /\ LooksBack =>
        (answer.complete <=>
            \A i \in Fields : Visible(i, Final) =>
                /\ Required(i, Final) => Final[i] # None
                /\ Final[i] # None =>
                        ~AnyPasses(RulesOf(i, "validation"), Final))

(* A response sent back as a request comes back unchanged, SKU included:   *)
(* the input of a hidden or calculated field has no say, and no value that *)
(* the engine chose is judged differently when a client sends it.          *)
RepeatsItself ==
    /\ answer.given
    /\ previous # NoResponse
    /\ Definite
    /\ Trimmed
    => previous = [output |-> output, answer |-> answer]
=============================================================================
