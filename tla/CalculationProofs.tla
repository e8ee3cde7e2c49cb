------------------------- MODULE CalculationProofs ---------------------------
(***************************************************************************)
(* Theorems about RuleWaterfall and BomEvaluation, for any number of       *)
(* fields, any data, any items, price lists and set of versions.           *)
(*                                                                         *)
(* Of the fields everything follows from one fact about each that was      *)
(* output: it is what its rules yield in the context of the fields before  *)
(* it.  A calculation with its BOM is one of RuleWaterfall, so that what   *)
(* is proved of the fields holds there.  Pruning keeps the largest set     *)
(* that is closed under parents: the closed sets of selected items never   *)
(* lose an item, and what is left in the end is one of them.  Merging      *)
(* takes the items of a kind all at once: none that is alike is left       *)
(* behind on a level that was walked.  The sums of the output are proved   *)
(* of sums that are taken in any order, by induction over finite sets.     *)
(***************************************************************************)
EXTENDS BomEvaluation, FiniteSetTheorems, TLAPS

(* How a field may be decided from its input and a context.                *)
Derived(i, typed, ctx, state) ==
    \/ /\ ~Visible(i, ctx)
       /\ state = HiddenState(i)
    \/ /\ Visible(i, ctx)
       /\ \E r \in Calculations(i, ctx) :
            /\ r.set # None
            /\ \E setting \in Settings(i, r.set) :
                    state = CalculatedState(i, setting, ctx)
    \/ /\ Visible(i, ctx)
       /\ \/ Calculations(i, ctx) = {}
          \/ \E r \in Calculations(i, ctx) : r.set = None
       /\ \E value \in Entries(i, typed, Required(i, ctx), ctx) :
                state = EnteredState(i, value, ctx)

DerivedInv ==
    \A i \in 1..Len(output) :
        Derived(i, input[i], Before(output, i), output[i])

StrippedInv == \A i \in Fields : input[i] # None => Strip[input[i]] = input[i]

AnswerInv ==
    answer.given => /\ Len(output) = N
                    /\ answer.complete = Complete(output)
                    /\ IsSKU(answer.sku, output)

(* What the previous response was derived from is not kept; that there was *)
(* something, and that its values came back, is enough.                    *)
Echoed(i) ==
    \E typed \in Value :
        /\ typed # None => Strip[typed] = typed
        /\ Derived(i, typed, Before(previous.output, i), previous.output[i])
        /\ \/ Unasked(i, previous.output)
           \/ previous.output[i].value = None /\ input[i] = None
           \/ /\ previous.output[i].value # None
              /\ input[i] = Strip[previous.output[i].value]

EchoInv ==
    previous # NoResponse =>
        /\ previous.answer.complete = Complete(previous.output)
        /\ IsSKU(previous.answer.sku, previous.output)
        /\ \A i \in Fields : Echoed(i)
        /\ Definite /\ Trimmed =>
                \A i \in 1..Len(output) : output[i] = previous.output[i]

IInv == WaterfallTypeOK /\ StrippedInv /\ DerivedInv /\ AnswerInv /\ EchoInv

-----------------------------------------------------------------------------
(* Types                                                                   *)

(* A context is a function from the fields to their values.                *)
LEMMA BeforeType ==
    ASSUME NEW states \in Seq(State), NEW i \in Nat, i <= Len(states) + 1
    PROVE  Before(states, i) \in [Fields -> Value]
<1>1. ASSUME NEW j \in Fields, j < i
      PROVE  states[j].value \in Value
  <2>1. j \in 1..Len(states)
    BY <1>1, DataAssumption DEF Fields
  <2>2. states[j] \in State
    BY <2>1
  <2> QED
    BY <2>2 DEF State
<1>2. None \in Value
  BY DEF Value
<1> QED
  BY <1>1, <1>2 DEF Before

(* Whether a decision is taken is a truth value.                           *)
LEMMA DecidedType ==
    ASSUME version \in Version, NEW i \in Fields, NEW ctx
    PROVE  /\ Visible(i, ctx) \in BOOLEAN
           /\ Editable(i, ctx) \in BOOLEAN
           /\ Required(i, ctx) \in BOOLEAN
  BY DEF Version, Field, Visible, Editable, Required, Decided, AnyPasses,
         Attributes

(* An error is one of three outcomes.                                      *)
LEMMA ErrorType ==
    ASSUME NEW i, NEW value, NEW required, NEW ctx
    PROVE  ErrorOf(i, value, required, ctx) \in Errors
  BY DEF ErrorOf, Errors

(* A setting is a value with the options shown for it.                     *)
LEMMA SettingsType ==
    ASSUME version \in Version, NEW i \in Fields, NEW text \in Data,
           NEW setting \in Settings(i, text)
    PROVE  /\ setting.value \in Value
           /\ setting.options \subseteq OptionsOf(i)
           /\ setting.options \subseteq Option
  BY DEF Settings, OptionsOf, Version, Option, Value

(* What can be entered is a value.                                         *)
LEMMA EntriesType ==
    ASSUME version \in Version, NEW i \in Fields, NEW typed \in Value,
           NEW required, NEW ctx,
           NEW value \in Entries(i, typed, required, ctx)
    PROVE  value \in Value
<1>1. Available(i, ctx) \subseteq Option
  BY DEF Available, OptionsOf, Version
<1>2. TextsOf(Available(i, ctx)) \subseteq Value
  BY <1>1 DEF TextsOf, Option, Value
<1>3. TextsOf({o \in Available(i, ctx) : o.default}) \subseteq Value
  BY <1>1 DEF TextsOf, Option, Value
<1>4. Attributes(i).default \in Value
  BY DEF Attributes, Version, Field
<1> QED
  BY <1>2, <1>3, <1>4 DEF Entries, Selections, Value

(* Every way of deciding a field gives a state.                            *)
LEMMA DerivedType ==
    ASSUME version \in Version, NEW i \in Fields, NEW typed \in Value,
           NEW ctx, NEW state, Derived(i, typed, ctx, state)
    PROVE  state \in State
<1>1. CASE state = HiddenState(i)
  BY <1>1 DEF HiddenState, State, Value, Attributes, Version, Field, Errors
<1>2. ASSUME NEW r \in Calculations(i, ctx), r.set # None,
             NEW setting \in Settings(i, r.set),
             state = CalculatedState(i, setting, ctx)
      PROVE  state \in State
  <2>1. r.set \in Data
    BY <1>2 DEF Calculations, RulesOf, Version, Rule, Value
  <2>2. setting.value \in Value /\ setting.options \subseteq Option
    BY <2>1, SettingsType
  <2>3. setting.options \subseteq version.options
    BY <2>1, SettingsType DEF OptionsOf
  <2> DEFINE after == With(ctx, i, setting.value)
  <2>4. Required(i, after) \in BOOLEAN
    BY DecidedType
  <2>5. ErrorOf(i, setting.value, Required(i, after), after) \in Errors
    BY ErrorType
  <2> QED
    BY <1>2, <2>2, <2>4, <2>5 DEF CalculatedState, State
<1>3. ASSUME NEW value \in Entries(i, typed, Required(i, ctx), ctx),
             state = EnteredState(i, value, ctx)
      PROVE  state \in State
  <2>1. value \in Value
    BY EntriesType
  <2>2. Required(i, ctx) \in BOOLEAN /\ (~Editable(i, ctx)) \in BOOLEAN
    BY DecidedType
  <2>3. ErrorOf(i, value, Required(i, ctx), With(ctx, i, value)) \in Errors
    BY ErrorType
  <2>4. (IF Attributes(i).free THEN {} ELSE Available(i, ctx)) \subseteq Option
    BY DEF Available, OptionsOf, Version
  <2> QED
    BY <1>3, <2>1, <2>2, <2>3, <2>4 DEF EnteredState, State
<1> QED
  BY <1>1, <1>2, <1>3 DEF Derived

-----------------------------------------------------------------------------
(* Steps                                                                   *)

(* Every action that outputs a field outputs what its rules yield.         *)
LEMMA FieldStep ==
    ASSUME NEW i \in Fields, Hide(i) \/ Calculate(i) \/ Enter(i)
    PROVE  \E state : /\ Derived(i, input[i], context, state)
                      /\ AtField(i)
                      /\ Show(i, state)
<1>1. CASE Hide(i)
  BY <1>1 DEF Hide, Derived
<1>2. CASE Calculate(i)
  BY <1>2 DEF Calculate, Derived
<1>3. CASE Enter(i)
  BY <1>3 DEF Enter, Derived
<1> QED
  BY <1>1, <1>2, <1>3

(* The values before a field do not change when a field is added.          *)
LEMMA BeforeAppend ==
    ASSUME NEW states \in Seq(State), NEW state, NEW i \in Nat,
           i <= Len(states) + 1
    PROVE  Before(Append(states, state), i) = Before(states, i)
<1>1. ASSUME NEW j \in Fields, j < i
      PROVE  Append(states, state)[j] = states[j]
  <2>1. j \in 1..Len(states)
    BY <1>1, DataAssumption DEF Fields
  <2> QED
    BY <2>1
<1> QED
  BY <1>1 DEF Before

(* With the value of the field that was added, they are those before the   *)
(* next one.                                                               *)
LEMMA BeforeNext ==
    ASSUME NEW states \in Seq(State), NEW state \in State,
           Len(states) + 1 \in Fields
    PROVE  Before(Append(states, state), Len(states) + 2) =
           With(Before(states, Len(states) + 1), Len(states) + 1, state.value)
<1> DEFINE k == Len(states) + 1
           longer == Append(states, state)
<1>1. ASSUME NEW j \in Fields
      PROVE  Before(longer, k + 1)[j] = With(Before(states, k), k, state.value)[j]
  <2>1. CASE j < k
    <3>1. longer[j] = states[j]
      BY <2>1, DataAssumption DEF Fields
    <3> QED
      BY <2>1, <3>1, DataAssumption DEF Before, With, Fields
  <2>2. CASE j = k
    BY <2>2, DataAssumption DEF Before, With, Fields
  <2>3. CASE j > k
    BY <2>3, DataAssumption DEF Before, With, Fields
  <2> QED
    BY <2>1, <2>2, <2>3, DataAssumption DEF Fields
<1>2. Before(longer, k + 1) = With(Before(states, k), k, state.value)
  BY <1>1 DEF Before, With
<1> QED
  BY <1>2

(* Inputs lose their blanks.                                               *)
LEMMA NormalizedType ==
    ASSUME NEW raw \in [Fields -> Value]
    PROVE  /\ Normalized(raw) \in [Fields -> Value]
           /\ \A i \in Fields : Normalized(raw)[i] # None =>
                Strip[Normalized(raw)[i]] = Normalized(raw)[i]
  BY DataAssumption DEF Normalized, Value

(* Nothing was output before the first field.                              *)
LEMMA BeforeFirst == Before(<<>>, 1) = Empty
  BY DataAssumption DEF Before, Empty, Fields

(* The initial states satisfy the invariant.                               *)
LEMMA InitInv == WaterfallInit => IInv
<1> SUFFICES ASSUME WaterfallInit PROVE IInv
  OBVIOUS
<1> USE DEF WaterfallInit, FirstRequest
<1>1. StrippedInv /\ input \in [Fields -> Value]
  BY NormalizedType DEF StrippedInv
<1>2. WaterfallTypeOK
  <2>1. version \in Version
    BY VersionsAssumption
  <2>2. Len(output) = 0 /\ output \in Seq(State)
    OBVIOUS
  <2> QED
    BY <1>1, <2>1, <2>2, BeforeFirst, DataAssumption
    DEF WaterfallTypeOK, IsResponse
<1>3. DerivedInv
  BY DEF DerivedInv
<1>4. AnswerInv
  BY DEF AnswerInv, NoAnswer
<1>5. EchoInv
  BY DEF EchoInv
<1> QED
  BY <1>1, <1>2, <1>3, <1>4, <1>5 DEF IInv

-----------------------------------------------------------------------------
(* A field that gets its own answer back                                   *)

(* In a definite version a rule that sets a value leaves one setting.      *)
LEMMA OneSetting ==
    ASSUME version \in Version, Definite, NEW i \in Fields, NEW text,
           NEW s \in Settings(i, text), NEW t \in Settings(i, text)
    PROVE  s = t
<1> DEFINE matching == {o \in OptionsOf(i) : o.text = text}
<1>1. CASE Attributes(i).free \/ matching = {}
  BY <1>1 DEF Settings
<1>2. CASE ~Attributes(i).free /\ matching # {}
  <2>1. PICK o \in matching : s = [value |-> text, options |-> {o}]
    BY <1>2 DEF Settings
  <2>2. PICK p \in matching : t = [value |-> text, options |-> {p}]
    BY <1>2 DEF Settings
  <2>3. o = p
    BY DEF Definite, OptionsOf
  <2> QED
    BY <2>1, <2>2, <2>3
<1> QED
  BY <1>1, <1>2

(* What is entered, kept or selected has no blanks around it.              *)
LEMMA EntriesClean ==
    ASSUME version \in Version, Trimmed, NEW i \in Fields,
           NEW typed \in Value, typed # None => Strip[typed] = typed,
           NEW required, NEW ctx,
           NEW value \in Entries(i, typed, required, ctx), value # None
    PROVE  Strip[value] = value
<1>1. CASE Attributes(i).free
  BY <1>1 DEF Entries, Trimmed
<1>2. CASE ~Attributes(i).free
  <2> DEFINE offered == Available(i, ctx)
  <2>1. \A text \in TextsOf(offered) : Strip[text] = text
    BY DEF Trimmed, TextsOf, Available, OptionsOf
  <2>2. TextsOf({o \in offered : o.default}) \subseteq TextsOf(offered)
    BY DEF TextsOf
  <2>3. value \in Selections(offered, typed, required)
    BY <1>2 DEF Entries
  <2> QED
    BY <2>1, <2>2, <2>3 DEF Selections
<1> QED
  BY <1>1, <1>2

(* No option has no text.                                                  *)
LEMMA NoneIsNotOffered ==
    ASSUME version \in Version, NEW i \in Fields, NEW ctx
    PROVE  None \notin TextsOf(Available(i, ctx))
  BY DataAssumption DEF TextsOf, Available, OptionsOf, Version, Option

(* What was entered, kept or selected is entered again and kept.           *)
LEMMA EntriesRepeat ==
    ASSUME version \in Version, NEW i \in Fields, NEW typed \in Value,
           NEW required, NEW ctx,
           NEW value \in Entries(i, typed, required, ctx)
    PROVE  Entries(i, value, required, ctx) = {value}
<1>1. CASE Attributes(i).free
  BY <1>1 DEF Entries
<1>2. CASE ~Attributes(i).free
  <2> DEFINE offered == Available(i, ctx)
             defaults == {o \in offered : o.default}
  <2> HIDE DEF offered
  <2>1. None \notin TextsOf(offered)
    BY NoneIsNotOffered DEF offered
  <2>2. value \in Selections(offered, typed, required)
    BY <1>2 DEF Entries, offered
  <2>3. Entries(i, value, required, ctx) = Selections(offered, value, required)
    BY <1>2 DEF Entries, offered
  <2>4. CASE value \in TextsOf(offered)
    BY <2>3, <2>4 DEF Selections
  <2>5. CASE value \notin TextsOf(offered)
    <3>1. TextsOf(defaults) \subseteq TextsOf(offered)
      BY DEF TextsOf
    <3>2. typed \notin TextsOf(offered)
      BY <2>2, <2>5 DEF Selections
    <3>3. value = None
      BY <2>2, <2>5, <3>1, <3>2 DEF Selections
    <3>4. ~required \/ ~\E o \in offered : offered = {o}
      BY <2>2, <2>5, <3>2 DEF Selections
    <3>5. ~required \/ defaults = {}
      <4> SUFFICES ASSUME required, defaults # {} PROVE FALSE
        OBVIOUS
      <4>1. value \in TextsOf(defaults)
        BY <2>2, <3>2, <3>4 DEF Selections
      <4> QED
        BY <4>1, <3>1, <2>5
    <3> QED
      BY <2>1, <2>3, <3>3, <3>4, <3>5 DEF Selections
  <2> QED
    BY <2>4, <2>5
<1> QED
  BY <1>1, <1>2

(* A field that gets its own answer back, or whose input is not looked at, *)
(* is decided as before.                                                   *)
LEMMA DerivedRepeats ==
    ASSUME version \in Version, Definite, Trimmed, NEW i \in Fields, NEW ctx,
           NEW typed \in Value, typed # None => Strip[typed] = typed,
           NEW again, NEW first, NEW second,
           Derived(i, typed, ctx, first), Derived(i, again, ctx, second),
           \/ first.hidden \/ Calculated(i, ctx)
           \/ first.value = None /\ again = None
           \/ first.value # None /\ again = Strip[first.value]
    PROVE  second = first
<1>1. CASE ~Visible(i, ctx)
  BY <1>1 DEF Derived
<1>2. CASE Visible(i, ctx) /\ Calculated(i, ctx)
  <2>1. PICK r \in Calculations(i, ctx) : r.set # None
    BY <1>2 DEF Calculated
  <2>2. \A s \in Calculations(i, ctx) : s.set = r.set
    BY <2>1 DEF Definite, Calculations, RulesOf
  <2>3. PICK s \in Settings(i, r.set) : first = CalculatedState(i, s, ctx)
    BY <1>2, <2>1, <2>2 DEF Derived
  <2>4. PICK t \in Settings(i, r.set) : second = CalculatedState(i, t, ctx)
    BY <1>2, <2>1, <2>2 DEF Derived
  <2>5. s = t
    BY OneSetting
  <2> QED
    BY <2>3, <2>4, <2>5
<1>3. CASE Visible(i, ctx) /\ ~Calculated(i, ctx)
  <2> DEFINE required == Required(i, ctx)
  <2>1. PICK value \in Entries(i, typed, required, ctx) :
            first = EnteredState(i, value, ctx)
    BY <1>3 DEF Derived, Calculated
  <2>2. PICK other \in Entries(i, again, required, ctx) :
            second = EnteredState(i, other, ctx)
    BY <1>3 DEF Derived, Calculated
  <2>3. first.value = value /\ ~first.hidden
    BY <2>1 DEF EnteredState
  <2>4. again = value
    BY <1>3, <2>3, EntriesClean
  <2>5. other = value
    BY <2>2, <2>4, EntriesRepeat
  <2> QED
    BY <2>1, <2>2, <2>5
<1> QED
  BY <1>1, <1>2, <1>3

-----------------------------------------------------------------------------
(* A step that keeps the version keeps what its rules yield                *)

(* The rules and the options of a field.                                   *)
LEMMA SameContent ==
    ASSUME version' = version, NEW i, NEW type
    PROVE  /\ Attributes(i)' = Attributes(i)
           /\ OptionsOf(i)' = OptionsOf(i)
           /\ RulesOf(i, type)' = RulesOf(i, type)
  BY DEF Attributes, OptionsOf, RulesOf

(* The decisions that rules take about a field.                            *)
LEMMA SameDecisions ==
    ASSUME version' = version, NEW i, NEW ctx
    PROVE  /\ Visible(i, ctx)' = Visible(i, ctx)
           /\ Editable(i, ctx)' = Editable(i, ctx)
           /\ Required(i, ctx)' = Required(i, ctx)
           /\ Calculations(i, ctx)' = Calculations(i, ctx)
           /\ Available(i, ctx)' = Available(i, ctx)
<1>1. /\ Visible(i, ctx)' = Visible(i, ctx)
      /\ Editable(i, ctx)' = Editable(i, ctx)
      /\ Required(i, ctx)' = Required(i, ctx)
  BY SameContent DEF Visible, Editable, Required, Decided
<1>2. Calculations(i, ctx)' = Calculations(i, ctx)
  BY SameContent DEF Calculations
<1>3. Available(i, ctx)' = Available(i, ctx)
  BY DEF Available, OptionsOf
<1> QED
  BY <1>1, <1>2, <1>3

(* The states that a field can be output with.                             *)
LEMMA SameStates ==
    ASSUME version' = version, NEW i, NEW ctx, NEW x, NEW required
    PROVE  /\ HiddenState(i)' = HiddenState(i)
           /\ Settings(i, x)' = Settings(i, x)
           /\ CalculatedState(i, x, ctx)' = CalculatedState(i, x, ctx)
           /\ Entries(i, x, required, ctx)' = Entries(i, x, required, ctx)
           /\ EnteredState(i, x, ctx)' = EnteredState(i, x, ctx)
<1>1. \A value, needed, c :
        ErrorOf(i, value, needed, c)' = ErrorOf(i, value, needed, c)
  BY SameContent DEF ErrorOf
<1>2. HiddenState(i)' = HiddenState(i)
  BY SameContent DEF HiddenState
<1>3. Settings(i, x)' = Settings(i, x)
  <2>1. {o \in OptionsOf(i) : o.text = x}' = {o \in OptionsOf(i) : o.text = x}
    BY SameContent
  <2>2. {[value |-> x, options |-> {o}] : o \in {p \in OptionsOf(i) : p.text = x}}'
        = {[value |-> x, options |-> {o}] : o \in {p \in OptionsOf(i) : p.text = x}}
    BY <2>1
  <2> QED
    BY <2>1, <2>2, SameContent DEF Settings
<1>4. CalculatedState(i, x, ctx)' = CalculatedState(i, x, ctx)
  BY <1>1, SameDecisions DEF CalculatedState
<1>5. Entries(i, x, required, ctx)' = Entries(i, x, required, ctx)
  BY SameContent, SameDecisions DEF Entries
<1>6. EnteredState(i, x, ctx)' = EnteredState(i, x, ctx)
  <2>1. \A needed : ErrorOf(i, x, needed, With(ctx, i, x))'
                        = ErrorOf(i, x, needed, With(ctx, i, x))
    BY <1>1
  <2>2. Required(i, ctx)' = Required(i, ctx) /\ Editable(i, ctx)' = Editable(i, ctx)
        /\ Available(i, ctx)' = Available(i, ctx)
    BY SameDecisions
  <2>3. Attributes(i)' = Attributes(i)
    BY SameContent
  <2> QED
    BY <2>1, <2>2, <2>3 DEF EnteredState
<1> QED
  BY <1>2, <1>3, <1>4, <1>5, <1>6

(* The SKUs of a response.                                                 *)
LEMMA SameSKU ==
    ASSUME version' = version, NEW sku, NEW states
    PROVE  IsSKU(sku, states)' <=> IsSKU(sku, states)
<1>1. \A i, text : {p \in OptionsOf(i) : p.text = text}'
                  = {p \in OptionsOf(i) : p.text = text}
  BY SameContent
<1>2. ASSUME NEW i \in Fields
      PROVE  Pieces(i, states[i])' = Pieces(i, states[i])
  <2>1. ({o.modifier : o \in {p \in OptionsOf(i) : p.text = states[i].value}}
            \ {None})'
        = {o.modifier : o \in {p \in OptionsOf(i) : p.text = states[i].value}}
            \ {None}
    BY <1>1
  <2> QED
    BY <2>1, SameContent DEF Pieces
<1> QED
  BY <1>2 DEF IsSKU

(* How a field may be decided.                                             *)
LEMMA SameDerived ==
    ASSUME version' = version, NEW i, NEW typed, NEW ctx, NEW state
    PROVE  Derived(i, typed, ctx, state)' <=> Derived(i, typed, ctx, state)
  BY SameDecisions, SameStates DEF Derived

-----------------------------------------------------------------------------
(* The invariant is inductive                                              *)

(* A field that is output.                                                 *)
LEMMA FieldInv ==
    ASSUME IInv, NEW i \in Fields, Hide(i) \/ Calculate(i) \/ Enter(i)
    PROVE  IInv'
<1> USE DEF IInv
<1>1. PICK state : Derived(i, input[i], context, state) /\ AtField(i)
                   /\ Show(i, state)
  BY FieldStep
<1>2. /\ output' = Append(output, state)
      /\ context' = With(context, i, state.value)
      /\ UNCHANGED <<version, input, answer, previous>>
  BY <1>1 DEF Show
<1>3. /\ version \in Version
      /\ input \in [Fields -> Value]
      /\ output \in Seq(State)
      /\ context = Before(output, Len(output) + 1)
      /\ i = Len(output) + 1
      /\ i \in 1..N
      /\ N \in Nat
  BY <1>1, DataAssumption DEF WaterfallTypeOK, AtField, Fields
<1>4. state \in State
  BY <1>1, <1>3, DerivedType
<1>5. /\ output' \in Seq(State)
      /\ Len(output') = i
      /\ output'[i] = state
      /\ \A j \in 1..Len(output) : output'[j] = output[j]
  BY <1>2, <1>3, <1>4
<1>6. Before(output', Len(output') + 1) = context'
  BY <1>2, <1>3, <1>4, <1>5, BeforeNext DEF Fields
<1>7. \A j \in 1..i : Before(output', j) = Before(output, j)
  BY <1>2, <1>3, BeforeAppend
<1>8. WaterfallTypeOK'
  BY <1>2, <1>3, <1>5, <1>6 DEF WaterfallTypeOK, IsResponse
<1>9. StrippedInv'
  BY <1>2 DEF StrippedInv
<1>10. DerivedInv'
  <2> SUFFICES ASSUME NEW j \in 1..Len(output')
               PROVE  Derived(j, input[j], Before(output, j), output[j])'
    BY DEF DerivedInv
  <2>1. Derived(j, input[j], Before(output', j), output'[j])
    <3>1. CASE j = i
      BY <3>1, <1>1, <1>3, <1>5, <1>7
    <3>2. CASE j # i
      <4>1. j \in 1..Len(output)
        BY <3>2, <1>3, <1>5
      <4> QED
        BY <4>1, <1>3, <1>5, <1>7 DEF DerivedInv
    <3> QED
      BY <3>1, <3>2
  <2> QED
    BY <2>1, <1>2, SameDerived
<1>11. AnswerInv'
  <2>1. ~answer.given
    BY <1>3 DEF AnswerInv
  <2> QED
    BY <2>1, <1>2 DEF AnswerInv
<1>12. EchoInv'
  <2> SUFFICES ASSUME previous # NoResponse PROVE EchoInv'
    BY <1>2 DEF EchoInv
  <2>1. /\ previous.answer.complete = Complete(previous.output)
        /\ IsSKU(previous.answer.sku, previous.output)
        /\ \A j \in Fields : Echoed(j)
    BY DEF EchoInv
  <2>2. (\A j \in Fields : Echoed(j))'
    BY <2>1, <1>2, SameDerived, SameDecisions DEF Echoed, Unasked, Calculated
  <2>3. ASSUME Definite, Trimmed
        PROVE  \A j \in 1..Len(output') : output'[j] = previous.output[j]
    <3>1. \A j \in 1..Len(output) : output[j] = previous.output[j]
      BY <2>3 DEF EchoInv
    <3>2. /\ previous.output \in Seq(State)
          /\ Len(previous.output) = N
      BY DEF WaterfallTypeOK, IsResponse
    <3>3. Before(previous.output, i) = context
      BY <3>1, <3>2, <1>3 DEF Before, Fields
    <3>4. PICK typed \in Value :
              /\ typed # None => Strip[typed] = typed
              /\ Derived(i, typed, context, previous.output[i])
              /\ \/ Unasked(i, previous.output)
                 \/ previous.output[i].value = None /\ input[i] = None
                 \/ /\ previous.output[i].value # None
                    /\ input[i] = Strip[previous.output[i].value]
      BY <2>1, <3>3 DEF Echoed
    <3>5. \/ previous.output[i].hidden \/ Calculated(i, context)
          \/ previous.output[i].value = None /\ input[i] = None
          \/ /\ previous.output[i].value # None
             /\ input[i] = Strip[previous.output[i].value]
      BY <3>3, <3>4 DEF Unasked
    <3>6. state = previous.output[i]
      BY <1>1, <1>3, <2>3, <3>4, <3>5, DerivedRepeats
    <3> QED
      BY <3>1, <3>6, <1>3, <1>5
  <2>4. (Definite /\ Trimmed)' = (Definite /\ Trimmed)
    BY <1>2 DEF Definite, Trimmed, Attributes
  <2>5. IsSKU(previous.answer.sku, previous.output)'
    BY <2>1, <1>2, SameSKU
  <2>6. (previous.answer.complete = Complete(previous.output))'
    BY <2>1, <1>2 DEF Complete
  <2>7. previous' = previous
    BY <1>2
  <2> QED
    BY <2>2, <2>3, <2>4, <2>5, <2>6, <2>7 DEF EchoInv
<1> QED
  BY <1>8, <1>9, <1>10, <1>11, <1>12

(* The end of a calculation.                                               *)
LEMMA FinishInv == IInv /\ Finish => IInv'
<1> SUFFICES ASSUME IInv, Finish PROVE IInv'
  OBVIOUS
<1> USE DEF IInv
<1>1. UNCHANGED <<version, input, context, output, previous>>
  BY DEF Finish
<1>2. PICK sku \in [Fields -> Piece] \cup {<<>>} :
        /\ IsSKU(sku, output)
        /\ answer' = [complete |-> Complete(output), sku |-> sku,
                      given |-> TRUE]
  BY DEF Finish
<1>3. WaterfallTypeOK'
  <2>1. answer' \in Answer
    BY <1>2 DEF Answer, Complete
  <2> QED
    BY <1>1, <2>1 DEF WaterfallTypeOK, IsResponse, Before
<1>4. StrippedInv'
  BY <1>1 DEF StrippedInv
<1>5. DerivedInv'
  BY <1>1, SameDerived DEF DerivedInv, Before
<1>6. AnswerInv'
  <2>1. IsSKU(sku, output)'
    BY <1>1, <1>2, SameSKU
  <2> QED
    BY <1>1, <1>2, <2>1 DEF AnswerInv, Finish, Complete
<1>7. EchoInv'
  <2>1. (\A i \in Fields : Echoed(i)) => (\A i \in Fields : Echoed(i))'
    BY <1>1, SameDerived, SameDecisions
    DEF Echoed, Unasked, Calculated, Before
  <2>2. IsSKU(previous.answer.sku, previous.output) =>
            IsSKU(previous.answer.sku, previous.output)'
    BY <1>1, SameSKU
  <2>3. (Definite /\ Trimmed)' = (Definite /\ Trimmed)
    BY <1>1 DEF Definite, Trimmed, Attributes
  <2> QED
    BY <1>1, <2>1, <2>2, <2>3 DEF EchoInv, Complete
<1> QED
  BY <1>3, <1>4, <1>5, <1>6, <1>7

(* The next request.                                                       *)
LEMMA ResubmitInv == IInv /\ Resubmit => IInv'
<1> SUFFICES ASSUME IInv, Resubmit PROVE IInv'
  OBVIOUS
<1> USE DEF IInv
<1>1. /\ answer.given
      /\ previous' = [output |-> output, answer |-> answer]
      /\ version' = version
  BY DEF Resubmit
<1>2. PICK raw \in [Fields -> Value] :
        /\ \A i \in Fields : Unasked(i, output) \/ raw[i] = output[i].value
        /\ Request(raw)
  BY DEF Resubmit
<1>3. /\ input' = Normalized(raw)
      /\ context' = Empty
      /\ output' = <<>>
      /\ answer' = NoAnswer
  BY <1>2 DEF Request
<1>4. /\ Len(output) = N
      /\ answer \in Answer
      /\ output \in Seq(State)
      /\ input \in [Fields -> Value]
  BY <1>1 DEF AnswerInv, WaterfallTypeOK, NoAnswer
<1>5. WaterfallTypeOK'
  <2>1. IsResponse(previous)'
    BY <1>1, <1>4 DEF IsResponse
  <2>2. output' \in Seq(State) /\ Len(output') = 0
    BY <1>3
  <2>3. context' = Before(output', Len(output') + 1)
    BY <1>3, <2>2, BeforeFirst
  <2>4. input' \in [Fields -> Value]
    BY <1>3, NormalizedType
  <2> QED
    BY <1>1, <1>3, <2>1, <2>2, <2>3, <2>4, DataAssumption DEF WaterfallTypeOK
<1>6. StrippedInv'
  BY <1>3, NormalizedType DEF StrippedInv
<1>7. DerivedInv'
  BY <1>3 DEF DerivedInv
<1>8. AnswerInv'
  BY <1>3 DEF AnswerInv, NoAnswer
<1>9. EchoInv'
  <2>1. (previous.answer.complete = Complete(previous.output))'
    BY <1>1 DEF AnswerInv, Complete
  <2>2. IsSKU(previous.answer.sku, previous.output)'
    BY <1>1, SameSKU DEF AnswerInv
  <2>3. ASSUME NEW i \in Fields
        PROVE  Echoed(i)'
    <3>1. Derived(i, input[i], Before(output, i), output[i])
      BY <1>4 DEF DerivedInv, Fields
    <3>2. input[i] \in Value /\ (input[i] # None => Strip[input[i]] = input[i])
      BY <1>4 DEF StrippedInv
    <3>3. \/ Unasked(i, output)
          \/ output[i].value = None /\ input'[i] = None
          \/ /\ output[i].value # None
             /\ input'[i] = Strip[output[i].value]
      BY <1>2, <1>3 DEF Normalized
    <3>4. previous'.output = output
      BY <1>1
    <3>5. Derived(i, input[i], Before(previous'.output, i), previous'.output[i])
      BY <3>1, <3>4
    <3>6. Unasked(i, output) => Unasked(i, previous.output)'
      BY <1>1, <3>4, SameDecisions DEF Unasked, Calculated
    <3> QED
      BY <1>1, <3>2, <3>3, <3>4, <3>5, <3>6, SameDerived DEF Echoed
  <2>4. (\A i \in Fields : Echoed(i))'
    BY <2>3
  <2>5. (\A i \in 1..Len(output) : output[i] = previous.output[i])'
    BY <1>3
  <2> QED
    BY <2>1, <2>2, <2>4, <2>5 DEF EchoInv
<1> QED
  BY <1>5, <1>6, <1>7, <1>8, <1>9

(* A request that has nothing to do with the response.                     *)
LEMMA StartAnewInv == IInv /\ StartAnew => IInv'
<1> SUFFICES ASSUME IInv, StartAnew PROVE IInv'
  OBVIOUS
<1>1. PICK raw \in [Fields -> Value] : Request(raw)
  BY DEF StartAnew
<1>2. /\ input' = Normalized(raw)
      /\ context' = Empty
      /\ output' = <<>>
      /\ answer' = NoAnswer
      /\ previous' = NoResponse
      /\ version' = version
  BY <1>1 DEF Request, StartAnew
<1>3. WaterfallTypeOK'
  <2>1. output' \in Seq(State) /\ Len(output') = 0
    BY <1>2
  <2>2. context' = Before(output', Len(output') + 1)
    BY <1>2, <2>1, BeforeFirst
  <2>3. input' \in [Fields -> Value]
    BY <1>2, NormalizedType
  <2> QED
    BY <1>2, <2>1, <2>2, <2>3, DataAssumption
    DEF IInv, WaterfallTypeOK, IsResponse
<1>4. StrippedInv'
  BY <1>2, NormalizedType DEF StrippedInv
<1>5. DerivedInv' /\ AnswerInv' /\ EchoInv'
  BY <1>2 DEF DerivedInv, AnswerInv, EchoInv, NoAnswer
<1> QED
  BY <1>3, <1>4, <1>5 DEF IInv

(* A step that changes nothing.                                            *)
LEMMA StutterInv == IInv /\ UNCHANGED waterfallVars => IInv'
<1> SUFFICES ASSUME IInv, UNCHANGED waterfallVars PROVE IInv'
  OBVIOUS
<1>1. /\ version' = version
      /\ input' = input
      /\ context' = context
      /\ output' = output
      /\ answer' = answer
      /\ previous' = previous
  BY DEF waterfallVars
<1>2. DerivedInv'
  BY <1>1, SameDerived DEF IInv, DerivedInv, Before
<1>3. (\A i \in Fields : Echoed(i)) => (\A i \in Fields : Echoed(i))'
  BY <1>1, SameDerived, SameDecisions DEF Echoed, Unasked, Calculated, Before
<1>4. \A sku, states : IsSKU(sku, states)' <=> IsSKU(sku, states)
  BY <1>1, SameSKU
<1>5. (Definite /\ Trimmed)' = (Definite /\ Trimmed)
  BY <1>1 DEF Definite, Trimmed, Attributes
<1>6. EchoInv'
  BY <1>1, <1>3, <1>4, <1>5 DEF IInv, EchoInv, Complete
<1>7. AnswerInv'
  BY <1>1, <1>4 DEF IInv, AnswerInv, Complete
<1> QED
  BY <1>1, <1>2, <1>6, <1>7
  DEF IInv, WaterfallTypeOK, IsResponse, StrippedInv, Before

(* The invariant holds for ever.                                           *)
THEOREM InvariantHolds == WaterfallSpec => []IInv
<1>1. IInv /\ [WaterfallNext]_waterfallVars => IInv'
  BY FieldInv, FinishInv, ResubmitInv, StartAnewInv, StutterInv
  DEF WaterfallNext
<1> QED
  BY <1>1, InitInv, PTL DEF WaterfallSpec

(* Types, and a context that holds what was output and nothing else.       *)
THEOREM TypeCorrect == WaterfallSpec => []WaterfallTypeOK
<1>1. IInv => WaterfallTypeOK
  BY DEF IInv
<1> QED
  BY <1>1, InvariantHolds, PTL

-----------------------------------------------------------------------------
(* What is shown                                                           *)

(* A field decided in any of the three ways shows an option or nothing.    *)
LEMMA DerivedOffered ==
    ASSUME version \in Version, NEW i \in Fields, NEW typed, NEW ctx, NEW state,
           Derived(i, typed, ctx, state)
    PROVE  /\ state.options \subseteq OptionsOf(i)
           /\ state.hidden => state.value = None
           /\ state.value = None \/ Attributes(i).free
                 \/ state.value \in TextsOf(state.options)
<1>1. CASE state = HiddenState(i)
  BY <1>1 DEF HiddenState
<1>2. ASSUME NEW r \in Calculations(i, ctx), r.set # None,
             NEW setting \in Settings(i, r.set),
             state = CalculatedState(i, setting, ctx)
      PROVE  /\ state.options \subseteq OptionsOf(i)
             /\ ~state.hidden
             /\ state.value = None \/ Attributes(i).free
                   \/ state.value \in TextsOf(state.options)
  <2>1. /\ state.value = setting.value
        /\ state.options = setting.options
        /\ ~state.hidden
    BY <1>2 DEF CalculatedState
  <2> QED
    BY <2>1, <1>2 DEF Settings, TextsOf
<1>3. ASSUME NEW value \in Entries(i, typed, Required(i, ctx), ctx),
             state = EnteredState(i, value, ctx)
      PROVE  /\ state.options \subseteq OptionsOf(i)
             /\ ~state.hidden
             /\ state.value = None \/ Attributes(i).free
                   \/ state.value \in TextsOf(state.options)
  <2>1. /\ state.value = value
        /\ ~state.hidden
        /\ state.options = IF Attributes(i).free THEN {} ELSE Available(i, ctx)
    BY <1>3 DEF EnteredState
  <2>2. Available(i, ctx) \subseteq OptionsOf(i)
    BY DEF Available
  <2>3. ASSUME ~Attributes(i).free
        PROVE  value = None \/ value \in TextsOf(Available(i, ctx))
    <3>1. TextsOf({o \in Available(i, ctx) : o.default})
            \subseteq TextsOf(Available(i, ctx))
      BY DEF TextsOf
    <3> QED
      BY <1>3, <2>3, <3>1 DEF Entries, Selections
  <2> QED
    BY <2>1, <2>2, <2>3
<1> QED
  BY <1>1, <1>2, <1>3 DEF Derived

(* A field with options shows one of them or nothing, whatever the rules   *)
(* set and the client sends.                                               *)
THEOREM ShownAreOffered == WaterfallSpec => []ShownIsOffered
<1>1. IInv => ShownIsOffered
  <2> SUFFICES ASSUME IInv, NEW i \in 1..Len(output)
               PROVE  /\ output[i].options \subseteq OptionsOf(i)
                      /\ output[i].hidden => output[i].value = None
                      /\ output[i].value = None \/ Attributes(i).free
                            \/ output[i].value \in TextsOf(output[i].options)
    BY DEF ShownIsOffered
  <2>1. i \in Fields /\ version \in Version
    BY DataAssumption DEF IInv, WaterfallTypeOK, Fields
  <2>2. Derived(i, input[i], Before(output, i), output[i])
    BY DEF IInv, DerivedInv
  <2> QED
    BY <2>1, <2>2, DerivedOffered
<1> QED
  BY <1>1, InvariantHolds, PTL

-----------------------------------------------------------------------------
(* A response that comes back                                              *)

(* In a definite version, a response has one SKU.                          *)
LEMMA OneSKU ==
    ASSUME version \in Version, Definite, NEW states,
           NEW s, IsSKU(s, states), NEW t, IsSKU(t, states)
    PROVE  s = t
<1>1. ASSUME NEW i \in Fields, NEW x \in Pieces(i, states[i]),
             NEW y \in Pieces(i, states[i])
      PROVE  x = y
  <2> DEFINE matching == {p \in OptionsOf(i) : p.text = states[i].value}
             found == {o.modifier : o \in matching} \ {None}
  <2>1. \A o, p \in matching : o = p
    BY DEF Definite, OptionsOf
  <2>2. \A u, v \in found : u = v
    BY <2>1
  <2> HIDE DEF found
  <2>3. Pieces(i, states[i]) \in {{None}, {Attributes(i).whenFilled}, found}
    BY DEF Pieces, found
  <2> QED
    BY <2>2, <2>3
<1>2. CASE version.sku
  BY <1>1, <1>2 DEF IsSKU
<1>3. CASE ~version.sku
  BY <1>3 DEF IsSKU
<1> QED
  BY <1>2, <1>3

(* A response sent back as a request comes back unchanged, SKU included.   *)
THEOREM ResponsesRepeat == WaterfallSpec => []RepeatsItself
<1>1. IInv => RepeatsItself
  <2> SUFFICES ASSUME IInv, answer.given, previous # NoResponse,
                      Definite, Trimmed
               PROVE  previous = [output |-> output, answer |-> answer]
    BY DEF RepeatsItself
  <2>1. /\ version \in Version
        /\ output \in Seq(State)
        /\ answer \in Answer
        /\ previous.output \in Seq(State)
        /\ Len(previous.output) = N
        /\ previous.answer \in Answer
    BY DEF IInv, WaterfallTypeOK, IsResponse, NoAnswer
  <2>2. /\ Len(output) = N
        /\ answer.complete = Complete(output)
        /\ IsSKU(answer.sku, output)
    BY DEF IInv, AnswerInv
  <2>3. /\ previous.answer.complete = Complete(previous.output)
        /\ IsSKU(previous.answer.sku, previous.output)
        /\ \A i \in 1..Len(output) : output[i] = previous.output[i]
    BY DEF IInv, EchoInv
  <2>4. previous.output = output
    BY <2>1, <2>2, <2>3
  <2>5. previous.answer = answer
    <3>1. previous.answer.sku = answer.sku
      BY <2>1, <2>2, <2>3, <2>4, OneSKU
    <3>2. previous.answer.complete = answer.complete
      BY <2>2, <2>3, <2>4
    <3> DEFINE SKUs == [Fields -> Piece] \cup {<<>>}
    <3>3. Answer = [complete : BOOLEAN, sku : SKUs, given : {TRUE}]
      BY DEF Answer
    <3> HIDE DEF SKUs
    <3>4. ASSUME NEW any \in Answer
          PROVE  /\ any = [complete |-> any.complete, sku |-> any.sku,
                            given |-> any.given]
                 /\ any.given
      <4>1. any = [complete |-> any.complete, sku |-> any.sku,
                   given |-> any.given]
        BY <3>3
      <4>2. any.given \in {TRUE}
        BY <3>3
      <4> QED
        BY <4>1, <4>2
    <3>5. answer.given = previous.answer.given
      BY <2>1, <3>3, <3>4
    <3> QED
      BY <2>1, <3>1, <3>2, <3>4, <3>5
  <2>6. previous = [output |-> previous.output, answer |-> previous.answer]
    BY DEF IInv, WaterfallTypeOK, IsResponse
  <2> QED
    BY <2>4, <2>5, <2>6
<1> QED
  BY <1>1, InvariantHolds, PTL

-----------------------------------------------------------------------------
(* Reading the response against the rules                                  *)

(* A rule cannot tell two contexts apart that agree on what it reads.      *)
LEMMA PassesAgree ==
    ASSUME NEW r, NEW one, NEW other,
           \A c \in r.criteria : c.field \in Fields =>
                one[c.field] = other[c.field]
    PROVE  Passes(r, one) <=> Passes(r, other)
  BY DEF Passes

(* Decisions about a field cannot tell contexts apart that agree on the    *)
(* fields before it.                                                       *)
LEMMA DecisionsAgree ==
    ASSUME version \in Version, LooksBack, NEW i \in Fields,
           NEW one, NEW other,
           \A j \in Fields : j < i => one[j] = other[j]
    PROVE  /\ Visible(i, one) = Visible(i, other)
           /\ Editable(i, one) = Editable(i, other)
           /\ Required(i, one) = Required(i, other)
           /\ Calculations(i, one) = Calculations(i, other)
           /\ Available(i, one) = Available(i, other)
<1>1. ASSUME NEW r \in version.rules, r.field = i, r.type # "validation"
      PROVE  Passes(r, one) <=> Passes(r, other)
  <2>1. \A c \in r.criteria : c.field < i
    BY <1>1 DEF LooksBack
  <2> QED
    BY <2>1, PassesAgree
<1>2. ASSUME NEW type, type # "validation"
      PROVE  AnyPasses(RulesOf(i, type), one) <=>
             AnyPasses(RulesOf(i, type), other)
  BY <1>1, <1>2 DEF AnyPasses, RulesOf
<1>3. ASSUME NEW type, type # "validation", NEW attribute \in BOOLEAN
      PROVE  Decided(i, type, attribute, one) = Decided(i, type, attribute, other)
  BY <1>2, <1>3 DEF Decided, AnyPasses
<1>4. /\ (~Attributes(i).hidden) \in BOOLEAN
      /\ (~Attributes(i).readonly) \in BOOLEAN
      /\ Attributes(i).required \in BOOLEAN
  BY DEF Attributes, Version, Field
<1>5. /\ Visible(i, one) = Visible(i, other)
      /\ Editable(i, one) = Editable(i, other)
      /\ Required(i, one) = Required(i, other)
  BY <1>3, <1>4 DEF Visible, Editable, Required
<1>6. Calculations(i, one) = Calculations(i, other)
  BY <1>1 DEF Calculations, RulesOf
<1>7. Available(i, one) = Available(i, other)
  <2>1. ASSUME NEW o \in OptionsOf(i), NEW r \in version.rules,
               r.type = "availability", r.option = o.id
        PROVE  Passes(r, one) <=> Passes(r, other)
    <3>1. r.field = i
      BY <2>1 DEF LooksBack, OptionsOf
    <3> QED
      BY <2>1, <3>1, <1>1
  <2> QED
    BY <2>1 DEF Available, AnyPasses
<1> QED
  BY <1>5, <1>6, <1>7

(* Errors of a field depend on nothing after it.                           *)
LEMMA ErrorsAgree ==
    ASSUME version \in Version, LooksBack, NEW i \in Fields,
           NEW one, NEW other, NEW value, NEW required,
           \A j \in Fields : j <= i => one[j] = other[j]
    PROVE  /\ ErrorOf(i, value, required, one) =
              ErrorOf(i, value, required, other)
           /\ AnyPasses(RulesOf(i, "validation"), one) <=>
              AnyPasses(RulesOf(i, "validation"), other)
<1>1. ASSUME NEW r \in RulesOf(i, "validation")
      PROVE  Passes(r, one) <=> Passes(r, other)
  <2>1. \A c \in r.criteria : c.field <= i \/ c.field \notin Fields
    BY DataAssumption DEF LooksBack, RulesOf, Fields, Version, Rule, Criterion
  <2> QED
    BY <2>1, PassesAgree
<1>2. AnyPasses(RulesOf(i, "validation"), one) <=>
      AnyPasses(RulesOf(i, "validation"), other)
  BY <1>1 DEF AnyPasses
<1> QED
  BY <1>2 DEF ErrorOf

(* What was decided of a field on the way is what the rules say in the end.*)
LEMMA FieldReads ==
    ASSUME IInv, answer.given, LooksBack, NEW i \in Fields
    PROVE  /\ output[i].hidden = ~Visible(i, Final)
           /\ output[i].hidden => output[i].error = "none"
           /\ ~output[i].hidden =>
                /\ output[i].required = Required(i, Final)
                /\ output[i].error = ErrorOf(i, output[i].value,
                                             output[i].required, Final)
                /\ Definite /\ ~Calculated(i, Final) =>
                    /\ output[i].readonly = ~Editable(i, Final)
                    /\ ~Attributes(i).free =>
                            output[i].options = Available(i, Final)
                /\ Definite /\ Calculated(i, Final) => output[i].readonly
<1> DEFINE ctx == Before(output, i)
           state == output[i]
<1>1. /\ version \in Version
      /\ Len(output) = N
      /\ N \in Nat
  BY DataAssumption DEF IInv, WaterfallTypeOK, AnswerInv
<1>2. Derived(i, input[i], ctx, state)
  BY <1>1 DEF IInv, DerivedInv, Fields
<1>3. \A j \in Fields : j < i => ctx[j] = Final[j]
  BY DEF Before, Final
<1>4. /\ Visible(i, ctx) = Visible(i, Final)
      /\ Editable(i, ctx) = Editable(i, Final)
      /\ Required(i, ctx) = Required(i, Final)
      /\ Calculations(i, ctx) = Calculations(i, Final)
      /\ Available(i, ctx) = Available(i, Final)
  BY <1>1, <1>3, DecisionsAgree
<1> DEFINE after == With(ctx, i, state.value)
<1>5. \A j \in Fields : j <= i => after[j] = Final[j]
  <2> SUFFICES ASSUME NEW j \in Fields, j <= i PROVE after[j] = Final[j]
    OBVIOUS
  <2>1. CASE j = i
    BY <2>1 DEF With, Before, Final
  <2>2. CASE j < i
    BY <2>2, <1>3, <1>1 DEF With, Before, Fields
  <2> QED
    BY <2>1, <2>2, <1>1 DEF Fields
<1>6. \A required : ErrorOf(i, state.value, required, after) =
                    ErrorOf(i, state.value, required, Final)
  BY <1>1, <1>5, ErrorsAgree
<1>7. Required(i, after) = Required(i, Final)
  BY <1>1, <1>5, DecisionsAgree DEF Fields
<1> HIDE DEF ctx, state, after
<1>8. CASE ~Visible(i, ctx)
  <2>1. state = HiddenState(i)
    BY <1>2, <1>8 DEF Derived
  <2>2. state.hidden = TRUE /\ state.error = "none"
    BY <2>1 DEF HiddenState
  <2>3. ~Visible(i, Final)
    BY <1>4, <1>8
  <2>4. state.hidden = ~Visible(i, Final)
    BY <2>2, <2>3
  <2> QED
    BY <2>2, <2>4 DEF state
<1>9. ASSUME Visible(i, ctx), NEW r \in Calculations(i, ctx), r.set # None,
             NEW setting \in Settings(i, r.set),
             state = CalculatedState(i, setting, ctx)
      PROVE  /\ ~state.hidden
             /\ state.readonly
             /\ state.required = Required(i, Final)
             /\ state.error = ErrorOf(i, state.value, state.required, Final)
             /\ Calculated(i, Final)
  <2>1. state.value = setting.value
    BY <1>9 DEF CalculatedState
  <2>2. after = With(ctx, i, setting.value)
    BY <2>1 DEF after
  <2>3. /\ ~state.hidden
        /\ state.readonly
        /\ state.required = Required(i, after)
        /\ state.error = ErrorOf(i, state.value, Required(i, after), after)
    BY <1>9, <2>1, <2>2 DEF CalculatedState
  <2> QED
    BY <2>3, <1>4, <1>6, <1>7, <1>9 DEF Calculated
<1>10. ASSUME Visible(i, ctx),
              \/ Calculations(i, ctx) = {}
              \/ \E r \in Calculations(i, ctx) : r.set = None,
              NEW value \in Entries(i, input[i], Required(i, ctx), ctx),
              state = EnteredState(i, value, ctx)
       PROVE  /\ ~state.hidden
              /\ state.required = Required(i, Final)
              /\ state.readonly = ~Editable(i, Final)
              /\ ~Attributes(i).free => state.options = Available(i, Final)
              /\ state.error = ErrorOf(i, state.value, state.required, Final)
              /\ Definite => ~Calculated(i, Final)
  <2>1. state.value = value
    BY <1>10 DEF EnteredState
  <2>2. after = With(ctx, i, value)
    BY <2>1 DEF after
  <2>3. /\ ~state.hidden
        /\ state.required = Required(i, ctx)
        /\ state.readonly = ~Editable(i, ctx)
        /\ ~Attributes(i).free => state.options = Available(i, ctx)
        /\ state.error = ErrorOf(i, state.value, Required(i, ctx), after)
    BY <1>10, <2>1, <2>2 DEF EnteredState
  <2>4. Definite => ~Calculated(i, ctx)
    BY <1>10 DEF Definite, Calculated, Calculations, RulesOf
  <2> QED
    BY <2>3, <2>4, <1>4, <1>6 DEF Calculated
<1>11. CASE Visible(i, ctx)
  <2>1. \/ /\ ~state.hidden
           /\ state.readonly
           /\ state.required = Required(i, Final)
           /\ state.error = ErrorOf(i, state.value, state.required, Final)
           /\ Calculated(i, Final)
        \/ /\ ~state.hidden
           /\ state.required = Required(i, Final)
           /\ state.readonly = ~Editable(i, Final)
           /\ ~Attributes(i).free => state.options = Available(i, Final)
           /\ state.error = ErrorOf(i, state.value, state.required, Final)
           /\ Definite => ~Calculated(i, Final)
    BY <1>2, <1>9, <1>10, <1>11 DEF Derived
  <2>2. state \in State
    BY <1>1 DEF IInv, WaterfallTypeOK, Fields, state
  <2>3. state.hidden = ~Visible(i, Final)
    BY <2>1, <2>2, <1>4, <1>11 DEF State
  <2>4. ~state.hidden
    BY <2>1
  <2>5. /\ state.required = Required(i, Final)
        /\ state.error = ErrorOf(i, state.value, state.required, Final)
    BY <2>1
  <2>6. Definite /\ ~Calculated(i, Final) =>
            /\ state.readonly = ~Editable(i, Final)
            /\ ~Attributes(i).free => state.options = Available(i, Final)
    BY <2>1
  <2>7. Definite /\ Calculated(i, Final) => state.readonly
    BY <2>1
  <2> QED
    BY <2>3, <2>4, <2>5, <2>6, <2>7 DEF state
<1> QED
  BY <1>8, <1>11

(* A single pass is enough in a version whose rules look back.             *)
THEOREM DecisionsAreFinal == WaterfallSpec => []ReadsAsShown
<1>1. IInv => ReadsAsShown
  BY FieldReads DEF ReadsAsShown
<1> QED
  BY <1>1, InvariantHolds, PTL

(* Complete is what a reader of the response finds complete.               *)
THEOREM CompletenessIsSound == WaterfallSpec => []CompleteIsAnswered
<1>1. IInv => CompleteIsAnswered
  <2> SUFFICES ASSUME IInv, answer.given, LooksBack
               PROVE  answer.complete <=>
                        \A i \in Fields : Visible(i, Final) =>
                            /\ Required(i, Final) => Final[i] # None
                            /\ Final[i] # None =>
                                ~AnyPasses(RulesOf(i, "validation"), Final)
    BY DEF CompleteIsAnswered
  <2>1. answer.complete = Complete(output)
    BY DEF IInv, AnswerInv
  <2>2. ASSUME NEW i \in Fields
        PROVE  (/\ ~(output[i].required /\ ~output[i].hidden
                        /\ output[i].value = None)
                /\ output[i].error = "none")
               <=> (Visible(i, Final) =>
                        /\ Required(i, Final) => Final[i] # None
                        /\ Final[i] # None =>
                            ~AnyPasses(RulesOf(i, "validation"), Final))
    <3>1. Final[i] = output[i].value
      BY DEF Final
    <3>2. CASE Visible(i, Final)
      <4>1. /\ ~output[i].hidden
            /\ output[i].required = Required(i, Final)
            /\ output[i].error = ErrorOf(i, output[i].value,
                                         output[i].required, Final)
        BY <3>2, FieldReads
      <4> QED
        BY <3>1, <3>2, <4>1 DEF ErrorOf
    <3>3. CASE ~Visible(i, Final)
      BY <3>3, FieldReads
    <3> QED
      BY <3>2, <3>3
  <2> QED
    BY <2>1, <2>2 DEF Complete
<1> QED
  BY <1>1, InvariantHolds, PTL

-----------------------------------------------------------------------------

bomAll == <<waterfallVars, bomVars>>

(* Items that the engine selects.                                          *)
Chosen == {i \in Rows : Wanted(i) /\ QuantityOf(i) > 0}

Closed(S) == \A i \in S : IsRoot(i) \/ Parent(i) \in S

Walked(i) == leader[i] # 0

LoadInv == load \in Loads /\ load.version = version

StageInv ==
    /\ stage \in Stages
    /\ stage # "fields" => answer.given
    /\ stage \in {"fields", "prices", "failed"} =>
            included = {} /\ leader = Zero(Ids)

PruneInv ==
    stage \in {"tree", "done"} =>
        /\ included \subseteq Chosen
        /\ \A S \in SUBSET Chosen : Closed(S) => S \subseteq included

(* The lines so far.                                                       *)
LeaderInv ==
    /\ leader \in [Ids -> Ids \cup {0}]
    /\ \A i \in Ids : Walked(i) =>
        /\ Pruned
        /\ i \in included
        /\ leader[i] \in included
        /\ leader[leader[i]] = leader[i]
        /\ Item(leader[i]).sequence <= Item(i).sequence
        /\ ~IsRoot(i) => Walked(Parent(i))

(* Items of a kind on a level are in one line, all of them.                *)
KindInv ==
    \A i, j \in Ids : Walked(i) =>
        /\ Walked(j) =>
            (leader[i] = leader[j] <=> Alike(i, j) /\ Level(i) = Level(j))
        /\ Reached(j) => ~(Alike(i, j) /\ Level(i) = Level(j))

DoneInv == stage = "done" => Merged

BomInv ==
    /\ LoadInv
    /\ StageInv
    /\ PruneInv
    /\ LeaderInv
    /\ KindInv
    /\ DoneInv

-----------------------------------------------------------------------------
(* A calculation with its BOM is a calculation                             *)

(* The initial states are those of the waterfall.                          *)
LEMMA InitRefines == BomInit => WaterfallInit
  BY LoadsAssumption DEF BomInit, WaterfallInit, Load

(* Every step is one of the waterfall or leaves the waterfall alone.       *)
LEMMA StepRefines == [BomNext]_bomAll => [WaterfallNext]_waterfallVars
<1> SUFFICES ASSUME [BomNext]_bomAll PROVE [WaterfallNext]_waterfallVars
  OBVIOUS
<1>1. CASE DecideFields
  BY <1>1 DEF DecideFields, WaterfallNext
<1>2. CASE EvaluateBom
  BY <1>2 DEF EvaluateBom, ResolvePrices, RefusePrices, Select, Prune, Merge,
              Weigh, Deliver
<1>3. CASE SendBack
  BY <1>3 DEF SendBack, WaterfallNext
<1>4. CASE StartOver
  BY <1>4 DEF StartOver, WaterfallNext
<1>5. CASE UNCHANGED bomAll
  BY <1>5 DEF bomAll
<1> QED
  BY <1>1, <1>2, <1>3, <1>4, <1>5 DEF BomNext

(* A calculation with its BOM decides the fields as one without: each of   *)
(* its behaviours is one of RuleWaterfall.                                 *)
THEOREM CalculationRefines == BomSpec => WaterfallSpec
  BY InitRefines, StepRefines, PTL DEF BomSpec, WaterfallSpec, bomAll

-----------------------------------------------------------------------------
(* What does not change with the load                                      *)

(* The items are those of the load.                                        *)
LEMMA SameItems ==
    ASSUME load' = load
    PROVE  /\ Rows' = Rows
           /\ \A i : Item(i)' = Item(i)
           /\ \A i : Parent(i)' = Parent(i)
           /\ \A i : IsRoot(i)' = IsRoot(i)
           /\ \A i, j : Alike(i, j)' = Alike(i, j)
  BY DEF Rows, Item, Parent, IsRoot, Alike

(* The choice of items depends on the load and on the context.             *)
LEMMA SameChoice ==
    ASSUME load' = load, context' = context
    PROVE  /\ Chosen' = Chosen
           /\ \A S : Closed(S)' = Closed(S)
<1>1. \A i : Wanted(i)' = Wanted(i)
  BY SameItems DEF Wanted, AnyPasses, Passes
<1>2. \A i : QuantityOf(i)' = QuantityOf(i)
  BY SameItems DEF QuantityOf, Counted
<1> QED
  BY <1>1, <1>2, SameItems DEF Chosen, Closed

(* An item that was found is an item.                                      *)
LEMMA ItemType ==
    ASSUME LoadInv, NEW i \in Rows
    PROVE  /\ i \in Ids
           /\ Item(i) \in BomItem
           /\ Parent(i) \in Ids \cup {0}
           /\ Item(i).sequence \in Nat
           /\ Item(i).quantity \in Nat \ {0}
<1>1. load.items \in [Ids -> BomItem \cup {None}]
  BY LoadsAssumption DEF LoadInv, Load, Items
<1>2. Item(i) \in BomItem
  BY <1>1 DEF Rows, Item
<1> QED
  BY <1>2 DEF Rows, Parent, BomItem

(* An id is not 0.                                                         *)
LEMMA IdIsNotZero == \A i \in Ids : i # 0
  BY BomAssumption

(* No line has been begun.                                                 *)
LEMMA NothingWalked ==
    ASSUME leader = Zero(Ids)
    PROVE  LeaderInv /\ KindInv
  BY DEF LeaderInv, KindInv, Walked, Zero

(* The initial states satisfy the invariant.                               *)
LEMMA BomInitInv == BomInit => BomInv
<1> SUFFICES ASSUME BomInit PROVE BomInv
  OBVIOUS
<1>1. LoadInv
  BY DEF BomInit, LoadInv
<1>2. StageInv /\ PruneInv /\ DoneInv
  BY DEF BomInit, StageInv, Stages, PruneInv, DoneInv
<1>3. LeaderInv /\ KindInv
  BY NothingWalked DEF BomInit
<1> QED
  BY <1>1, <1>2, <1>3 DEF BomInv

-----------------------------------------------------------------------------
(* Steps that leave the tree alone                                         *)

(* Fields are decided before prices are looked up.                         *)
LEMMA FieldsComeFirst ==
    ASSUME IInv, StageInv, DecideFields
    PROVE  stage = "fields"
<1> SUFFICES ASSUME answer.given PROVE FALSE
  BY DEF StageInv
<1>1. Len(output) = N
  BY DEF IInv, AnswerInv
<1>2. \A i \in Fields : i # Len(output) + 1
  BY <1>1, DataAssumption DEF Fields
<1> QED
  BY <1>2 DEF DecideFields, Hide, Calculate, Enter, Finish, AtField

(* The lines are a matter of load, included and leader.                    *)
LEMMA SameLines ==
    ASSUME load' = load, included' = included, leader' = leader
    PROVE  /\ LoadInv /\ version' = version => LoadInv'
           /\ LeaderInv => LeaderInv'
           /\ KindInv => KindInv'
           /\ Merged' = Merged
<1>1. \A i : Level(i)' = Level(i)
  BY SameItems DEF Level
<1>2. \A i : Reached(i)' = Reached(i) /\ Walked(i)' = Walked(i)
  BY SameItems DEF Reached, Walked
<1>3. Pruned' = Pruned
  BY SameItems DEF Pruned, Orphan
<1>4. LoadInv /\ version' = version => LoadInv'
  BY DEF LoadInv
<1>5. LeaderInv => LeaderInv'
  BY <1>2, <1>3, SameItems DEF LeaderInv
<1>6. KindInv => KindInv'
  BY <1>1, <1>2, SameItems DEF KindInv
<1>7. Merged' = Merged
  BY <1>2, <1>3 DEF Merged
<1> QED
  BY <1>4, <1>5, <1>6, <1>7

(* The fields are decided.                                                 *)
LEMMA DecideInv == IInv /\ BomInv /\ DecideFields => BomInv'
<1> SUFFICES ASSUME IInv, BomInv, DecideFields PROVE BomInv'
  OBVIOUS
<1>1. stage = "fields"
  BY FieldsComeFirst DEF BomInv
<1>2. /\ UNCHANGED <<load, stage, included, leader>>
      /\ version' = version
  BY DEF DecideFields, bomVars, Hide, Calculate, Enter, Show, Finish
<1>3. LoadInv' /\ LeaderInv' /\ KindInv'
  BY <1>2, SameLines DEF BomInv
<1>4. StageInv' /\ PruneInv' /\ DoneInv'
  BY <1>1, <1>2 DEF BomInv, StageInv, PruneInv, DoneInv
<1> QED
  BY <1>3, <1>4 DEF BomInv

(* The lookup of prices, the weighing of lines and the delivery do not     *)
(* touch the items.                                                        *)
LEMMA AsideInv ==
    ASSUME BomInv,
           UNCHANGED <<waterfallVars, load, included, leader>>,
           \/ stage' = stage
           \/ stage = "fields" /\ answer.given /\ stage' \in {"prices", "failed"}
           \/ stage = "tree" /\ Merged /\ stage' = "done"
    PROVE  BomInv'
<1>1. /\ load' = load /\ included' = included /\ leader' = leader
      /\ context' = context /\ answer' = answer /\ version' = version
  BY DEF waterfallVars
<1>2. LoadInv' /\ LeaderInv' /\ KindInv' /\ Merged' = Merged
  BY <1>1, SameLines DEF BomInv
<1>3. StageInv'
  BY <1>1 DEF BomInv, StageInv, Stages
<1>4. PruneInv'
  BY <1>1, SameChoice DEF BomInv, PruneInv
<1>5. DoneInv'
  BY <1>2 DEF BomInv, DoneInv
<1> QED
  BY <1>2, <1>3, <1>4, <1>5 DEF BomInv

(* The next request begins with nothing.                                   *)
LEMMA NextRequestInv ==
    ASSUME BomInv, NothingYet, version' = version
    PROVE  BomInv'
<1>1. LoadInv'
  BY DEF BomInv, LoadInv, NothingYet
<1>2. StageInv' /\ PruneInv' /\ DoneInv'
  BY DEF StageInv, Stages, PruneInv, DoneInv, NothingYet, Zero
<1>3. LeaderInv' /\ KindInv'
  BY DEF NothingYet, LeaderInv, KindInv, Walked, Zero
<1> QED
  BY <1>1, <1>2, <1>3 DEF BomInv

-----------------------------------------------------------------------------
(* Selection and pruning                                                   *)

(* All that is chosen is included.                                         *)
LEMMA SelectInv == BomInv /\ Select => BomInv'
<1> SUFFICES ASSUME BomInv, Select PROVE BomInv'
  OBVIOUS
<1>1. /\ load' = load /\ leader' = leader /\ context' = context
      /\ answer' = answer /\ version' = version
      /\ stage = "prices" /\ stage' = "tree" /\ included' = Chosen
  BY DEF Select, waterfallVars, Chosen
<1>2. LoadInv'
  BY <1>1 DEF BomInv, LoadInv
<1>3. StageInv' /\ DoneInv'
  BY <1>1 DEF BomInv, StageInv, Stages, DoneInv
<1>4. PruneInv'
  BY <1>1, SameChoice DEF PruneInv
<1>5. leader' = Zero(Ids)
  BY <1>1 DEF BomInv, StageInv
<1>6. LeaderInv' /\ KindInv'
  BY <1>5 DEF LeaderInv, KindInv, Walked, Zero
<1> QED
  BY <1>2, <1>3, <1>4, <1>6 DEF BomInv

(* An orphan is in no closed set of what is included.                      *)
LEMMA PruneStepInv ==
    ASSUME BomInv, NEW o \in Ids, Prune(o)
    PROVE  BomInv'
<1>1. /\ load' = load /\ leader' = leader /\ context' = context
      /\ answer' = answer /\ version' = version
      /\ stage = "tree" /\ stage' = stage
      /\ Orphan(o) /\ included' = included \ {o}
  BY DEF Prune, waterfallVars
<1>2. LoadInv' /\ StageInv' /\ DoneInv'
  BY <1>1 DEF BomInv, LoadInv, StageInv, DoneInv
<1>3. ASSUME NEW S \in SUBSET Chosen, Closed(S)
      PROVE  o \notin S
  <2>1. S \subseteq included
    BY <1>1, <1>3 DEF BomInv, PruneInv
  <2> QED
    BY <1>1, <1>3, <2>1 DEF Closed, Orphan
<1>4. PruneInv'
  BY <1>1, <1>3, SameChoice DEF BomInv, PruneInv
<1>5. \A i \in Ids : ~Walked(i)
  BY <1>1 DEF BomInv, LeaderInv, Pruned, Orphan
<1>6. \A i \in Ids : ~Walked(i)'
  BY <1>1, <1>5 DEF Walked
<1>7. LeaderInv' /\ KindInv'
  BY <1>1, <1>6 DEF BomInv, LeaderInv, KindInv
<1> QED
  BY <1>2, <1>4, <1>7 DEF BomInv

-----------------------------------------------------------------------------
(* Merging                                                                 *)

(* The level of an item that the walk has come to is 0 for a root and a    *)
(* line for any other.                                                     *)
LEMMA LevelOfReached ==
    ASSUME LoadInv, LeaderInv, included \subseteq Rows,
           NEW i \in included, Walked(i) \/ Reached(i)
    PROVE  /\ IsRoot(i) => Level(i) = 0
           /\ ~IsRoot(i) => /\ Parent(i) \in Ids
                            /\ Walked(Parent(i))
                            /\ Level(i) = leader[Parent(i)]
                            /\ Level(i) \in Ids
                            /\ Walked(Level(i))
<1>1. i \in Ids /\ Parent(i) \in Ids \cup {0}
  BY ItemType
<1>2. ASSUME ~IsRoot(i)
      PROVE  Parent(i) \in Ids /\ Walked(Parent(i))
  BY <1>1, <1>2 DEF IsRoot, Reached, LeaderInv, Walked
<1>3. ASSUME ~IsRoot(i)
      PROVE  leader[Parent(i)] \in Ids /\ Walked(leader[Parent(i)])
  BY <1>2, <1>3, IdIsNotZero DEF LeaderInv, Walked
<1> QED
  BY <1>2, <1>3 DEF Level

(* A group is made into a line.                                            *)
LEMMA MergeInv ==
    ASSUME BomInv, NEW r \in Ids, Merge(r)
    PROVE  BomInv'
<1> DEFINE G == Group(r)
<1>1. /\ load' = load /\ included' = included /\ context' = context
      /\ answer' = answer /\ version' = version
      /\ stage = "tree" /\ stage' = stage
      /\ Pruned /\ Reached(r)
      /\ \A j \in G : Item(r).sequence <= Item(j).sequence
      /\ leader' = [j \in Ids |-> IF j \in G THEN r ELSE leader[j]]
  BY DEF Merge, waterfallVars
<1>2. /\ LoadInv /\ LeaderInv /\ KindInv
      /\ included \subseteq Rows /\ included \subseteq Ids
  BY <1>1 DEF BomInv, PruneInv, Chosen, Rows
<1>3. LoadInv' /\ StageInv' /\ DoneInv'
  BY <1>1 DEF BomInv, LoadInv, StageInv, DoneInv
<1>4. PruneInv'
  BY <1>1, SameChoice DEF BomInv, PruneInv
<1>5. /\ r \in included /\ r \in G /\ r # 0
      /\ G \subseteq included
      /\ \A j \in G : Reached(j) /\ Alike(r, j) /\ Level(j) = Level(r)
      /\ \A j \in G : ~Walked(j)
  BY <1>1, BomAssumption DEF Group, Reached, Alike, Walked
<1>6. \A i \in Ids : /\ i \in G => leader'[i] = r
                     /\ i \notin G => leader'[i] = leader[i]
                     /\ Walked(i)' <=> (Walked(i) \/ i \in G)
  BY <1>1, <1>5 DEF Walked
<1>7. Pruned'
  BY <1>1, SameItems DEF Pruned, Orphan
<1>8. LeaderInv'
  <2>1. leader' \in [Ids -> Ids \cup {0}]
    BY <1>1, <1>2 DEF LeaderInv
  <2>2. ASSUME NEW i \in Ids, Walked(i)'
        PROVE  /\ i \in included
               /\ leader'[i] \in included
               /\ leader'[leader'[i]] = leader'[i]
               /\ Item(leader'[i]).sequence <= Item(i).sequence
               /\ (~IsRoot(i) => Walked(Parent(i)))'
    <3>0. /\ IsRoot(i)' = IsRoot(i)
          /\ Walked(Parent(i))' = (leader'[Parent(i)] # 0)
          /\ \A j \in Ids : Walked(j) => leader'[j] # 0
          /\ \A j \in G : leader'[j] # 0
      BY <1>1, <1>2, <1>5, <1>6, SameItems DEF Walked
    <3>1. CASE i \in G
      <4>1. ~IsRoot(i) => Parent(i) \in Ids /\ Walked(Parent(i))
        BY <1>2, <1>5, <3>1, LevelOfReached
      <4> QED
        BY <1>1, <1>2, <1>5, <1>6, <3>0, <3>1, <4>1
    <3>2. CASE i \notin G
      <4>1. Walked(i)
        BY <1>6, <2>2, <3>2
      <4>2. ~IsRoot(i) => Parent(i) \in Ids /\ Walked(Parent(i))
        BY <1>2, <4>1, LevelOfReached DEF LeaderInv
      <4>3. /\ i \in included
            /\ leader[i] \in included /\ leader[i] \in Ids
            /\ leader[leader[i]] = leader[i]
            /\ Item(leader[i]).sequence <= Item(i).sequence
        BY <1>2, <4>1 DEF LeaderInv
      <4>4. leader[i] \notin G
        BY <1>5, <4>1, <4>3 DEF Walked
      <4> QED
        BY <1>2, <1>6, <3>0, <3>2, <4>2, <4>3, <4>4
    <3> QED
      BY <3>1, <3>2
  <2> QED
    BY <1>1, <1>7, <2>1, <2>2, SameItems DEF LeaderInv
<1>9. \A i \in included :
        (Walked(i) \/ Reached(i)) => Level(i)' = Level(i)
  <2>1. ASSUME NEW i \in included, Walked(i) \/ Reached(i)
        PROVE  Level(i)' = Level(i)
    <3>1. /\ IsRoot(i)' = IsRoot(i) /\ Parent(i)' = Parent(i)
      BY <1>1, SameItems
    <3>2. /\ IsRoot(i) => Level(i) = 0
          /\ ~IsRoot(i) => Parent(i) \in Ids /\ Walked(Parent(i))
      BY <1>2, <2>1, LevelOfReached
    <3>3. ~IsRoot(i) => leader'[Parent(i)] = leader[Parent(i)]
      BY <1>5, <1>6, <3>2
    <3> QED
      BY <3>1, <3>3 DEF Level
  <2> QED
    BY <2>1
<1>10. \A i \in included : Walked(i) \/ Reached(i) => Level(i) # r
  BY <1>2, <1>5, LevelOfReached
<1>11. ASSUME NEW j \in Ids, Reached(j)'
       PROVE  /\ j \in included /\ j \notin G /\ ~Walked(j)
              /\ Reached(j) \/ Level(j)' = r
  <2>1. /\ j \in included /\ leader'[j] = 0
        /\ ~IsRoot(j) => leader'[Parent(j)] # 0
        /\ Level(j)' = IF IsRoot(j) THEN 0 ELSE leader'[Parent(j)]
    BY <1>1, <1>11, SameItems DEF Reached, Level
  <2>2. j \notin G /\ leader[j] = 0
    BY <1>5, <1>6, <2>1
  <2>3. Parent(j) \in Ids \cup {0}
    BY <1>2, <2>1, ItemType
  <2>4. CASE ~IsRoot(j) /\ Parent(j) \in G
    BY <1>6, <2>1, <2>2, <2>3, <2>4 DEF IsRoot, Walked
  <2>5. CASE ~IsRoot(j) /\ Parent(j) \notin G
    BY <1>6, <2>1, <2>2, <2>3, <2>5 DEF IsRoot, Walked, Reached
  <2>6. CASE IsRoot(j)
    BY <2>1, <2>2, <2>6 DEF Walked, Reached
  <2> QED
    BY <2>4, <2>5, <2>6
<1>12. KindInv'
  <2>1. ASSUME NEW i \in Ids, NEW j \in Ids, Walked(i)', Walked(j)'
        PROVE  leader'[i] = leader'[j] <=>
                    Alike(i, j) /\ Level(i)' = Level(j)'
    <3>1. /\ i \in included /\ j \in included
          /\ Walked(i) \/ (i \in G /\ Reached(i))
          /\ Walked(j) \/ (j \in G /\ Reached(j))
      BY <1>2, <1>5, <1>6, <2>1 DEF LeaderInv
    <3>2. Level(i)' = Level(i) /\ Level(j)' = Level(j)
      BY <1>9, <3>1
    <3>3. CASE i \in G /\ j \in G
      BY <1>5, <1>6, <3>2, <3>3 DEF Alike
    <3>4. CASE i \notin G /\ j \notin G
      BY <1>2, <1>6, <3>1, <3>2, <3>4 DEF KindInv
    <3>5. ASSUME NEW k \in Ids, NEW g \in G, k \notin G, Walked(k)
          PROVE  leader[k] # r /\ ~(Alike(k, g) /\ Level(k) = Level(g))
      BY <1>2, <1>5, <3>5 DEF KindInv, LeaderInv, Walked
    <3>6. CASE i \in G /\ j \notin G
      BY <1>6, <3>1, <3>2, <3>5, <3>6 DEF Alike
    <3>7. CASE i \notin G /\ j \in G
      BY <1>6, <3>1, <3>2, <3>5, <3>7 DEF Alike
    <3> QED
      BY <3>3, <3>4, <3>6, <3>7
  <2>2. ASSUME NEW i \in Ids, NEW j \in Ids, Walked(i)', Reached(j)'
        PROVE  ~(Alike(i, j) /\ Level(i)' = Level(j)')
    <3>1. i \in included /\ (Walked(i) \/ (i \in G /\ Reached(i)))
      BY <1>2, <1>5, <1>6, <2>2 DEF LeaderInv
    <3>2. Level(i)' = Level(i) /\ Level(i) # r
      BY <1>9, <1>10, <3>1
    <3>3. CASE Level(j)' = r
      BY <3>2, <3>3
    <3>4. CASE Reached(j)
      <4>1. /\ j \in included /\ j \notin G /\ Level(j)' = Level(j)
        BY <1>9, <1>11, <2>2, <3>4
      <4>2. CASE Walked(i)
        BY <1>2, <3>2, <3>4, <4>1, <4>2 DEF KindInv
      <4>3. CASE i \in G
        BY <1>5, <3>2, <3>4, <4>1, <4>3 DEF Group, Alike
      <4> QED
        BY <3>1, <4>2, <4>3
    <3> QED
      BY <1>11, <2>2, <3>3, <3>4
  <2> QED
    BY <1>1, <2>1, <2>2, SameItems DEF KindInv
<1> QED
  BY <1>3, <1>4, <1>8, <1>12 DEF BomInv

-----------------------------------------------------------------------------
(* The theorems                                                            *)

(* Every step keeps the invariant.                                         *)
LEMMA BomStepInv == IInv /\ BomInv /\ [BomNext]_bomAll => BomInv'
<1> SUFFICES ASSUME IInv, BomInv, [BomNext]_bomAll PROVE BomInv'
  OBVIOUS
<1>1. CASE DecideFields
  BY <1>1, DecideInv
<1>2. CASE ResolvePrices
  BY <1>2, AsideInv DEF ResolvePrices
<1>3. CASE RefusePrices
  BY <1>3, AsideInv DEF RefusePrices
<1>4. CASE Select
  BY <1>4, SelectInv
<1>5. ASSUME NEW i \in Ids, Prune(i) \/ Merge(i) \/ Weigh(i)
      PROVE  BomInv'
  BY <1>5, PruneStepInv, MergeInv, AsideInv DEF Weigh
<1>6. CASE Deliver
  BY <1>6, AsideInv DEF Deliver
<1>7. CASE SendBack
  BY <1>7, NextRequestInv DEF SendBack, Resubmit
<1>8. CASE StartOver
  BY <1>8, NextRequestInv DEF StartOver, StartAnew
<1>9. CASE UNCHANGED bomAll
  BY <1>9, AsideInv DEF bomAll, bomVars
<1> QED
  BY <1>1, <1>2, <1>3, <1>4, <1>5, <1>6, <1>7, <1>8, <1>9
  DEF BomNext, EvaluateBom

(* The invariant of the evaluation, with that of the fields.               *)
THEOREM BomInvariant == BomSpec => [](IInv /\ BomInv)
<1>1. BomSpec => []IInv
  BY CalculationRefines, InvariantHolds, PTL
<1> QED
  BY <1>1, BomInitInv, BomStepInv, PTL DEF BomSpec, bomAll

(* When the fields are decided the context is what the response shows.     *)
LEMMA ContextIsFinal ==
    ASSUME IInv, answer.given
    PROVE  context = Final
<1>1. Len(output) = N /\ context = Before(output, N + 1)
  BY DEF IInv, AnswerInv, WaterfallTypeOK
<1>2. \A j \in Fields : j < N + 1
  BY DataAssumption DEF Fields
<1> QED
  BY <1>1, <1>2 DEF Before, Final

(* What the engine selects is what a reader of the response finds wanted   *)
(* and counted.                                                            *)
LEMMA ChosenIsSelected ==
    ASSUME IInv, LoadInv, answer.given
    PROVE  Chosen = Selected
<1>1. context = Final
  BY ContextIsFinal
<1>2. ASSUME NEW i \in Rows
      PROVE  QuantityOf(i) > 0 <=>
                LET f == Item(i).from
                IN  (f \in Fields /\ Final[f] # None /\ Amount[Final[f]] # None)
                        => Amount[Final[f]] > 0
  <2>1. Item(i).quantity > 0
    BY ItemType
  <2> QED
    BY <1>1, <2>1 DEF QuantityOf, Counted
<1> QED
  BY <1>1, <1>2 DEF Chosen, Selected, Wanted

(* Pruning keeps exactly the selected items all of whose ancestors are     *)
(* selected.                                                               *)
THEOREM PruningIsExact == BomSpec => []KeptWithAncestors
<1>1. IInv /\ BomInv => KeptWithAncestors
  <2> SUFFICES ASSUME IInv, BomInv, stage = "done"
               PROVE  included = UNION {S \in SUBSET Selected : Closed(S)}
    BY DEF KeptWithAncestors, Delivered, Closed
  <2>1. Chosen = Selected
    BY ChosenIsSelected DEF BomInv, StageInv
  <2>2. included \in SUBSET Selected
    BY <2>1 DEF BomInv, PruneInv
  <2>3. Closed(included)
    BY DEF BomInv, DoneInv, Merged, Pruned, Orphan, Closed
  <2>4. \A S \in SUBSET Selected : Closed(S) => S \subseteq included
    BY <2>1 DEF BomInv, PruneInv
  <2> QED
    BY <2>2, <2>3, <2>4
<1> QED
  BY <1>1, BomInvariant, PTL

(* Without circles the walk comes to every item.                           *)
LEMMA AllWalked ==
    ASSUME BomInv, stage = "done", AcyclicItems
    PROVE  \A i \in included : Walked(i)
<1>1. Pruned /\ (\A i \in included : ~Reached(i)) /\ included \subseteq Rows
  BY DEF BomInv, DoneInv, Merged, PruneInv, Chosen
<1> DEFINE S == {i \in included : ~Walked(i)}
<1> SUFFICES ASSUME S # {} PROVE FALSE
  OBVIOUS
<1>2. PICK i \in S : Parent(i) \notin S
  BY <1>1 DEF AcyclicItems
<1>3. ~IsRoot(i) /\ leader[Parent(i)] = 0
  BY <1>1, <1>2 DEF Reached, Walked
<1>4. Parent(i) \in included
  BY <1>1, <1>2, <1>3 DEF Pruned, Orphan
<1> QED BY <1>2, <1>3, <1>4 DEF Walked

(* Every item that is left is in one line, with exactly those whose part   *)
(* path is the same.                                                       *)
THEOREM MergingIsExact == BomSpec => []LinesArePartPaths
<1>1. IInv /\ BomInv => LinesArePartPaths
  <2> SUFFICES ASSUME IInv, BomInv, stage = "done", AcyclicItems
               PROVE  \A i \in included :
                        /\ leader[i] \in Lines
                        /\ Item(leader[i]).sequence <= Item(i).sequence
                        /\ \A j \in included :
                            leader[i] = leader[j] <=>
                                /\ Alike(i, j)
                                /\ IsRoot(i) <=> IsRoot(j)
                                /\ ~IsRoot(i) =>
                                        leader[Parent(i)] = leader[Parent(j)]
    BY DEF LinesArePartPaths, Delivered
  <2>1. /\ LoadInv /\ LeaderInv /\ KindInv
        /\ Pruned /\ \A i \in included : ~Reached(i)
        /\ included \subseteq Rows /\ included \subseteq Ids
    BY DEF BomInv, DoneInv, Merged, PruneInv, Chosen, Rows
  <2>2. \A i \in included : Walked(i)
    BY AllWalked
  <2>3. ASSUME NEW i \in included
        PROVE  leader[i] \in Lines /\ Item(leader[i]).sequence <= Item(i).sequence
    BY <2>1, <2>2 DEF LeaderInv, Lines
  <2>4. ASSUME NEW i \in included, NEW j \in included
        PROVE  Level(i) = Level(j) <=>
                    /\ IsRoot(i) <=> IsRoot(j)
                    /\ ~IsRoot(i) => leader[Parent(i)] = leader[Parent(j)]
    <3>1. /\ IsRoot(i) => Level(i) = 0
          /\ ~IsRoot(i) => Level(i) = leader[Parent(i)] /\ Level(i) \in Ids
      BY <2>1, <2>2, LevelOfReached
    <3>2. /\ IsRoot(j) => Level(j) = 0
          /\ ~IsRoot(j) => Level(j) = leader[Parent(j)] /\ Level(j) \in Ids
      BY <2>1, <2>2, LevelOfReached
    <3> QED
      BY <3>1, <3>2, IdIsNotZero
  <2> QED
    BY <2>1, <2>2, <2>3, <2>4 DEF KindInv
<1> QED
  BY <1>1, BomInvariant, PTL

-----------------------------------------------------------------------------
(* Induction over numbers and finite sets                                  *)

(* Induction over a set of numbers, from that no set of them descends for  *)
(* ever.                                                                   *)
LEMMA NatSetInduction ==
  ASSUME NEW T, 0 \in T, \A n \in Nat : n \in T => n + 1 \in T
  PROVE  Nat \subseteq T
<1> DEFINE R == OpToRel(<, Nat)
           B == Nat \ T
<1>1. SUFFICES ASSUME B # {} PROVE FALSE
  OBVIOUS
<1>2. IsWellFoundedOn(R, Nat)
  BY NatLessThanWellFounded, Zenon
<1>3. PICK x \in B : \A y \in B : ~(<<y, x>> \in R)
  <2> HIDE DEF R
  <2> QED BY <1>1, <1>2, WFMin, Zenon
<1>4. x # 0 /\ x \in Nat
  OBVIOUS
<1>5. x - 1 \in B
  BY <1>4
<1>6. <<x - 1, x>> \in R
  BY <1>4 DEF OpToRel
<1> QED BY <1>3, <1>5, <1>6

(* What holds of {} and of a set with one more element if it holds of the  *)
(* set, holds of the subsets of a finite set.                              *)
LEMMA SetsGrow ==
    ASSUME NEW U, IsFiniteSet(U), NEW F, {} \in F,
           \A S \in SUBSET U : \A x \in U \ S : S \in F => S \cup {x} \in F
    PROVE  SUBSET U \subseteq F
<1> DEFINE T == {n \in Nat : \A S \in SUBSET U : Cardinality(S) = n => S \in F}
<1>1. \A S \in SUBSET U : IsFiniteSet(S) /\ Cardinality(S) \in Nat
  BY FS_Subset, FS_CardinalityType
<1>2. 0 \in T
  BY <1>1, FS_EmptySet
<1>3. ASSUME NEW n \in Nat, n \in T PROVE n + 1 \in T
  <2>1. ASSUME NEW S \in SUBSET U, Cardinality(S) = n + 1 PROVE S \in F
    <3>1. PICK x \in S : TRUE
      BY <2>1, FS_EmptySet
    <3>2. Cardinality(S \ {x}) = n
      <4>1. IsFiniteSet(S)
        BY <1>1
      <4>2. \A y : y \in S => Cardinality(S \ {y}) = Cardinality(S) - 1
        BY <4>1, FS_RemoveElement
      <4> QED BY <2>1, <3>1, <4>2
    <3>3. S \ {x} \in F
      BY <1>3, <3>2
    <3>4. x \in U \ (S \ {x}) /\ S \ {x} \in SUBSET U
      BY <3>1
    <3>5. (S \ {x}) \cup {x} = S
      BY <3>1
    <3>6. (S \ {x}) \cup {x} \in F
      BY <3>3, <3>4
    <3> QED BY <3>5, <3>6
  <2> QED BY <2>1
<1>4. Nat \subseteq T
  <2> HIDE DEF T
  <2> QED BY <1>2, <1>3, NatSetInduction
<1> QED BY <1>1, <1>4

-----------------------------------------------------------------------------
(* Sums and products over finite sets, in any order                        *)

Adding == [x \in Int |-> [y \in Int |-> x + y]]

Multiplying == [x \in Int |-> [y \in Int |-> x * y]]

AnyOrder(op) ==
    /\ op \in [Int -> [Int -> Int]]
    /\ \A x, y, z \in Int : op[x][op[y][z]] = op[y][op[x][z]]

(* Terms and factors may be taken in any order.                            *)
LEMMA BothInAnyOrder == AnyOrder(Adding) /\ AnyOrder(Multiplying)
<1>1. \A x, y, z \in Int : x * (y * z) = y * (x * z)
  OBVIOUS
<1>2. \A x, y \in Int : x * y \in Int
  OBVIOUS
<1> QED BY <1>1, <1>2 DEF AnyOrder, Adding, Multiplying

(* h has for each subset what f yields there, whichever element comes last. *)
Gathers(h, op, unit, f, S) ==
    /\ h \in [SUBSET S -> Int]
    /\ h[{}] = unit
    /\ \A s \in SUBSET S : \A x \in s : h[s] = op[f[x]][h[s \ {x}]]

Numbers(f, S) == \A x \in S : f[x] \in Int

(* There is such a function for every finite set.                          *)
LEMMA GatherersExist ==
    ASSUME NEW U, IsFiniteSet(U), NEW op, AnyOrder(op), NEW unit \in Int,
           NEW f, Numbers(f, U)
    PROVE  \E h : Gathers(h, op, unit, f, U)
<1> DEFINE F == {S \in SUBSET U : \E h : Gathers(h, op, unit, f, S)}
<1>1. {} \in F
  <2> DEFINE h == [s \in {{}} |-> unit]
  <2>1. h \in [SUBSET {} -> Int] /\ h[{}] = unit
    OBVIOUS
  <2>2. Gathers(h, op, unit, f, {})
    <3> HIDE DEF h
    <3> QED BY <2>1 DEF Gathers
  <2> QED BY <2>2
<1>2. ASSUME NEW S \in SUBSET U, NEW x \in U \ S, S \in F
      PROVE  S \cup {x} \in F
  <2>1. PICK h : Gathers(h, op, unit, f, S)
    BY <1>2
  <2> DEFINE more == [s \in SUBSET (S \cup {x}) |->
                        IF x \in s THEN op[f[x]][h[s \ {x}]] ELSE h[s]]
  <2>2. h \in [SUBSET S -> Int] /\ h[{}] = unit
    BY <2>1 DEF Gathers
  <2>3. \A s \in SUBSET (S \cup {x}) : /\ s \ {x} \in SUBSET S
                                       /\ x \notin s => s \in SUBSET S
    BY <1>2
  <2>4. f[x] \in Int
    BY <1>2 DEF Numbers
  <2>5. \A a, b \in Int : op[a][b] \in Int
    BY DEF AnyOrder
  <2>6. /\ \A s \in SUBSET (S \cup {x}) :
              /\ x \in s => more[s] = op[f[x]][h[s \ {x}]]
              /\ x \notin s => more[s] = h[s]
        /\ more \in [SUBSET (S \cup {x}) -> Int]
    BY <2>2, <2>3, <2>4, <2>5
  <2> HIDE DEF more
  <2>7. more[{}] = unit
    BY <2>2, <2>6
  <2>8. ASSUME NEW s \in SUBSET (S \cup {x}), NEW y \in s
        PROVE  more[s] = op[f[y]][more[s \ {y}]]
    <3>1. s \ {y} \in SUBSET (S \cup {x}) /\ f[y] \in Int
      BY <1>2 DEF Numbers
    <3>2. CASE x \notin s
      <4>1. more[s] = h[s] /\ more[s \ {y}] = h[s \ {y}]
        BY <2>6, <3>1, <3>2
      <4> QED BY <2>1, <2>3, <3>2, <4>1 DEF Gathers
    <3>3. CASE x = y
      <4>1. x \in s /\ x \notin s \ {y}
        BY <3>3
      <4>2. more[s] = op[f[x]][h[s \ {x}]]
        BY <2>6, <4>1
      <4>3. more[s \ {y}] = h[s \ {y}]
        BY <2>6, <3>1, <4>1
      <4> QED BY <3>3, <4>2, <4>3
    <3>4. CASE x \in s /\ x # y
      <4> DEFINE t == (s \ {x}) \ {y}
      <4>1. /\ s \ {x} \in SUBSET S /\ y \in s \ {x} /\ t \in SUBSET S
            /\ x \in s \ {y} /\ (s \ {y}) \ {x} = t
        BY <2>3, <3>4
      <4>2. h[s \ {x}] = op[f[y]][h[t]] /\ h[t] \in Int
        BY <2>1, <2>2, <4>1 DEF Gathers
      <4>3. more[s] = op[f[x]][h[s \ {x}]]
        BY <2>6, <3>4
      <4>4. more[s \ {y}] = op[f[x]][h[t]]
        BY <2>6, <3>1, <4>1
      <4> HIDE DEF t
      <4>5. op[f[x]][op[f[y]][h[t]]] = op[f[y]][op[f[x]][h[t]]]
        BY <2>4, <3>1, <4>2 DEF AnyOrder
      <4> QED BY <4>2, <4>3, <4>4, <4>5
    <3> QED BY <3>2, <3>3, <3>4
  <2>9. Gathers(more, op, unit, f, S \cup {x})
    BY <2>6, <2>7, <2>8 DEF Gathers
  <2> QED BY <1>2, <2>9
<1>3. SUBSET U \subseteq F
  <2> HIDE DEF F
  <2> QED BY <1>1, <1>2, SetsGrow
<1> QED BY <1>3

Gathered(op, unit, f, S) == (CHOOSE h : Gathers(h, op, unit, f, S))[S]

(* It is what any other order comes to.                                    *)
LEMMA GatheredIs ==
    ASSUME NEW U, IsFiniteSet(U), NEW op, AnyOrder(op), NEW unit \in Int,
           NEW f, Numbers(f, U), NEW h, Gathers(h, op, unit, f, U),
           NEW S \in SUBSET U
    PROVE  Gathered(op, unit, f, S) = h[S]
<1>1. IsFiniteSet(S) /\ Numbers(f, S)
  BY FS_Subset DEF Numbers
<1>2. PICK k : Gathers(k, op, unit, f, S) /\ Gathered(op, unit, f, S) = k[S]
  <2>1. \E k : Gathers(k, op, unit, f, S)
    BY <1>1, GatherersExist
  <2>2. Gathers(CHOOSE k : Gathers(k, op, unit, f, S), op, unit, f, S)
    BY <2>1, Zenon
  <2> QED BY <2>2 DEF Gathered
<1> DEFINE F == {s \in SUBSET S : k[s] = h[s]}
<1>3. {} \in F
  BY <1>2 DEF Gathers
<1>4. ASSUME NEW s \in SUBSET S, NEW x \in S \ s, s \in F PROVE s \cup {x} \in F
  <2>1. /\ s \cup {x} \in SUBSET S /\ s \cup {x} \in SUBSET U
        /\ x \in s \cup {x} /\ (s \cup {x}) \ {x} = s
    BY <1>4
  <2>2. k[s \cup {x}] = op[f[x]][k[(s \cup {x}) \ {x}]]
    BY <1>2, <2>1 DEF Gathers
  <2>3. h[s \cup {x}] = op[f[x]][h[(s \cup {x}) \ {x}]]
    BY <2>1 DEF Gathers
  <2> QED BY <1>4, <2>1, <2>2, <2>3
<1>5. SUBSET S \subseteq F
  <2> HIDE DEF F
  <2> QED BY <1>1, <1>3, <1>4, SetsGrow
<1>6. S \in F
  <2> HIDE DEF F
  <2> QED BY <1>5
<1> QED BY <1>2, <1>6

(* The element that the operators of FiniteSetsExt take first.             *)
Pick(s) == CHOOSE x \in s : TRUE

(* A function that goes through the elements in the order of Pick.         *)
LEMMA PickedIs ==
    ASSUME NEW S, IsFiniteSet(S), NEW op, AnyOrder(op), NEW unit \in Int,
           NEW f, Numbers(f, S), NEW g, g[{}] = unit,
           \A s \in SUBSET S : s # {} /\ g[s \ {Pick(s)}] \in Int =>
                g[s] = op[f[Pick(s)]][g[s \ {Pick(s)}]]
    PROVE  g[S] = Gathered(op, unit, f, S)
<1>1. PICK h : Gathers(h, op, unit, f, S)
  BY GatherersExist
<1> DEFINE T == {n \in Nat : \A s \in SUBSET S : Cardinality(s) = n => g[s] = h[s]}
<1>2. \A s \in SUBSET S : IsFiniteSet(s)
  BY FS_Subset
<1>3. 0 \in T
  <2>1. \A s \in SUBSET S : Cardinality(s) = 0 => s = {}
    BY <1>2, FS_EmptySet
  <2>2. h[{}] = unit
    BY <1>1 DEF Gathers
  <2> QED BY <2>1, <2>2
<1>4. ASSUME NEW n \in Nat, n \in T PROVE n + 1 \in T
  <2>1. ASSUME NEW s \in SUBSET S, Cardinality(s) = n + 1 PROVE g[s] = h[s]
    <3>1. IsFiniteSet(s) /\ s # {}
      BY <1>2, <2>1, FS_EmptySet
    <3>2. Pick(s) \in s
      <4>1. \E x : x \in s
        BY <3>1
      <4> QED BY <4>1, Zenon DEF Pick
    <3>3. Cardinality(s \ {Pick(s)}) = n
      <4>1. \A y : y \in s => Cardinality(s \ {y}) = Cardinality(s) - 1
        BY <3>1, FS_RemoveElement
      <4> QED BY <2>1, <3>2, <4>1
    <3>4. s \ {Pick(s)} \in SUBSET S
      OBVIOUS
    <3>5. g[s \ {Pick(s)}] = h[s \ {Pick(s)}]
      BY <1>4, <3>3, <3>4
    <3>6. h[s \ {Pick(s)}] \in Int
      BY <1>1, <3>4 DEF Gathers
    <3>7. h[s] = op[f[Pick(s)]][h[s \ {Pick(s)}]]
      BY <1>1, <3>2 DEF Gathers
    <3> QED BY <3>1, <3>5, <3>6, <3>7
  <2> QED BY <2>1
<1>5. Nat \subseteq T
  <2> HIDE DEF T
  <2> QED BY <1>3, <1>4, NatSetInduction
<1>6. Cardinality(S) \in Nat
  BY FS_CardinalityType
<1>7. g[S] = h[S]
  BY <1>5, <1>6
<1>8. S \in SUBSET S
  OBVIOUS
<1> QED BY <1>1, <1>7, <1>8, GatheredIs

-----------------------------------------------------------------------------
(* Sums                                                                    *)

Added(f, S) == Gathered(Adding, 0, f, S)

(* A sum is that of the other terms and the one.                           *)
LEMMA AddedFacts ==
    ASSUME NEW U, IsFiniteSet(U), NEW f, Numbers(f, U)
    PROVE  /\ Added(f, {}) = 0
           /\ \A S \in SUBSET U :
                /\ Added(f, S) \in Int
                /\ \A x \in S : Added(f, S) = f[x] + Added(f, S \ {x})
                /\ \A x \in U \ S : Added(f, S \cup {x}) = f[x] + Added(f, S)
<1>1. /\ Added(f, {}) = 0
      /\ \A S \in SUBSET U :
            /\ Added(f, S) \in Int
            /\ \A x \in S : Added(f, S) = Adding[f[x]][Added(f, S \ {x})]
  <2>1. PICK h : Gathers(h, Adding, 0, f, U)
    BY BothInAnyOrder, GatherersExist
  <2>2. \A S \in SUBSET U : Added(f, S) = h[S]
    BY <2>1, BothInAnyOrder, GatheredIs DEF Added
  <2>3. {} \in SUBSET U /\ \A S \in SUBSET U : \A x \in S : S \ {x} \in SUBSET U
    OBVIOUS
  <2> QED BY <2>1, <2>2, <2>3 DEF Gathers
<1>2. \A x \in U : f[x] \in Int
  BY DEF Numbers
<1>3. ASSUME NEW S \in SUBSET U, NEW x \in S
      PROVE  Added(f, S) = f[x] + Added(f, S \ {x})
  <2>1. S \ {x} \in SUBSET U
    OBVIOUS
  <2>2. Added(f, S \ {x}) \in Int /\ f[x] \in Int
    BY <1>1, <1>2, <2>1
  <2>3. \A a, b \in Int : Adding[a][b] = a + b
    BY DEF Adding
  <2> QED BY <1>1, <2>2, <2>3
<1>4. ASSUME NEW S \in SUBSET U, NEW x \in U \ S
      PROVE  Added(f, S \cup {x}) = f[x] + Added(f, S)
  <2>1. S \cup {x} \in SUBSET U /\ x \in S \cup {x} /\ (S \cup {x}) \ {x} = S
    BY <1>4
  <2>2. Added(f, S \cup {x}) = f[x] + Added(f, (S \cup {x}) \ {x})
    BY <1>3, <2>1
  <2> QED BY <2>1, <2>2
<1> QED BY <1>1, <1>3, <1>4

(* A sum over two parts is the sum of their sums.                          *)
LEMMA AddedUnion ==
    ASSUME NEW U, IsFiniteSet(U), NEW f, Numbers(f, U),
           NEW A \in SUBSET U, NEW B \in SUBSET U, A \cap B = {}
    PROVE  Added(f, A \cup B) = Added(f, A) + Added(f, B)
<1> DEFINE F == {S \in SUBSET U :
                    S \subseteq B => Added(f, A \cup S) = Added(f, A) + Added(f, S)}
<1>1. \A S \in SUBSET U :
         /\ Added(f, S) \in Int
         /\ \A x \in U \ S : Added(f, S \cup {x}) = f[x] + Added(f, S)
  BY AddedFacts
<1>2. {} \in F
  <2>1. A \cup {} = A /\ Added(f, {}) = 0
    BY AddedFacts
  <2> QED BY <1>1, <2>1
<1>3. ASSUME NEW S \in SUBSET U, NEW x \in U \ S, S \in F PROVE S \cup {x} \in F
  <2>0. S \cup {x} \in SUBSET U
    BY <1>3
  <2> SUFFICES ASSUME S \cup {x} \subseteq B
               PROVE  Added(f, A \cup (S \cup {x})) = Added(f, A) + Added(f, S \cup {x})
    BY <2>0
  <2>1. /\ S \in SUBSET U /\ x \in U \ S /\ f[x] \in Int
        /\ A \cup S \in SUBSET U /\ x \in U \ (A \cup S)
        /\ A \cup (S \cup {x}) = (A \cup S) \cup {x}
    BY <1>3 DEF Numbers
  <2>2. Added(f, S \cup {x}) = f[x] + Added(f, S)
    BY <1>1, <2>1
  <2>3. Added(f, (A \cup S) \cup {x}) = f[x] + Added(f, A \cup S)
    BY <1>1, <2>1
  <2>4. Added(f, S) \in Int /\ Added(f, A) \in Int
    BY <1>1, <2>1
  <2>5. Added(f, A \cup S) = Added(f, A) + Added(f, S)
    BY <1>3
  <2>6. Added(f, (A \cup S) \cup {x}) = Added(f, A) + Added(f, S \cup {x})
    <3>1. \A a, b, c \in Int : a + (b + c) = b + (a + c)
      OBVIOUS
    <3>2. Added(f, (A \cup S) \cup {x}) = f[x] + (Added(f, A) + Added(f, S))
      BY <2>3, <2>5
    <3> QED BY <2>1, <2>2, <2>4, <3>1, <3>2
  <2>7. Added(f, A \cup (S \cup {x})) = Added(f, A) + Added(f, S \cup {x})
    BY <2>1, <2>6
  <2> QED BY <2>7
<1>4. SUBSET U \subseteq F
  <2> HIDE DEF F
  <2> QED BY <1>2, <1>3, SetsGrow
<1>5. B \in F
  <2> HIDE DEF F
  <2> QED BY <1>4
<1> QED BY <1>5

(* All of a sum times a number, and what is nowhere negative.              *)
LEMMA AddedTimes ==
    ASSUME NEW U, IsFiniteSet(U), NEW f, Numbers(f, U), NEW n \in Int,
           NEW g, \A x \in U : g[x] = f[x] * n
    PROVE  Added(g, U) = Added(f, U) * n
<1> DEFINE F == {S \in SUBSET U : Added(g, S) = Added(f, S) * n}
<1>0. \A a, b \in Int : /\ (a + b) * n = a * n + b * n
                        /\ a * n \in Int /\ 0 * n = 0
  OBVIOUS
<1>1. /\ Numbers(g, U)
      /\ \A x \in U : f[x] \in Int
  BY <1>0 DEF Numbers
<1>2. /\ Added(f, {}) = 0 /\ Added(g, {}) = 0
      /\ \A S \in SUBSET U :
         /\ Added(f, S) \in Int /\ Added(g, S) \in Int
         /\ \A x \in U \ S : /\ Added(f, S \cup {x}) = f[x] + Added(f, S)
                             /\ Added(g, S \cup {x}) = g[x] + Added(g, S)
  BY <1>1, AddedFacts
<1>3. {} \in F
  BY <1>0, <1>2
<1>4. ASSUME NEW S \in SUBSET U, NEW x \in U \ S, S \in F PROVE S \cup {x} \in F
  <2>1. Added(g, S \cup {x}) = f[x] * n + Added(f, S) * n
    BY <1>2, <1>4
  <2>2. Added(f, S \cup {x}) = f[x] + Added(f, S)
    BY <1>2, <1>4
  <2>3. (f[x] + Added(f, S)) * n = f[x] * n + Added(f, S) * n
    BY <1>0, <1>1, <1>2, <1>4
  <2> QED BY <1>4, <2>1, <2>2, <2>3
<1>5. U \in F
  <2> HIDE DEF F
  <2>1. SUBSET U \subseteq F
    BY <1>3, <1>4, SetsGrow
  <2> QED BY <2>1
<1> QED BY <1>5

(* A sum of what is nowhere negative is not, and is 0 if every term is.    *)
LEMMA AddedSign ==
    ASSUME NEW U, IsFiniteSet(U), NEW f, \A x \in U : f[x] \in Nat
    PROVE  /\ Added(f, U) \in Nat
           /\ (\A x \in U : f[x] = 0) => Added(f, U) = 0
           /\ (\E x \in U : f[x] > 0) => Added(f, U) > 0
<1> DEFINE F == {S \in SUBSET U :
                    /\ Added(f, S) \in Nat
                    /\ (\A x \in S : f[x] = 0) => Added(f, S) = 0
                    /\ (\E x \in S : f[x] > 0) => Added(f, S) > 0}
<1>1. Numbers(f, U)
  BY DEF Numbers
<1>2. /\ Added(f, {}) = 0
      /\ \A S \in SUBSET U :
         /\ Added(f, S) \in Int
         /\ \A x \in U \ S : Added(f, S \cup {x}) = f[x] + Added(f, S)
  BY <1>1, AddedFacts
<1>3. {} \in F
  BY <1>2
<1>4. ASSUME NEW S \in SUBSET U, NEW x \in U \ S, S \in F PROVE S \cup {x} \in F
  <2>1. f[x] \in Nat /\ Added(f, S \cup {x}) = f[x] + Added(f, S)
    BY <1>2, <1>4
  <2>2. S \cup {x} \in SUBSET U
    BY <1>4
  <2> QED BY <1>4, <2>1, <2>2
<1>5. U \in F
  <2> HIDE DEF F
  <2>1. SUBSET U \subseteq F
    BY <1>3, <1>4, SetsGrow
  <2> QED BY <2>1
<1> QED BY <1>5

(* A sum over lines of the sum over what is in each.                       *)
LEMMA AddedByLine ==
    ASSUME NEW D, IsFiniteSet(D), NEW f, Numbers(f, D), NEW L, IsFiniteSet(L),
           NEW line, \A x \in D : line[x] \in L,
           NEW of, \A r \in L : \A x : x \in of[r] <=> x \in D /\ line[x] = r,
           NEW g, \A r \in L : g[r] = Added(f, of[r])
    PROVE  Added(g, L) = Added(f, D)
<1> DEFINE In(M) == {x \in D : line[x] \in M}
           F == {M \in SUBSET L : Added(g, M) = Added(f, In(M))}
<1>1. Numbers(g, L)
  <2>1. \A r \in L : of[r] \in SUBSET D
    OBVIOUS
  <2>2. \A r \in L : Added(f, of[r]) \in Int
    BY <2>1, AddedFacts
  <2> QED BY <2>2 DEF Numbers
<1>2. {} \in F
  <2>1. In({}) = {}
    OBVIOUS
  <2>2. Added(f, {}) = 0 /\ Added(g, {}) = 0
    BY <1>1, AddedFacts
  <2> QED BY <2>1, <2>2
<1>3. ASSUME NEW M \in SUBSET L, NEW r \in L \ M, M \in F PROVE M \cup {r} \in F
  <2> DEFINE R == {x \in D : line[x] = r}
  <2>1. /\ In(M \cup {r}) = In(M) \cup R /\ In(M) \cap R = {}
        /\ In(M) \in SUBSET D /\ R \in SUBSET D
    BY <1>3
  <2>2. Added(g, M \cup {r}) = g[r] + Added(g, M)
    BY <1>1, <1>3, AddedFacts
  <2>3. g[r] = Added(f, R)
    <3>1. of[r] = R
      BY <1>3
    <3> QED BY <1>3, <3>1
  <2>4. Added(g, M) = Added(f, In(M))
    BY <1>3
  <2>5. M \cup {r} \in SUBSET L
    BY <1>3
  <2> SUFFICES Added(g, M \cup {r}) = Added(f, In(M \cup {r}))
    BY <2>5
  <2> HIDE DEF In, R
  <2>6. Added(f, In(M) \cup R) = Added(f, In(M)) + Added(f, R)
    BY <2>1, AddedUnion
  <2>7. Added(f, In(M)) \in Int /\ Added(f, R) \in Int
    BY <2>1, AddedFacts
  <2>8. Added(g, M \cup {r}) = Added(f, In(M)) + Added(f, R)
    BY <2>2, <2>3, <2>4, <2>7
  <2>9. Added(f, In(M \cup {r})) = Added(f, In(M) \cup R)
    BY <2>1, Zenon
  <2> QED BY <2>6, <2>8, <2>9, Zenon
<1>4. L \in F
  <2> HIDE DEF F
  <2>1. SUBSET L \subseteq F
    BY <1>2, <1>3, SetsGrow
  <2> QED BY <2>1
<1>5. In(L) = D
  OBVIOUS
<1> QED BY <1>4, <1>5

-----------------------------------------------------------------------------
(* The operators that add up what is in a BOM                              *)

(* MapThenSumSet adds up. *)
LEMMA SumIsAdded ==
    ASSUME NEW S, IsFiniteSet(S), NEW f, Numbers(f, S)
    PROVE  MapThenSumSet(LAMBDA x : f[x], S) = Added(f, S)
<1> DEFINE Body(g) == [s \in SUBSET S |->
                IF s = {} THEN 0 ELSE f[Pick(s)] + g[s \ {Pick(s)}]]
           iter == CHOOSE g : g = Body(g)
<1>1. MapThenSumSet(LAMBDA x : f[x], S) = iter[S]
  BY DEF MapThenSumSet, MapThenFoldSet, Pick
<1>2. PICK h : Gathers(h, Adding, 0, f, S)
  BY GatherersExist, BothInAnyOrder
<1>3. \A a, b \in Int : Adding[a][b] = a + b
  BY DEF Adding
<1>4. \A s \in SUBSET S : s # {} => Pick(s) \in s /\ s \ {Pick(s)} \in SUBSET S
                                   /\ f[Pick(s)] \in Int
  <2> SUFFICES ASSUME NEW s \in SUBSET S, s # {} PROVE Pick(s) \in s
    BY DEF Numbers
  <2>1. \E x : x \in s
    OBVIOUS
  <2> QED BY <2>1, Zenon DEF Pick
<1>5. h = Body(h)
  <2>1. h \in [SUBSET S -> Int] /\ h[{}] = 0
    BY <1>2 DEF Gathers
  <2>2. \A s \in SUBSET S : s # {} => h[s] = f[Pick(s)] + h[s \ {Pick(s)}]
    BY <1>2, <1>3, <1>4, <2>1 DEF Gathers
  <2> QED BY <2>1, <2>2
<1>6. iter = Body(iter)
  <2> HIDE DEF Body
  <2> QED BY <1>5, Zenon
<1> HIDE DEF iter
<1>7. iter[{}] = 0
  <2>1. {} \in SUBSET S
    OBVIOUS
  <2> QED BY <1>6, <2>1
<1>8. \A s \in SUBSET S : s # {} => iter[s] = f[Pick(s)] + iter[s \ {Pick(s)}]
  BY <1>6
<1>9. \A s \in SUBSET S : s # {} /\ iter[s \ {Pick(s)}] \in Int =>
            iter[s] = Adding[f[Pick(s)]][iter[s \ {Pick(s)}]]
  BY <1>3, <1>4, <1>8
<1>10. iter[S] = Gathered(Adding, 0, f, S)
  BY <1>7, <1>9, PickedIs, BothInAnyOrder
<1> QED BY <1>1, <1>10 DEF Added

Line(r) == {i \in included : leader[i] = r}

(* The quantity of a line is the sum over its items.                       *)
LEMMA LineQuantityIs ==
    ASSUME NEW r, IsFiniteSet(Line(r)), Numbers(quantity, Line(r))
    PROVE  LineQuantity(r) = Added(quantity, Line(r))
  BY SumIsAdded, Zenon DEF LineQuantity, Line

Priceable(r) == Added(quantity, Line(r)) * price[Item(r).part]

Totals == [r \in Ids |-> Priceable(r)]

Customs == [c \in load.customs |-> c.quantity * c.price]

(* What the list says of a part is the sum over its lines.                 *)
LEMMA FlatIs ==
    ASSUME NEW p, IsFiniteSet(Ids), included \subseteq Ids, Numbers(weight, Ids)
    PROVE  Flat(p) = Added(weight, {r \in Lines : Item(r).part = p})
<1> DEFINE S == {r \in Lines : Item(r).part = p}
<1>1. S \subseteq Ids
  BY DEF Lines
<1>2. IsFiniteSet(S) /\ Numbers(weight, S)
  BY <1>1, FS_Subset DEF Numbers
<1> QED BY <1>2, SumIsAdded, Zenon DEF Flat

(* What is taken first of a set is in it.                                  *)
LEMMA PickIsOf == \A S : \A s \in SUBSET S : s # {} => Pick(s) \in S
<1> SUFFICES ASSUME NEW S, NEW s \in SUBSET S, s # {} PROVE Pick(s) \in s
  OBVIOUS
<1>1. \E x : x \in s
  OBVIOUS
<1> QED BY <1>1, Zenon DEF Pick

(* MapThenSumSet adds up what lines cost.                                  *)
LEMMA LineTotalsAre ==
    ASSUME NEW S, IsFiniteSet(S), NEW f, Numbers(f, S),
           \A r \in S : LineTotal(r) = f[r]
    PROVE  MapThenSumSet(LineTotal, S) = Added(f, S)
<1>1. \A g : [s \in SUBSET S |->
                    IF s = {} THEN 0 ELSE LineTotal(Pick(s)) + g[s \ {Pick(s)}]]
               = [s \in SUBSET S |->
                    IF s = {} THEN 0 ELSE f[Pick(s)] + g[s \ {Pick(s)}]]
  BY PickIsOf
<1>2. MapThenSumSet(LineTotal, S) = MapThenSumSet(LAMBDA r : f[r], S)
  <2>1. (CHOOSE g : g = [s \in SUBSET S |->
                    IF s = {} THEN 0 ELSE LineTotal(Pick(s)) + g[s \ {Pick(s)}]])
          = (CHOOSE g : g = [s \in SUBSET S |->
                    IF s = {} THEN 0 ELSE f[Pick(s)] + g[s \ {Pick(s)}]])
    BY <1>1, Zenon
  <2> QED BY <2>1 DEF MapThenSumSet, MapThenFoldSet, Pick
<1>3. MapThenSumSet(LAMBDA r : f[r], S) = Added(f, S)
  BY SumIsAdded, Zenon
<1> QED BY <1>2, <1>3, Zenon

(* The custom lines add up to a number.                                    *)
LEMMA CustomTotalIs ==
    ASSUME LoadInv
    PROVE  /\ CustomTotal = Added(Customs, load.customs)
           /\ CustomTotal \in Int
<1> DEFINE S == load.customs
<1>1. S \in SUBSET CustomItem /\ IsFiniteSet(S)
  BY LoadsAssumption DEF LoadInv, Load
<1>2. \A c \in S : Customs[c] = c.quantity * c.price /\ Customs[c] \in Int
  <2>1. \A m, n \in Nat : m * n \in Int
    OBVIOUS
  <2> QED BY <1>1, <2>1 DEF Customs, CustomItem
<1>3. \A g : [s \in SUBSET S |->
                    IF s = {} THEN 0
                    ELSE Pick(s).quantity * Pick(s).price + g[s \ {Pick(s)}]]
               = [s \in SUBSET S |->
                    IF s = {} THEN 0 ELSE Customs[Pick(s)] + g[s \ {Pick(s)}]]
  BY <1>2, PickIsOf
<1>4. CustomTotal = MapThenSumSet(LAMBDA c : Customs[c], S)
  <2>1. (CHOOSE g : g = [s \in SUBSET S |->
                    IF s = {} THEN 0
                    ELSE Pick(s).quantity * Pick(s).price + g[s \ {Pick(s)}]])
          = (CHOOSE g : g = [s \in SUBSET S |->
                    IF s = {} THEN 0 ELSE Customs[Pick(s)] + g[s \ {Pick(s)}]])
    BY <1>3, Zenon
  <2> QED BY <2>1 DEF CustomTotal, MapThenSumSet, MapThenFoldSet, Pick
<1>5. Numbers(Customs, S)
  BY <1>2 DEF Numbers
<1>6. MapThenSumSet(LAMBDA c : Customs[c], S) = Added(Customs, S)
  <2> HIDE DEF S
  <2> QED BY <1>1, <1>5, SumIsAdded, Zenon
<1>7. Added(Customs, S) \in Int
  BY <1>1, <1>5, AddedFacts
<1> QED BY <1>4, <1>6, <1>7, Zenon

(* MapThenSumSet adds up what items cost.                                  *)
LEMMA AmountsAre ==
    ASSUME NEW S, IsFiniteSet(S), NEW f, Numbers(f, S),
           \A i \in S : quantity[i] * price[Item(i).part] = f[i]
    PROVE  MapThenSumSet(LAMBDA i : quantity[i] * price[Item(i).part], S)
             = Added(f, S)
<1>1. \A g : [s \in SUBSET S |->
                    IF s = {} THEN 0
                    ELSE quantity[Pick(s)] * price[Item(Pick(s)).part]
                            + g[s \ {Pick(s)}]]
               = [s \in SUBSET S |->
                    IF s = {} THEN 0 ELSE f[Pick(s)] + g[s \ {Pick(s)}]]
  BY PickIsOf
<1>2. MapThenSumSet(LAMBDA i : quantity[i] * price[Item(i).part], S)
        = MapThenSumSet(LAMBDA r : f[r], S)
  <2>1. (CHOOSE g : g = [s \in SUBSET S |->
                    IF s = {} THEN 0
                    ELSE quantity[Pick(s)] * price[Item(Pick(s)).part]
                            + g[s \ {Pick(s)}]])
          = (CHOOSE g : g = [s \in SUBSET S |->
                    IF s = {} THEN 0 ELSE f[Pick(s)] + g[s \ {Pick(s)}]])
    BY <1>1, Zenon
  <2> QED BY <2>1 DEF MapThenSumSet, MapThenFoldSet, Pick
<1>3. MapThenSumSet(LAMBDA r : f[r], S) = Added(f, S)
  BY SumIsAdded, Zenon
<1> QED BY <1>2, <1>3, Zenon

(* The product of quantities up to the root. *)
Multiplied(f, S) == Gathered(Multiplying, 1, f, S)

(* MapThenFoldSet multiplies quantities.                                   *)
LEMMA ProductIs ==
    ASSUME NEW S, IsFiniteSet(S), Numbers(quantity, S)
    PROVE  MapThenFoldSet(LAMBDA x, y : x * y, 1, LAMBDA j : quantity[j],
                          LAMBDA s : CHOOSE j \in s : TRUE, S)
             = Multiplied(quantity, S)
<1> DEFINE Body(g) == [s \in SUBSET S |->
                IF s = {} THEN 1 ELSE quantity[Pick(s)] * g[s \ {Pick(s)}]]
           iter == CHOOSE g : g = Body(g)
<1>1. MapThenFoldSet(LAMBDA x, y : x * y, 1, LAMBDA j : quantity[j],
                          LAMBDA s : CHOOSE j \in s : TRUE, S) = iter[S]
  BY DEF MapThenFoldSet, Pick
<1>2. PICK h : Gathers(h, Multiplying, 1, quantity, S)
  BY GatherersExist, BothInAnyOrder
<1>3. \A a, b \in Int : Multiplying[a][b] = a * b
  BY DEF Multiplying
<1>4. \A s \in SUBSET S : s # {} => Pick(s) \in s /\ s \ {Pick(s)} \in SUBSET S
                                   /\ quantity[Pick(s)] \in Int
  <2> SUFFICES ASSUME NEW s \in SUBSET S, s # {} PROVE Pick(s) \in s
    BY DEF Numbers
  <2>1. \E x : x \in s
    OBVIOUS
  <2> QED BY <2>1, Zenon DEF Pick
<1>5. h = Body(h)
  <2>1. h \in [SUBSET S -> Int] /\ h[{}] = 1
    BY <1>2 DEF Gathers
  <2>2. \A s \in SUBSET S : s # {} => h[s] = quantity[Pick(s)] * h[s \ {Pick(s)}]
    BY <1>2, <1>3, <1>4, <2>1 DEF Gathers
  <2> QED BY <2>1, <2>2
<1>6. iter = Body(iter)
  <2> HIDE DEF Body
  <2> QED BY <1>5, Zenon
<1> HIDE DEF iter
<1>7. iter[{}] = 1
  <2>1. {} \in SUBSET S
    OBVIOUS
  <2> QED BY <1>6, <2>1
<1>8. \A s \in SUBSET S : s # {} => iter[s] = quantity[Pick(s)] * iter[s \ {Pick(s)}]
  BY <1>6
<1>9. \A s \in SUBSET S : s # {} /\ iter[s \ {Pick(s)}] \in Int =>
            iter[s] = Multiplying[quantity[Pick(s)]][iter[s \ {Pick(s)}]]
  BY <1>3, <1>4, <1>8
<1>10. iter[S] = Gathered(Multiplying, 1, quantity, S)
  BY <1>7, <1>9, PickedIs, BothInAnyOrder
<1> QED BY <1>1, <1>10 DEF Multiplied

(* What one product takes is a sum of products.                            *)
LEMMA ConsumptionIs ==
    ASSUME NEW p, NEW S, IsFiniteSet(S), NEW f, Numbers(f, S),
           S = {i \in included : /\ Item(i).part = p
                                 /\ \A j \in Above(i) : Item(j).type = "technical"},
           \A i \in S : /\ IsFiniteSet(Above(i)) /\ Numbers(quantity, Above(i))
                        /\ f[i] = Multiplied(quantity, Above(i))
    PROVE  Consumption(p) = Added(f, S)
<1> DEFINE Upto(i) == MapThenFoldSet(LAMBDA x, y : x * y, 1, LAMBDA j : quantity[j],
                          LAMBDA s : CHOOSE j \in s : TRUE, Above(i))
<1>1. \A i \in S : Upto(i) = f[i]
  <2>1. \A i \in S : Upto(i) = Multiplied(quantity, Above(i))
    BY ProductIs, Zenon
  <2> HIDE DEF Upto
  <2> QED BY <2>1
<1>2. Consumption(p) = MapThenSumSet(LAMBDA i : Upto(i), S)
  BY Zenon DEF Consumption
<1> HIDE DEF Upto
<1>3. \A g : [s \in SUBSET S |->
                    IF s = {} THEN 0 ELSE Upto(Pick(s)) + g[s \ {Pick(s)}]]
               = [s \in SUBSET S |->
                    IF s = {} THEN 0 ELSE f[Pick(s)] + g[s \ {Pick(s)}]]
  BY <1>1, PickIsOf
<1>4. MapThenSumSet(LAMBDA i : Upto(i), S) = MapThenSumSet(LAMBDA r : f[r], S)
  <2> DEFINE Ups(g) == [s \in SUBSET S |->
                    IF s = {} THEN 0 ELSE Upto(Pick(s)) + g[s \ {Pick(s)}]]
             Fs(g) == [s \in SUBSET S |->
                    IF s = {} THEN 0 ELSE f[Pick(s)] + g[s \ {Pick(s)}]]
  <2>1. (CHOOSE g : g = Ups(g)) = (CHOOSE g : g = Fs(g))
    <3>1. \A g : Ups(g) = Fs(g)
      BY <1>3
    <3> HIDE DEF Ups, Fs
    <3> QED BY <3>1, Zenon
  <2> QED BY <2>1 DEF MapThenSumSet, MapThenFoldSet, Pick
<1>5. MapThenSumSet(LAMBDA r : f[r], S) = Added(f, S)
  BY SumIsAdded, Zenon
<1> QED BY <1>2, <1>4, <1>5, Zenon

-----------------------------------------------------------------------------
(* What is looked up, counted, weighed and output                          *)

(* Prices are those of the day once they are looked up.                    *)
PriceInv ==
    /\ price \in [Parts -> Nat]
    /\ stage \in {"prices", "tree", "done"} =>
            (Priced => ListApplies) /\ IsPriceMap(price)

QuantityInv ==
    /\ quantity \in [Ids -> Int]
    /\ stage \in {"tree", "done"} => \A i \in included : quantity[i] > 0

(* Lines are weighed when all of them are there, and from the roots on.    *)
WeightInv ==
    /\ weight \in [Ids -> Nat]
    /\ \A r \in Ids : weight[r] # 0 =>
        /\ stage \in {"tree", "done"} /\ Merged
        /\ r \in Lines /\ Item(r).type = "technical"
        /\ ~IsRoot(r) => weight[Level(r)] > 0
        /\ weight[r] = Added(quantity, Line(r))
                          * (IF IsRoot(r) THEN 1 ELSE weight[Level(r)])

Total == IF SalesWithPrice = {} /\ load.customs = {} THEN None
         ELSE Added(Totals, SalesWithPrice) + Added(Customs, load.customs)

OutputInv ==
    /\ stage = "done" => \A r \in Ids : ~Weighable(r)
    /\ bom.given =>
        /\ stage = "done"
        /\ \A p \in Parts :
                bom.flat[p] = Added(weight, {r \in Lines : Item(r).part = p})
        /\ bom.total = Total
        /\ bom.warnings = Warnings

SumInv == PriceInv /\ QuantityInv /\ WeightInv /\ OutputInv

(* What is included and what is in a line is finite.                       *)
LEMMA IncludedAre ==
    ASSUME BomInv
    PROVE  /\ included \subseteq Rows /\ included \subseteq Ids
           /\ stage \notin {"tree", "done"} => included = {}
           /\ \A r : /\ Line(r) \subseteq included
                     /\ IsFiniteSet(Line(r))
           /\ IsFiniteSet(included) /\ IsFiniteSet(Lines)
           /\ leader \in [Ids -> Ids \cup {0}]
<1>1. included \subseteq Rows /\ included \subseteq Ids
  BY DEF BomInv, StageInv, Stages, PruneInv, Chosen, Rows
<1>2. IsFiniteSet(included)
  BY <1>1, BomAssumption, FS_Subset
<1>3. Lines \subseteq included /\ \A r : Line(r) \subseteq included
  BY DEF Lines, Line
<1>4. \A S \in SUBSET included : IsFiniteSet(S)
  BY <1>2, FS_Subset
<1> QED BY <1>1, <1>2, <1>3, <1>4 DEF BomInv, StageInv, Stages, LeaderInv

(* What is added up of a line is positive.                                 *)
LEMMA LineIsPositive ==
    ASSUME BomInv, QuantityInv, stage \in {"tree", "done"}
    PROVE  \A r : /\ Added(quantity, Line(r)) \in Nat
                  /\ LineQuantity(r) = Added(quantity, Line(r))
                  /\ Numbers(quantity, Line(r))
                  /\ Line(r) # {} => Added(quantity, Line(r)) > 0
<1> SUFFICES ASSUME NEW r
             PROVE  /\ Added(quantity, Line(r)) \in Nat
                    /\ LineQuantity(r) = Added(quantity, Line(r))
                    /\ Numbers(quantity, Line(r))
                    /\ Line(r) # {} => Added(quantity, Line(r)) > 0
  OBVIOUS
<1>1. IsFiniteSet(Line(r)) /\ Line(r) \subseteq included /\ included \subseteq Ids
  BY IncludedAre
<1>2. \A i \in Line(r) : quantity[i] \in Nat /\ quantity[i] > 0
  BY <1>1 DEF QuantityInv
<1>3. Numbers(quantity, Line(r))
  BY <1>2 DEF Numbers
<1>4. LineQuantity(r) = Added(quantity, Line(r))
  BY <1>1, <1>3, LineQuantityIs
<1>5. /\ Added(quantity, Line(r)) \in Nat
      /\ (\E i \in Line(r) : quantity[i] > 0) => Added(quantity, Line(r)) > 0
  BY <1>1, <1>2, AddedSign
<1> QED BY <1>2, <1>3, <1>4, <1>5

(* Lines, totals and warnings are a matter of the load, of prices and of   *)
(* what was merged.                                                        *)
LEMMA SameOutput ==
    ASSUME load' = load, price' = price, included' = included,
           quantity' = quantity, leader' = leader
    PROVE  /\ Lines' = Lines
           /\ \A r : Line(r)' = Line(r)
           /\ \A r : Level(r)' = Level(r)
           /\ Merged' = Merged
           /\ Total' = Total
           /\ Warnings' = Warnings
           /\ \A p : {r \in Lines : Item(r).part = p}'
                     = {r \in Lines : Item(r).part = p}
<1>1. Lines' = Lines /\ (\A r : Line(r)' = Line(r)) /\ (\A r : Level(r)' = Level(r))
  BY SameItems DEF Lines, Line, Level
<1>2. Merged' = Merged
  BY SameLines
<1>3. Sales' = Sales
  BY <1>1, SameItems DEF Sales
<1>4. SalesWithPrice' = SalesWithPrice
  BY <1>3, SameItems DEF SalesWithPrice
<1>5. Totals' = Totals /\ Customs' = Customs
  BY <1>1, SameItems DEF Totals, Priceable, Customs
<1>6. Total' = Total
  BY <1>4, <1>5 DEF Total
<1>7. Warnings' = Warnings
  <2>1. /\ Priced' = Priced
        /\ \A r : Item(r)' = Item(r) /\ Known(Item(r).part)' = Known(Item(r).part)
    BY SameItems DEF Priced, Known
  <2> QED BY <1>3, <1>4, <2>1 DEF Warnings
<1>8. \A p : {r \in Lines : Item(r).part = p}' = {r \in Lines : Item(r).part = p}
  BY <1>1, SameItems
<1> QED BY <1>1, <1>2, <1>6, <1>7, <1>8

(* The sums depend on these variables only.                                *)
LEMMA SumsStay ==
    ASSUME UNCHANGED <<load, stage, price, included, quantity, leader, weight, bom>>,
           SumInv
    PROVE  SumInv'
<1>1. /\ load' = load /\ stage' = stage /\ price' = price /\ included' = included
      /\ quantity' = quantity /\ leader' = leader /\ weight' = weight /\ bom' = bom
  OBVIOUS
<1>2. PriceInv'
  BY <1>1 DEF SumInv, PriceInv, IsPriceMap, Priced, ListApplies, PricesOf, Zero
<1>3. QuantityInv'
  BY <1>1 DEF SumInv, QuantityInv
<1>4. /\ Lines' = Lines /\ (\A r : Line(r)' = Line(r)) /\ (\A r : Level(r)' = Level(r))
      /\ Merged' = Merged /\ Total' = Total /\ Warnings' = Warnings
      /\ \A p : {r \in Lines : Item(r).part = p}' = {r \in Lines : Item(r).part = p}
  BY <1>1, SameOutput
<1>5. WeightInv'
  BY <1>1, <1>4, SameItems DEF SumInv, WeightInv
<1>6. \A r : Weighable(r)' = Weighable(r)
  BY <1>1, <1>4, SameItems DEF Weighable
<1>7. OutputInv'
  BY <1>1, <1>4, <1>6 DEF SumInv, OutputInv
<1> QED BY <1>2, <1>3, <1>5, <1>7 DEF SumInv

(* The invariant of the sums holds initially.                              *)
LEMMA SumInitInv == BomInit => SumInv
<1> SUFFICES ASSUME BomInit PROVE SumInv
  OBVIOUS
<1>1. /\ price = [p \in Parts |-> 0] /\ quantity = [i \in Ids |-> 0]
      /\ weight = [i \in Ids |-> 0] /\ stage = "fields" /\ ~bom.given
  BY DEF BomInit, Zero, NoBom
<1> QED BY <1>1 DEF SumInv, PriceInv, QuantityInv, WeightInv, OutputInv

(* It holds when a calculation starts over.                                *)
LEMMA NothingSummed == NothingYet => SumInv'
<1> SUFFICES ASSUME NothingYet PROVE SumInv'
  OBVIOUS
<1>1. /\ price' = [p \in Parts |-> 0] /\ quantity' = [i \in Ids |-> 0]
      /\ weight' = [i \in Ids |-> 0] /\ stage' = "fields" /\ ~bom'.given
  BY DEF NothingYet, Zero, NoBom
<1> QED BY <1>1 DEF SumInv, PriceInv, QuantityInv, WeightInv, OutputInv

(* Before the walk is over nothing is weighed and nothing delivered.       *)
LEMMA NothingWeighed ==
    ASSUME SumInv, stage # "done", stage # "tree" \/ ~Merged
    PROVE  (\A r \in Ids : weight[r] = 0) /\ ~bom.given
  BY DEF SumInv, WeightInv, OutputInv

(* What a price list is made of.                                           *)
LEMMA LoadType ==
    ASSUME LoadInv
    PROVE  /\ Priced => /\ load.pricing.list \in PriceList \cup {None}
                        /\ load.pricing.date \in Nat
                        /\ load.pricing.list # None =>
                              /\ load.pricing.list.rows \subseteq PriceListItem
  BY LoadsAssumption DEF LoadInv, Load, Priced, Pricing, PriceList

(* A part has a price if a row of the list gives it one on the day.        *)
LEMMA PricesAre ==
    ASSUME LoadInv, Priced, ListApplies
    PROVE  \A p : PricesOf(p) \subseteq Nat \ {0}
<1>1. load.pricing.list.rows \subseteq PriceListItem
  BY LoadType DEF ListApplies
<1> QED BY <1>1 DEF PricesOf, PriceListItem

(* Prices are looked up when nothing was weighed.                          *)
LEMMA ResolveSums ==
    ASSUME BomInv, SumInv, ResolvePrices
    PROVE  SumInv'
<1>1. /\ load' = load /\ stage = "fields" /\ stage' = "prices" /\ included' = included
      /\ quantity' = quantity /\ leader' = leader /\ weight' = weight /\ bom' = bom
      /\ Priced => ListApplies
      /\ price' \in [Parts -> Candidates] /\ IsPriceMap(price')
  BY DEF ResolvePrices
<1>2. Candidates \subseteq Nat
  BY <1>1, PricesAre DEF BomInv, Candidates
<1>3. PriceInv'
  <2>1. Priced' = Priced /\ ListApplies' = ListApplies
    BY <1>1 DEF Priced, ListApplies
  <2>2. IsPriceMap(price)'
    BY <1>1 DEF IsPriceMap, Priced, PricesOf, Zero
  <2>3. price' \in [Parts -> Nat]
    BY <1>1, <1>2
  <2> QED BY <1>1, <2>1, <2>2, <2>3 DEF PriceInv
<1>4. QuantityInv'
  BY <1>1 DEF SumInv, QuantityInv
<1>5. (\A r \in Ids : weight[r] = 0) /\ ~bom.given
  BY <1>1, NothingWeighed
<1>6. WeightInv' /\ OutputInv'
  BY <1>1, <1>5 DEF SumInv, WeightInv, OutputInv
<1> QED BY <1>3, <1>4, <1>6 DEF SumInv

(* A calculation that ends here has no sums.                               *)
LEMMA RefuseSums ==
    ASSUME SumInv, RefusePrices
    PROVE  SumInv'
<1>1. /\ load' = load /\ stage = "fields" /\ stage' = "failed" /\ included' = included
      /\ price' = price
      /\ quantity' = quantity /\ leader' = leader /\ weight' = weight /\ bom' = bom
  BY DEF RefusePrices
<1>2. (\A r \in Ids : weight[r] = 0) /\ ~bom.given
  BY <1>1, NothingWeighed
<1> QED BY <1>1, <1>2 DEF SumInv, PriceInv, QuantityInv, WeightInv, OutputInv

(* The prices are kept while the tree is walked.                           *)
LEMMA PricesStay ==
    ASSUME PriceInv, load' = load, price' = price,
           stage \in {"prices", "tree"}
    PROVE  PriceInv'
<1>1. /\ Priced' = Priced /\ ListApplies' = ListApplies
  BY DEF Priced, ListApplies
<1>2. IsPriceMap(price)' = IsPriceMap(price)
  BY DEF IsPriceMap, Priced, PricesOf, Zero
<1> QED BY <1>1, <1>2 DEF PriceInv

(* What is included has a positive quantity.                               *)
LEMMA SelectSums ==
    ASSUME IInv, BomInv, SumInv, Select
    PROVE  SumInv'
<1>1. /\ load' = load /\ stage = "prices" /\ stage' = "tree" /\ price' = price
      /\ included' = {i \in Rows : Wanted(i) /\ QuantityOf(i) > 0}
      /\ quantity' = [i \in Ids |-> IF i \in included' THEN QuantityOf(i) ELSE 0]
      /\ leader' = leader /\ weight' = weight /\ bom' = bom
  BY DEF Select
<1>2. PriceInv'
  BY <1>1, PricesStay DEF SumInv
<1>3. ASSUME NEW i \in Rows PROVE QuantityOf(i) \in Int
  <2>1. Item(i).quantity \in Nat \ {0}
    BY <1>3, ItemType DEF BomInv
  <2>2. context \in [Fields -> Value]
    BY BeforeType DEF IInv, WaterfallTypeOK
  <2>3. Counted(Item(i).from) \in Int \cup {None}
    BY <2>2, BomAssumption DEF Counted, Value
  <2> QED BY <2>1, <2>3 DEF QuantityOf
<1>4. QuantityInv'
  <2>1. quantity' \in [Ids -> Int]
    BY <1>1, <1>3
  <2>2. \A i \in included' : i \in Ids /\ quantity'[i] > 0
    BY <1>1 DEF Rows
  <2> QED BY <2>1, <2>2 DEF QuantityInv
<1>5. (\A r \in Ids : weight[r] = 0) /\ ~bom.given
  BY <1>1, NothingWeighed
<1>6. WeightInv' /\ OutputInv'
  BY <1>1, <1>5 DEF SumInv, WeightInv, OutputInv
<1> QED BY <1>2, <1>4, <1>6 DEF SumInv

(* Pruning and merging come before weighing.                               *)
LEMMA PruneSums ==
    ASSUME BomInv, SumInv, NEW o \in Ids, Prune(o) \/ Merge(o)
    PROVE  SumInv'
<1>1. /\ load' = load /\ stage = "tree" /\ stage' = "tree" /\ price' = price
      /\ included' \subseteq included
      /\ quantity' = quantity /\ weight' = weight /\ bom' = bom
  BY DEF Prune, Merge
<1>2. ~Merged
  BY DEF Prune, Merge, Merged, Pruned, Orphan, Reached
<1>3. PriceInv'
  BY <1>1, PricesStay DEF SumInv
<1>4. (\A r \in Ids : weight[r] = 0) /\ ~bom.given
  BY <1>1, <1>2, NothingWeighed
<1>5. WeightInv' /\ OutputInv' /\ QuantityInv'
  BY <1>1, <1>4 DEF SumInv, WeightInv, OutputInv, QuantityInv
<1> QED BY <1>3, <1>5 DEF SumInv

(* A line is weighed once, after its parent.                               *)
LEMMA WeighSums ==
    ASSUME BomInv, SumInv, NEW r \in Ids, Weigh(r)
    PROVE  SumInv'
<1>1. /\ load' = load /\ stage = "tree" /\ stage' = "tree" /\ price' = price
      /\ included' = included /\ leader' = leader
      /\ quantity' = quantity /\ bom' = bom
      /\ Merged /\ Weighable(r)
      /\ weight' = [weight EXCEPT ![r] =
            LineQuantity(r) * IF IsRoot(r) THEN 1 ELSE weight[Level(r)]]
  BY DEF Weigh
<1>2. /\ LineQuantity(r) = Added(quantity, Line(r)) /\ Added(quantity, Line(r)) \in Nat
  BY <1>1, LineIsPositive DEF SumInv
<1>3. weight \in [Ids -> Nat] /\ weight[r] = 0 /\ ~bom.given
  BY <1>1 DEF SumInv, WeightInv, OutputInv, Weighable
<1>4. LoadInv /\ LeaderInv /\ included \subseteq Rows
  BY IncludedAre DEF BomInv
<1>5. ASSUME NEW i \in Lines
      PROVE  ~IsRoot(i) => Level(i) \in Ids
  <2>1. i \in included /\ Walked(i)
    <3>1. i \in included /\ leader[i] = i /\ i \in Ids
      BY IncludedAre DEF Lines
    <3> QED BY <3>1, IdIsNotZero DEF Walked
  <2> QED BY <1>4, <2>1, LevelOfReached
<1>6. r \in Lines /\ Item(r).type = "technical" /\ (~IsRoot(r) => weight[Level(r)] > 0)
  BY <1>1 DEF Weighable
<1> DEFINE above == IF IsRoot(r) THEN 1 ELSE weight[Level(r)]
<1>7. above \in Nat
  BY <1>3, <1>5, <1>6
<1>8. LineQuantity(r) * above \in Nat
  <2>1. \A m, n \in Nat : m * n \in Nat
    OBVIOUS
  <2> HIDE DEF above
  <2> QED BY <1>2, <1>7, <2>1
<1>9. /\ weight' \in [Ids -> Nat]
      /\ weight'[r] = Added(quantity, Line(r)) * above
      /\ \A i \in Ids \ {r} : weight'[i] = weight[i]
  <2> HIDE DEF above
  <2>1. weight' = [weight EXCEPT ![r] = LineQuantity(r) * above]
    BY <1>1 DEF above
  <2> QED BY <1>2, <1>3, <1>8, <2>1
<1> HIDE DEF above
<1>10. \A i \in Ids : weight[i] > 0 => weight'[i] = weight[i] /\ i # r
  BY <1>3, <1>9
<1>11. /\ Lines' = Lines /\ (\A i : Line(i)' = Line(i)) /\ (\A i : Level(i)' = Level(i))
       /\ Merged' = Merged
  BY <1>1, SameOutput
<1>12. ASSUME NEW i \in Ids, weight'[i] # 0
       PROVE  /\ i \in Lines /\ Item(i).type = "technical"
              /\ ~IsRoot(i) => weight'[Level(i)] > 0
              /\ weight'[i] = Added(quantity, Line(i))
                                * (IF IsRoot(i) THEN 1 ELSE weight'[Level(i)])
  <2>1. CASE i = r
    <3>1. ~IsRoot(r) => weight'[Level(r)] = weight[Level(r)]
      BY <1>5, <1>6, <1>10
    <3> QED BY <1>6, <1>9, <2>1, <3>1 DEF above
  <2>2. CASE i # r
    <3>1. weight'[i] = weight[i]
      BY <1>9, <2>2
    <3>2. /\ i \in Lines /\ Item(i).type = "technical"
          /\ ~IsRoot(i) => weight[Level(i)] > 0
          /\ weight[i] = Added(quantity, Line(i))
                           * (IF IsRoot(i) THEN 1 ELSE weight[Level(i)])
      BY <1>12, <3>1 DEF SumInv, WeightInv
    <3>3. ~IsRoot(i) => weight'[Level(i)] = weight[Level(i)]
      BY <1>5, <1>10, <3>2
    <3> QED BY <3>1, <3>2, <3>3
  <2> QED BY <2>1, <2>2
<1>13. WeightInv'
  BY <1>1, <1>9, <1>11, <1>12, SameItems DEF WeightInv
<1>14. PriceInv'
  BY <1>1, PricesStay DEF SumInv
<1>15. QuantityInv' /\ OutputInv'
  BY <1>1, <1>3 DEF SumInv, QuantityInv, OutputInv
<1> QED BY <1>13, <1>14, <1>15 DEF SumInv

(* The output is what was added up.                                        *)
LEMMA DeliverSums ==
    ASSUME BomInv, SumInv, Deliver
    PROVE  SumInv'
<1>1. /\ load' = load /\ stage = "tree" /\ stage' = "done" /\ price' = price
      /\ included' = included /\ leader' = leader
      /\ quantity' = quantity /\ weight' = weight
      /\ Merged /\ \A r \in Ids : ~Weighable(r)
      /\ bom' = IF Rows = {} /\ load.customs = {} THEN NoBom
              ELSE [given |-> TRUE, flat |-> [p \in Parts |-> Flat(p)],
                    total |-> CommercialTotal, warnings |-> Warnings]
  BY DEF Deliver
<1>2. /\ included \subseteq Ids /\ Lines \subseteq included /\ IsFiniteSet(Lines)
      /\ included \subseteq Rows /\ LoadInv
  BY IncludedAre DEF Lines, BomInv
<1>3. \A p \in Parts : Flat(p) = Added(weight, {r \in Lines : Item(r).part = p})
  <2>1. Numbers(weight, Ids)
    BY DEF SumInv, WeightInv, Numbers
  <2>2. \A p : Flat(p) = Added(weight, {r \in Lines : Item(r).part = p})
    BY <1>2, <2>1, BomAssumption, FlatIs
  <2> QED BY <2>2
<1>4. CommercialTotal = Total
  <2>1. /\ SalesWithPrice \subseteq Lines
        /\ \A r \in SalesWithPrice : Item(r).part \in Parts /\ r \in Ids
    BY <1>2, ItemType DEF SalesWithPrice, Sales, BomItem
  <2>2. IsFiniteSet(SalesWithPrice)
    BY <1>2, <2>1, FS_Subset
  <2>3. \A r \in SalesWithPrice : LineTotal(r) = Totals[r] /\ Totals[r] \in Int
    <3>1. \A m, n \in Nat : m * n \in Int
      OBVIOUS
    <3>2. \A r : /\ LineQuantity(r) = Added(quantity, Line(r))
                 /\ Added(quantity, Line(r)) \in Nat
      BY <1>1, LineIsPositive DEF SumInv
    <3>3. \A r \in SalesWithPrice : price[Item(r).part] \in Nat
      BY <2>1 DEF SumInv, PriceInv
    <3>4. \A r \in SalesWithPrice :
             Totals[r] = Added(quantity, Line(r)) * price[Item(r).part]
      BY <2>1 DEF Totals, Priceable
    <3> QED BY <3>1, <3>2, <3>3, <3>4 DEF LineTotal
  <2>4. MapThenSumSet(LineTotal, SalesWithPrice) = Added(Totals, SalesWithPrice)
    <3>1. Numbers(Totals, SalesWithPrice)
      BY <2>3 DEF Numbers
    <3> QED BY <2>2, <2>3, <3>1, LineTotalsAre
  <2>5. CustomTotal = Added(Customs, load.customs)
    BY <1>2, CustomTotalIs
  <2>6. CommercialTotal = IF SalesWithPrice = {} /\ load.customs = {} THEN None
                          ELSE Added(Totals, SalesWithPrice) + CustomTotal
    BY <2>4, Zenon DEF CommercialTotal
  <2> QED BY <2>5, <2>6 DEF Total
<1>5. /\ Lines' = Lines /\ (\A r : Line(r)' = Line(r)) /\ (\A r : Level(r)' = Level(r))
      /\ Merged' = Merged /\ Total' = Total /\ Warnings' = Warnings
      /\ \A p : {r \in Lines : Item(r).part = p}' = {r \in Lines : Item(r).part = p}
  BY <1>1, SameOutput
<1>6. \A r : Weighable(r)' = Weighable(r)
  BY <1>1, <1>5, SameItems DEF Weighable
<1>7. bom'.given => /\ \A p \in Parts : bom'.flat[p] = Flat(p)
                    /\ bom'.total = CommercialTotal
                    /\ bom'.warnings = Warnings
  <2> DEFINE flat == [p \in Parts |-> Flat(p)]
             total == CommercialTotal
             warned == Warnings
  <2>1. \A p \in Parts : flat[p] = Flat(p)
    OBVIOUS
  <2>2. ~NoBom.given
    BY DEF NoBom
  <2>3. \/ bom' = NoBom
        \/ bom' = [given |-> TRUE, flat |-> flat, total |-> total, warnings |-> warned]
    BY <1>1
  <2> HIDE DEF flat, total, warned
  <2>4. bom'.given => /\ bom'.flat = flat /\ bom'.total = total
                      /\ bom'.warnings = warned
    BY <2>2, <2>3
  <2> QED BY <2>1, <2>4 DEF total, warned
<1>8. OutputInv'
  <2>1. \A r \in Ids : ~Weighable(r)'
    BY <1>1, <1>6
  <2>2. ASSUME bom'.given, NEW p \in Parts
        PROVE  bom'.flat[p] = Added(weight, {r \in Lines : Item(r).part = p})'
    BY <1>1, <1>3, <1>5, <1>7, <2>2
  <2>3. bom'.given => bom'.total = Total' /\ bom'.warnings = Warnings'
    BY <1>4, <1>5, <1>7
  <2> QED BY <1>1, <2>1, <2>2, <2>3 DEF OutputInv
<1>9. PriceInv'
  BY <1>1 DEF SumInv, PriceInv, IsPriceMap, Priced, ListApplies, PricesOf, Zero
<1>10. QuantityInv'
  BY <1>1 DEF SumInv, QuantityInv
<1>11. WeightInv'
  BY <1>1, <1>5, SameItems DEF SumInv, WeightInv
<1> QED BY <1>8, <1>9, <1>10, <1>11 DEF SumInv

(* Every step keeps the invariant of the sums.                             *)
LEMMA SumStepInv == IInv /\ BomInv /\ SumInv /\ [BomNext]_bomAll => SumInv'
<1> SUFFICES ASSUME IInv, BomInv, SumInv, [BomNext]_bomAll PROVE SumInv'
  OBVIOUS
<1>1. CASE DecideFields
  BY <1>1, SumsStay DEF DecideFields, bomVars
<1>2. CASE ResolvePrices
  BY <1>2, ResolveSums
<1>3. CASE RefusePrices
  BY <1>3, RefuseSums
<1>4. CASE Select
  BY <1>4, SelectSums
<1>5. ASSUME NEW i \in Ids, Prune(i) \/ Merge(i) \/ Weigh(i)
      PROVE  SumInv'
  BY <1>5, PruneSums, WeighSums
<1>6. CASE Deliver
  BY <1>6, DeliverSums
<1>7. CASE SendBack
  BY <1>7, NothingSummed DEF SendBack
<1>8. CASE StartOver
  BY <1>8, NothingSummed DEF StartOver
<1>9. CASE UNCHANGED bomAll
  BY <1>9, SumsStay DEF bomAll, bomVars
<1> QED
  BY <1>1, <1>2, <1>3, <1>4, <1>5, <1>6, <1>7, <1>8, <1>9
  DEF BomNext, EvaluateBom

(* The three invariants hold together.                                     *)
LEMMA SumsHold == BomSpec => [](IInv /\ BomInv /\ SumInv)
  BY BomInvariant, SumInitInv, SumStepInv, PTL DEF BomSpec, bomAll

-----------------------------------------------------------------------------
(* Lines and the items in them                                             *)

(* What a line and the items in it have in common.                         *)
LEMMA InLine ==
    ASSUME BomInv, NEW i \in included, Walked(i)
    PROVE  /\ leader[i] \in Lines /\ i \in Line(leader[i])
           /\ Alike(i, leader[i])
           /\ Level(i) = Level(leader[i])
           /\ IsRoot(i) <=> IsRoot(leader[i])
           /\ ~IsRoot(i) => /\ Parent(i) \in included /\ Walked(Parent(i))
                            /\ Level(i) = leader[Parent(i)]
<1>1. /\ LoadInv /\ LeaderInv /\ KindInv
      /\ included \subseteq Rows /\ included \subseteq Ids
  BY IncludedAre DEF BomInv
<1>2. /\ leader[i] \in included /\ leader[leader[i]] = leader[i]
      /\ i \in Ids /\ leader[i] \in Ids /\ Walked(leader[i]) /\ Pruned
  BY <1>1, IdIsNotZero DEF LeaderInv, Walked
<1>3. leader[i] \in Lines /\ i \in Line(leader[i])
  BY <1>2 DEF Lines, Line
<1>4. Alike(i, leader[i]) /\ Level(i) = Level(leader[i])
  BY <1>1, <1>2 DEF KindInv
<1>5. /\ IsRoot(i) => Level(i) = 0
      /\ ~IsRoot(i) => /\ Walked(Parent(i)) /\ Level(i) = leader[Parent(i)]
                       /\ Level(i) \in Ids
  BY <1>1, LevelOfReached
<1>6. /\ IsRoot(leader[i]) => Level(leader[i]) = 0
      /\ ~IsRoot(leader[i]) => Level(leader[i]) \in Ids
  BY <1>1, <1>2, LevelOfReached
<1>7. ~IsRoot(i) => Parent(i) \in included
  BY <1>2 DEF Pruned, Orphan
<1> QED BY <1>3, <1>4, <1>5, <1>6, <1>7, IdIsNotZero

-----------------------------------------------------------------------------
(* Totals and warnings                                                     *)

(* What is sold is a root (_validate_commercial_is_root).                  *)
SoldAreRoots == \A i \in Sold : IsRoot(i)

(* Every item that is sold is in a line that is.                           *)
LEMMA SoldInLines ==
    ASSUME BomInv, stage = "done", AcyclicItems \/ SoldAreRoots, NEW i \in Sold
    PROVE  Walked(i) /\ i \in included /\ leader[i] \in Sales
<1>1. i \in included /\ Item(i).type = "commercial" /\ (\A j \in included : ~Reached(j))
  BY DEF Sold, BomInv, DoneInv, Merged
<1>2. Walked(i)
  BY <1>1, AllWalked DEF SoldAreRoots, Reached, Walked
<1>3. leader[i] \in Lines /\ Alike(i, leader[i])
  BY <1>1, <1>2, InLine
<1> QED BY <1>1, <1>2, <1>3 DEF Sales, Alike

(* An item has a price if a row gives its part one on the day.             *)
LEMMA PricedItems ==
    ASSUME BomInv, PriceInv, stage = "done", NEW i \in Rows
    PROVE  /\ price[Item(i).part] \in Nat
           /\ price[Item(i).part] > 0 <=> Priced /\ OnTheDay(i) # {}
           /\ Priced /\ OnTheDay(i) # {} =>
                 \E row \in OnTheDay(i) : price[Item(i).part] = row.price
<1> DEFINE p == Item(i).part
<1>1. LoadInv /\ p \in Parts
  BY ItemType DEF BomInv, BomItem
<1>2. (Priced => ListApplies) /\ IsPriceMap(price) /\ price[p] \in Nat
  BY <1>1 DEF PriceInv
<1>3. CASE ~Priced
  <2>1. price[p] = 0
    BY <1>1, <1>2, <1>3 DEF IsPriceMap, Zero
  <2> QED BY <1>3, <2>1
<1>4. CASE Priced
  <2>1. /\ load.pricing.list.rows \subseteq PriceListItem
        /\ load.pricing.date \in Nat
    BY <1>1, <1>2, <1>4, LoadType DEF ListApplies
  <2>2. PricesOf(p) = {row.price : row \in OnTheDay(i)}
    <3>1. \A row \in load.pricing.list.rows :
             load.pricing.date \in row.from .. row.to
               <=> (row.from <= load.pricing.date /\ row.to >= load.pricing.date)
      BY <2>1 DEF PriceListItem
    <3>2. {r \in load.pricing.list.rows :
              r.part = p /\ load.pricing.date \in r.from .. r.to} = OnTheDay(i)
      BY <3>1 DEF OnTheDay
    <3> QED BY <3>2 DEF PricesOf
  <2>3. PricesOf(p) \subseteq Nat \ {0}
    BY <1>1, <1>2, <1>4, PricesAre
  <2>4. IF PricesOf(p) = {} THEN price[p] = 0 ELSE price[p] \in PricesOf(p)
    BY <1>1, <1>2, <1>4 DEF IsPriceMap
  <2>5. OnTheDay(i) = {} <=> PricesOf(p) = {}
    BY <2>2
  <2>6. \A n \in PricesOf(p) : n > 0 /\ \E row \in OnTheDay(i) : n = row.price
    BY <2>2, <2>3
  <2> HIDE DEF p
  <2>7. price[p] > 0 <=> OnTheDay(i) # {}
    BY <2>4, <2>5, <2>6
  <2>8. OnTheDay(i) # {} => \E row \in OnTheDay(i) : price[p] = row.price
    BY <2>4, <2>5, <2>6
  <2> QED BY <1>2, <1>4, <2>7, <2>8 DEF p
<1> QED BY <1>3, <1>4

(* The total of a response is the sum over items, line by line.            *)
LEMMA TotalCorrect ==
    ASSUME IInv, BomInv, SumInv, AcyclicItems \/ SoldAreRoots
    PROVE  TotalIsOfTheItems
<1> SUFFICES ASSUME bom.given PROVE TotalIsOfTheItems
  BY DEF TotalIsOfTheItems
<1> DEFINE D == {i \in Sold : Priced /\ OnTheDay(i) # {}}
           L == SalesWithPrice
           f == [i \in Ids |-> quantity[i] * price[Item(i).part]]
<1>1. /\ stage = "done" /\ bom.total = Total /\ bom.warnings = Warnings
  BY DEF SumInv, OutputInv
<1>2. /\ included \subseteq Rows /\ included \subseteq Ids /\ IsFiniteSet(included)
      /\ IsFiniteSet(Lines) /\ LoadInv /\ Lines \subseteq included
      /\ Sold \subseteq included /\ Sales \subseteq Sold /\ Sales \subseteq Lines
  BY IncludedAre DEF BomInv, Lines, Sold, Sales
<1>3. \A i \in Rows :
        /\ price[Item(i).part] \in Nat
        /\ price[Item(i).part] > 0 <=> Priced /\ OnTheDay(i) # {}
        /\ Priced /\ OnTheDay(i) # {} =>
                 \E row \in OnTheDay(i) : price[Item(i).part] = row.price
  BY <1>1, PricedItems DEF SumInv
<1>4. \A i \in Sold : /\ leader[i] \in Sales /\ i \in Line(leader[i])
                      /\ Item(leader[i]).part = Item(i).part
  BY <1>1, SoldInLines, InLine DEF Alike
<1>5. L \subseteq D /\ D \subseteq included /\ \A i \in D : leader[i] \in L
  BY <1>2, <1>3, <1>4 DEF SalesWithPrice
<1>6. /\ \A i \in included : quantity[i] \in Nat
      /\ \A i \in included : f[i] = quantity[i] * price[Item(i).part] /\ f[i] \in Int
  <2>1. \A m, n \in Nat : m * n \in Int
    OBVIOUS
  <2>2. \A i \in included : quantity[i] \in Nat
    BY <1>1, <1>2 DEF SumInv, QuantityInv
  <2> QED BY <1>2, <1>3, <2>1, <2>2
<1>7. ASSUME NEW r \in L PROVE Totals[r] = Added(f, {i \in D : leader[i] = r})
  <2>1. r \in Lines /\ r \in Ids /\ r \in Rows /\ Item(r).type = "commercial"
    BY <1>2, <1>7 DEF SalesWithPrice, Sales
  <2>2. ASSUME NEW i \in included, leader[i] = r
        PROVE  i \in D /\ Item(i).part = Item(r).part
    <3>1. Walked(i)
      BY <2>1, <2>2, IdIsNotZero DEF Walked
    <3>2. Alike(i, r)
      BY <2>2, <3>1, InLine
    <3>3. i \in Sold
      BY <2>1, <3>2 DEF Alike, Sold
    <3>4. price[Item(i).part] > 0
      BY <1>7, <3>2 DEF SalesWithPrice, Alike
    <3> QED BY <1>2, <1>3, <3>2, <3>3, <3>4 DEF Alike
  <2>3. {i \in D : leader[i] = r} = Line(r)
    BY <1>5, <2>2 DEF Line
  <2> DEFINE n == price[Item(r).part]
  <2>4. n \in Int /\ IsFiniteSet(Line(r)) /\ Line(r) \subseteq included
    BY <1>3, <2>1, IncludedAre
  <2>5. Numbers(quantity, Line(r)) /\ \A i \in Line(r) : f[i] = quantity[i] * n
    BY <1>1, <1>6, <2>2, <2>4, LineIsPositive DEF SumInv, Line
  <2>6. Totals[r] = Added(quantity, Line(r)) * n
    BY <2>1 DEF Totals, Priceable
  <2> HIDE DEF f, D, n
  <2>7. Added(f, Line(r)) = Added(quantity, Line(r)) * n
    BY <2>4, <2>5, AddedTimes
  <2> QED BY <2>3, <2>6, <2>7
<1> HIDE DEF f, D
<1>8. IsFiniteSet(D) /\ IsFiniteSet(L) /\ Numbers(f, D)
  BY <1>2, <1>5, <1>6, FS_Subset DEF Numbers
<1>9. Added(Totals, L) = Added(f, D)
  <2> HIDE DEF L
  <2>1. \A x \in D : leader[x] \in L
    BY <1>5
  <2> DEFINE of == [r \in L |-> {x \in D : leader[x] = r}]
  <2>2. \A r \in L : \A x : x \in of[r] <=> x \in D /\ leader[x] = r
    OBVIOUS
  <2>3. \A r \in L : Totals[r] = Added(f, of[r])
    BY <1>7
  <2> HIDE DEF of
  <2> QED BY <1>8, <2>1, <2>2, <2>3, AddedByLine
<1>10. CustomTotal = Added(Customs, load.customs) /\ CustomTotal \in Int
  BY <1>2, CustomTotalIs
<1>11. MapThenSumSet(LAMBDA i : quantity[i] * price[Item(i).part], D) = Added(f, D)
  BY <1>5, <1>6, <1>8, AmountsAre
<1>12. L = {} <=> D = {}
  BY <1>5
<1>13. bom.total = IF D = {} /\ load.customs = {} THEN None
                   ELSE Added(f, D) + CustomTotal
  BY <1>1, <1>9, <1>10, <1>12 DEF Total
<1>14. Added(f, D) + CustomTotal \in Int
  BY <1>8, <1>10, AddedFacts
<1>15. bom.total = None <=> D = {} /\ load.customs = {}
  BY <1>13, <1>14, BomAssumption
<1>16. bom.warnings =
          {[part |-> Item(i).part,
            known |-> \E row \in load.pricing.list.rows : row.part = Item(i).part] :
              i \in IF Priced THEN Sold \ D ELSE {}}
  <2>1. CASE ~Priced
    BY <1>1, <2>1 DEF Warnings
  <2>2. CASE Priced
    <3> DEFINE W(i) == [part |-> Item(i).part,
            known |-> \E row \in load.pricing.list.rows : row.part = Item(i).part]
    <3>1. bom.warnings = {W(r) : r \in Sales \ L}
      BY <1>1, <2>2 DEF Warnings, Known
    <3>2. \A r \in Sales \ L : r \in Sold \ D
      BY <1>2, <1>3 DEF SalesWithPrice, D
    <3>3. \A i \in Sold \ D : leader[i] \in Sales \ L /\ W(leader[i]) = W(i)
      <4>1. \A i \in Sold \ D : leader[i] \in Sales \ L
        BY <1>2, <1>3, <1>4 DEF SalesWithPrice, D
      <4> QED BY <1>4, <4>1
    <3> HIDE DEF W
    <3>4. {W(r) : r \in Sales \ L} = {W(i) : i \in Sold \ D}
      BY <3>2, <3>3
    <3> QED BY <2>2, <3>1, <3>4 DEF W
  <2> QED BY <2>1, <2>2
<1>17. \A i \in D : \E row \in OnTheDay(i) : price[Item(i).part] = row.price
  BY <1>2, <1>3 DEF D
<1>18. bom.total # None =>
         bom.total = MapThenSumSet(LAMBDA i : quantity[i] * price[Item(i).part], D)
                       + CustomTotal
  BY <1>11, <1>13
<1> QED BY <1>15, <1>16, <1>17, <1>18, Zenon DEF TotalIsOfTheItems, D, CustomTotal

(* The total is the custom lines and what every item that is sold comes to.*)
THEOREM TotalsAreOfTheItems ==
    BomSpec => [](AcyclicItems \/ SoldAreRoots => TotalIsOfTheItems)
  BY TotalCorrect, SumsHold, PTL

-----------------------------------------------------------------------------
(* What one product takes                                                  *)

(* The item and its ancestors are the smallest set that is closed under    *)
(* parents, and in a BOM without circles no item is among its ancestors.   *)
LEMMA AboveIsLeast ==
    ASSUME BomInv, stage = "done", NEW i \in included
    PROVE  /\ i \in Above(i) /\ Above(i) \subseteq included
           /\ \A k \in Above(i) : ~IsRoot(k) => Parent(k) \in Above(i)
           /\ \A S \in SUBSET Rows :
                i \in S /\ (\A k \in S : IsRoot(k) \/ Parent(k) \in S)
                    => Above(i) \subseteq S
<1>1. Pruned /\ included \in SUBSET Rows
  BY IncludedAre DEF BomInv, DoneInv, Merged
<1>2. \A k \in included : IsRoot(k) \/ Parent(k) \in included
  BY <1>1 DEF Pruned, Orphan
<1>3. \A S \in SUBSET Rows :
        i \in S /\ (\A k \in S : IsRoot(k) \/ Parent(k) \in S)
            => Above(i) \subseteq S
  BY DEF Above
<1>4. Above(i) \subseteq included
  BY <1>1, <1>2, <1>3
<1>5. i \in Above(i)
  BY <1>1 DEF Above
<1>6. ASSUME NEW k \in Above(i), ~IsRoot(k) PROVE Parent(k) \in Above(i)
  <2>1. Parent(k) \in Rows
    BY <1>1, <1>2, <1>4, <1>6
  <2>2. \A S \in SUBSET Rows :
          i \in S /\ (\A l \in S : IsRoot(l) \/ Parent(l) \in S) => k \in S
    BY <1>6 DEF Above
  <2> QED BY <1>6, <2>1, <2>2 DEF Above
<1> QED BY <1>3, <1>4, <1>5, <1>6

(* Above an item are the item and what is above its parent.                *)
LEMMA AboveIs ==
    ASSUME BomInv, stage = "done", NEW i \in included
    PROVE  /\ IsRoot(i) => Above(i) = {i}
           /\ ~IsRoot(i) => /\ Parent(i) \in included
                            /\ Above(i) = {i} \cup Above(Parent(i))
<1>1. Pruned /\ included \in SUBSET Rows
  BY IncludedAre DEF BomInv, DoneInv, Merged
<1>2. CASE IsRoot(i)
  <2>1. {i} \in SUBSET Rows /\ \A k \in {i} : IsRoot(k) \/ Parent(k) \in {i}
    BY <1>1, <1>2
  <2>2. Above(i) \subseteq {i} /\ i \in Above(i)
    BY <2>1, AboveIsLeast
  <2> QED BY <1>2, <2>2
<1>3. CASE ~IsRoot(i)
  <2> DEFINE p == Parent(i)
             S == {i} \cup Above(p)
  <2>1. p \in included
    BY <1>1, <1>3 DEF Pruned, Orphan
  <2>2. /\ p \in Above(p) /\ Above(p) \subseteq included
        /\ \A k \in Above(p) : ~IsRoot(k) => Parent(k) \in Above(p)
    BY <2>1, AboveIsLeast
  <2>3. S \in SUBSET Rows /\ i \in S /\ \A k \in S : IsRoot(k) \/ Parent(k) \in S
    BY <1>1, <2>2
  <2>4. Above(i) \subseteq S
    <3> HIDE DEF S
    <3> QED BY <2>3, AboveIsLeast
  <2>5. /\ i \in Above(i) /\ Above(i) \in SUBSET Rows
        /\ \A k \in Above(i) : IsRoot(k) \/ Parent(k) \in Above(i)
    BY <1>1, AboveIsLeast
  <2>6. p \in Above(i)
    BY <1>3, <2>5
  <2>7. Above(p) \subseteq Above(i)
    <3> HIDE DEF p
    <3> QED BY <2>1, <2>5, <2>6, AboveIsLeast
  <2> QED BY <1>3, <2>1, <2>4, <2>5, <2>7
<1> QED BY <1>2, <1>3

(* Without circles no item is above its parent.                            *)
LEMMA NotItsAncestor ==
    ASSUME BomInv, stage = "done", AcyclicItems, NEW i \in included, ~IsRoot(i)
    PROVE  i \notin Above(Parent(i))
<1> SUFFICES ASSUME i \in Above(Parent(i)) PROVE FALSE
  OBVIOUS
<1> DEFINE p == Parent(i)
           T == {k \in Above(p) : p \in Above(k)}
<1>1. /\ p \in included /\ included \subseteq Rows
      /\ p \in Above(p) /\ Above(p) \subseteq included
      /\ \A k \in Above(p) : ~IsRoot(k) => Parent(k) \in Above(p)
  <2>1. p \in included
    BY AboveIs
  <2> QED BY <2>1, AboveIsLeast, IncludedAre
<1>2. T # {} /\ T \in SUBSET Rows
  BY <1>1
<1>3. ASSUME NEW k \in T PROVE Parent(k) \in T
  <2>1. k \in included
    BY <1>1
  <2>2. /\ IsRoot(k) => Above(k) = {k}
        /\ ~IsRoot(k) => Above(k) = {k} \cup Above(Parent(k))
    BY <2>1, AboveIs
  <2>3. ~IsRoot(p)
    <3>1. IsRoot(p) => Above(p) = {p}
      BY <1>1, AboveIs
    <3> QED BY <3>1
  <2>4. ~IsRoot(k) /\ Parent(k) \in Above(p)
    BY <1>1, <2>2, <2>3
  <2>5. CASE k # p
    BY <2>2, <2>4, <2>5
  <2>6. CASE k = p
    <3>1. Above(p) = {p} \cup Above(Parent(p)) /\ Parent(p) \in included
      BY <1>1, <2>3, AboveIs
    <3>2. CASE i = p
      BY <1>1, <2>4, <2>6, <3>2
    <3>3. CASE i # p
      <4>1. i \in Above(Parent(p))
        BY <3>1, <3>3
      <4>2. p \in Above(Parent(p))
        BY <3>1, <4>1, AboveIsLeast
      <4> QED BY <2>4, <2>6, <4>2
    <3> QED BY <3>2, <3>3
  <2> QED BY <2>5, <2>6
<1> HIDE DEF T
<1> QED BY <1>2, <1>3 DEF AcyclicItems

-----------------------------------------------------------------------------
(* Products                                                                *)

(* A product is that of the other factors and the one.                     *)
LEMMA MultipliedFacts ==
    ASSUME NEW U, IsFiniteSet(U), NEW f, Numbers(f, U)
    PROVE  /\ Multiplied(f, {}) = 1
           /\ \A S \in SUBSET U :
                /\ Multiplied(f, S) \in Int
                /\ \A x \in S : Multiplied(f, S) = f[x] * Multiplied(f, S \ {x})
<1>1. /\ Multiplied(f, {}) = 1
      /\ \A S \in SUBSET U :
            /\ Multiplied(f, S) \in Int
            /\ \A x \in S : Multiplied(f, S) = Multiplying[f[x]][Multiplied(f, S \ {x})]
  <2>1. PICK h : Gathers(h, Multiplying, 1, f, U)
    BY BothInAnyOrder, GatherersExist
  <2>2. \A S \in SUBSET U : Multiplied(f, S) = h[S]
    BY <2>1, BothInAnyOrder, GatheredIs DEF Multiplied
  <2>3. {} \in SUBSET U /\ \A S \in SUBSET U : \A x \in S : S \ {x} \in SUBSET U
    OBVIOUS
  <2> QED BY <2>1, <2>2, <2>3 DEF Gathers
<1>2. \A x \in U : f[x] \in Int
  BY DEF Numbers
<1>3. ASSUME NEW S \in SUBSET U, NEW x \in S
      PROVE  Multiplied(f, S) = f[x] * Multiplied(f, S \ {x})
  <2>1. S \ {x} \in SUBSET U
    OBVIOUS
  <2>2. Multiplied(f, S \ {x}) \in Int /\ f[x] \in Int
    BY <1>1, <1>2, <2>1
  <2>3. \A a, b \in Int : Multiplying[a][b] = a * b
    BY DEF Multiplying
  <2> QED BY <1>1, <2>2, <2>3
<1> QED BY <1>1, <1>3

(* What one product takes of the line above.                               *)
Taken(i) == IF IsRoot(i) THEN 1 ELSE Multiplied(quantity, Above(Level(i)))

(* Where only leaves are merged a parent is a line of its own.             *)
LEMMA ParentsAlone ==
    ASSUME BomInv, stage = "done", AcyclicItems, ~AssembliesMerged,
           NEW i \in included, ~IsRoot(i)
    PROVE  /\ Parent(i) \in included /\ Level(i) = Parent(i)
           /\ leader[Parent(i)] = Parent(i) /\ Line(Parent(i)) = {Parent(i)}
<1>1. Parent(i) \in included
  BY AboveIs
<1>2. Walked(Parent(i)) /\ Walked(i)
  BY <1>1, AllWalked
<1>3. leader[Parent(i)] \in included /\ leader[leader[Parent(i)]] = leader[Parent(i)]
  BY <1>1, <1>2, InLine DEF Lines
<1>4. \A j \in included : leader[j] = leader[Parent(i)] => j = Parent(i)
  BY <1>1 DEF AssembliesMerged
<1>5. leader[Parent(i)] = Parent(i)
  BY <1>3, <1>4
<1>6. Line(Parent(i)) = {Parent(i)}
  BY <1>1, <1>4, <1>5 DEF Line
<1> QED BY <1>1, <1>5, <1>6 DEF Level

(* The product of the quantities up to the root, taken one item further.   *)
LEMMA TakenIs ==
    ASSUME BomInv, QuantityInv, stage = "done", AcyclicItems, ~AssembliesMerged,
           NEW i \in included
    PROVE  /\ Taken(i) \in Int /\ quantity[i] \in Int
           /\ IsFiniteSet(Above(i)) /\ Numbers(quantity, Above(i))
           /\ Multiplied(quantity, Above(i)) = quantity[i] * Taken(i)
<1>1. /\ IsFiniteSet(included) /\ Numbers(quantity, included) /\ quantity[i] \in Int
  BY IncludedAre DEF QuantityInv, Numbers
<1>2. /\ Above(i) \in SUBSET included /\ i \in Above(i)
  BY AboveIsLeast
<1>3. IsFiniteSet(Above(i)) /\ Numbers(quantity, Above(i))
  BY <1>1, <1>2, FS_Subset DEF Numbers
<1>4. Multiplied(quantity, Above(i))
        = quantity[i] * Multiplied(quantity, Above(i) \ {i})
  BY <1>1, <1>2, MultipliedFacts
<1>5. Taken(i) = Multiplied(quantity, Above(i) \ {i})
  <2>1. CASE IsRoot(i)
    <3>1. Above(i) \ {i} = {}
      BY <2>1, AboveIs
    <3>2. Multiplied(quantity, {}) = 1
      BY <1>1, MultipliedFacts
    <3> QED BY <2>1, <3>1, <3>2 DEF Taken
  <2>2. CASE ~IsRoot(i)
    <3>1. Above(i) \ {i} = Above(Parent(i))
      BY <2>2, AboveIs, NotItsAncestor
    <3>2. Level(i) = Parent(i)
      BY <2>2, ParentsAlone
    <3> QED BY <2>2, <3>1, <3>2 DEF Taken
  <2> QED BY <2>1, <2>2
<1>6. Above(i) \ {i} \in SUBSET included
  BY <1>2
<1>7. Multiplied(quantity, Above(i) \ {i}) \in Int
  BY <1>1, <1>6, MultipliedFacts
<1> QED BY <1>1, <1>3, <1>4, <1>5, <1>7

(* All of it and of what it goes into is technical.                        *)
AllTechnical(i) == \A j \in Above(i) : Item(j).type = "technical"

(* A line has a weight if all that it goes into is technical: what one     *)
(* product takes of the line above, times the quantity of the line.        *)
LEMMA WeightsAre ==
    ASSUME BomInv, SumInv, bom.given, AcyclicItems, ~AssembliesMerged
    PROVE  \A i \in included :
             /\ weight[leader[i]] > 0 <=> AllTechnical(i)
             /\ AllTechnical(i) =>
                  weight[leader[i]] = Added(quantity, Line(leader[i])) * Taken(i)
<1> DEFINE P(i) == /\ weight[leader[i]] > 0 <=> AllTechnical(i)
                   /\ AllTechnical(i) =>
                        weight[leader[i]] = Added(quantity, Line(leader[i])) * Taken(i)
           S == {i \in included : ~P(i)}
<1>1. /\ stage = "done" /\ QuantityInv /\ WeightInv
      /\ \A r \in Ids : ~Weighable(r)
  BY DEF SumInv, OutputInv
<1>2. included \subseteq Rows /\ included \subseteq Ids
  BY IncludedAre
<1> SUFFICES ASSUME S # {} PROVE FALSE
  OBVIOUS
<1>3. PICK i \in S : Parent(i) \notin S
  BY <1>2 DEF AcyclicItems
<1> DEFINE r == leader[i]
<1>4. i \in included /\ ~P(i)
  BY <1>3
<1>5. /\ r \in Lines /\ r \in Ids /\ Item(r).type = Item(i).type
      /\ Level(i) = Level(r) /\ (IsRoot(i) <=> IsRoot(r))
  <2>1. Walked(i)
    BY <1>1, <1>4, AllWalked
  <2> QED BY <1>2, <1>4, <2>1, InLine DEF Alike, Lines
<1>6. weight[r] \in Nat
  BY <1>1, <1>5 DEF WeightInv
<1>7. weight[r] > 0 <=> /\ Item(i).type = "technical"
                        /\ ~IsRoot(i) => weight[Level(i)] > 0
  BY <1>1, <1>5, <1>6 DEF WeightInv, Weighable
<1>8. weight[r] > 0 => weight[r] = Added(quantity, Line(r))
                                     * (IF IsRoot(i) THEN 1 ELSE weight[Level(i)])
  BY <1>1, <1>5, <1>6 DEF WeightInv
<1>9. CASE IsRoot(i)
  <2>1. AllTechnical(i) <=> Item(i).type = "technical"
    BY <1>1, <1>4, <1>9, AboveIs DEF AllTechnical
  <2>2. Taken(i) = 1
    BY <1>9 DEF Taken
  <2> QED BY <1>4, <1>7, <1>8, <1>9, <2>1, <2>2
<1>10. CASE ~IsRoot(i)
  <2> DEFINE p == Parent(i)
  <2>1. /\ p \in included /\ Level(i) = p /\ leader[p] = p /\ Line(p) = {p}
    BY <1>1, <1>4, <1>10, ParentsAlone
  <2>2. Above(i) = {i} \cup Above(p)
    BY <1>1, <1>4, <1>10, AboveIs
  <2>3. P(p)
    BY <1>3, <2>1
  <2>4. /\ weight[p] > 0 <=> AllTechnical(p)
        /\ AllTechnical(p) => weight[p] = Added(quantity, Line(p)) * Taken(p)
    BY <2>1, <2>3
  <2>5. AllTechnical(i) <=> Item(i).type = "technical" /\ AllTechnical(p)
    BY <2>2 DEF AllTechnical
  <2>6. Added(quantity, Line(p)) = quantity[p]
    <3>1. IsFiniteSet(included) /\ Numbers(quantity, included)
      BY <1>1, IncludedAre DEF QuantityInv, Numbers
    <3>2. /\ {p} \in SUBSET included /\ p \in {p} /\ {p} \ {p} = {}
      BY <2>1
    <3> HIDE DEF p
    <3>3. Added(quantity, {p}) = quantity[p] + Added(quantity, {p} \ {p})
      BY <3>1, <3>2, AddedFacts
    <3>4. Added(quantity, {p}) = quantity[p] + Added(quantity, {})
      BY <3>2, <3>3, Zenon
    <3>5. Added(quantity, {}) = 0
      BY <3>1, AddedFacts
    <3>6. quantity[p] \in Int
      BY <3>1, <3>2 DEF Numbers
    <3>7. Added(quantity, {p}) = quantity[p]
      BY <3>4, <3>5, <3>6
    <3> QED BY <2>1, <3>7, Zenon
  <2>7. Multiplied(quantity, Above(p)) = quantity[p] * Taken(p)
    BY <1>1, <2>1, TakenIs
  <2>8. Taken(i) = Multiplied(quantity, Above(p))
    BY <1>10, <2>1 DEF Taken
  <2> HIDE DEF p
  <2>9. weight[r] > 0 <=> AllTechnical(i)
    BY <1>7, <1>10, <2>1, <2>4, <2>5
  <2>10. AllTechnical(i) => weight[r] = Added(quantity, Line(r)) * Taken(i)
    BY <1>8, <1>10, <2>1, <2>4, <2>5, <2>6, <2>7, <2>8, <2>9
  <2> QED BY <1>4, <2>9, <2>10
<1> QED BY <1>9, <1>10

(* The weights of the lines of a part are what its items take, line by     *)
(* line; lines without a weight have no items that count.                  *)
LEMMA FlatCorrect ==
    ASSUME BomInv, SumInv
    PROVE  FlatIsExact
<1> SUFFICES ASSUME bom.given, AcyclicItems, ~AssembliesMerged, NEW p \in Parts
             PROVE  bom.flat[p] = Consumption(p)
  BY DEF FlatIsExact
<1> DEFINE S == {i \in included : /\ Item(i).part = p
                                  /\ \A j \in Above(i) : Item(j).type = "technical"}
           L == {r \in Lines : Item(r).part = p}
           Heavy == {r \in L : weight[r] > 0}
           Light == {r \in L : weight[r] = 0}
           f == [i \in Ids |-> quantity[i] * Taken(i)]
<1>1. /\ stage = "done" /\ QuantityInv /\ WeightInv
      /\ bom.flat[p] = Added(weight, L)
  BY DEF SumInv, OutputInv
<1>2. /\ included \subseteq Ids /\ IsFiniteSet(included)
      /\ IsFiniteSet(Lines) /\ Lines \subseteq included
      /\ \A r : IsFiniteSet(Line(r)) /\ Line(r) \subseteq included
  BY IncludedAre DEF Lines
<1>3. \A i \in included :
        /\ Taken(i) \in Int /\ quantity[i] \in Int
        /\ IsFiniteSet(Above(i)) /\ Numbers(quantity, Above(i))
        /\ Multiplied(quantity, Above(i)) = quantity[i] * Taken(i)
  BY <1>1, TakenIs
<1>4. \A i \in included :
        /\ weight[leader[i]] > 0 <=> AllTechnical(i)
        /\ AllTechnical(i) =>
             weight[leader[i]] = Added(quantity, Line(leader[i])) * Taken(i)
  BY WeightsAre
<1>5. \A i \in included :
        /\ leader[i] \in Lines /\ Item(i).part = Item(leader[i]).part
        /\ Taken(i) = Taken(leader[i])
  <2> SUFFICES ASSUME NEW i \in included
               PROVE  /\ leader[i] \in Lines /\ Item(i).part = Item(leader[i]).part
                      /\ Taken(i) = Taken(leader[i])
    OBVIOUS
  <2>1. Walked(i)
    BY <1>1, AllWalked
  <2> QED BY <2>1, InLine DEF Alike, Taken
<1>6. S \subseteq included /\ \A i \in included :
        i \in S <=> Item(i).part = p /\ AllTechnical(i)
  BY DEF AllTechnical
<1>7. \A i \in S : /\ f[i] = quantity[i] * Taken(i) /\ f[i] \in Int
                   /\ f[i] = Multiplied(quantity, Above(i))
  <2>1. \A m, n \in Int : m * n \in Int
    OBVIOUS
  <2> QED BY <1>2, <1>3, <2>1
<1>8. /\ IsFiniteSet(S) /\ Numbers(f, S)
      /\ IsFiniteSet(Heavy) /\ IsFiniteSet(Light) /\ IsFiniteSet(L)
      /\ Heavy \in SUBSET L /\ Light \in SUBSET L /\ Heavy \cap Light = {}
      /\ L = Heavy \cup Light /\ Numbers(weight, L) /\ Numbers(weight, Light)
      /\ \A r \in Light : weight[r] \in Nat /\ weight[r] = 0
  <2>1. IsFiniteSet(S) /\ Numbers(f, S)
    <3> HIDE DEF S, f
    <3> QED BY <1>2, <1>6, <1>7, FS_Subset DEF Numbers
  <2>2. IsFiniteSet(L) /\ \A r \in L : weight[r] \in Nat
    BY <1>1, <1>2, FS_Subset DEF WeightInv
  <2>3. IsFiniteSet(Heavy) /\ IsFiniteSet(Light)
    <3>1. Heavy \in SUBSET L /\ Light \in SUBSET L
      OBVIOUS
    <3> QED BY <2>2, <3>1, FS_Subset
  <2>4. L = Heavy \cup Light
    BY <2>2
  <2> QED BY <2>1, <2>2, <2>3, <2>4 DEF Numbers
<1>9. \A i \in S : leader[i] \in Heavy
  BY <1>4, <1>5, <1>6
<1>10. ASSUME NEW r \in Heavy PROVE weight[r] = Added(f, Line(r)) /\ Line(r) \subseteq S
  <2>1. r \in included /\ leader[r] = r /\ Item(r).part = p /\ weight[r] > 0
    BY <1>2 DEF Lines
  <2>2. \A i \in Line(r) : /\ i \in included /\ leader[i] = r
                           /\ Item(i).part = p /\ AllTechnical(i)
                           /\ Taken(i) = Taken(r)
    BY <1>4, <1>5, <2>1 DEF Line
  <2>3. Line(r) \subseteq S
    BY <1>6, <2>2
  <2>4. \A i \in Line(r) : f[i] = quantity[i] * Taken(r)
    BY <1>7, <2>2, <2>3
  <2>5. weight[r] = Added(quantity, Line(r)) * Taken(r)
    BY <1>4, <2>1
  <2>6. IsFiniteSet(Line(r)) /\ Numbers(quantity, Line(r)) /\ Taken(r) \in Int
    BY <1>2, <1>3, <2>1 DEF Numbers
  <2> HIDE DEF S, f, Heavy
  <2>7. Added(f, Line(r)) = Added(quantity, Line(r)) * Taken(r)
    BY <2>4, <2>6, AddedTimes
  <2> QED BY <2>3, <2>5, <2>7
<1>11. \A r \in Heavy : \A x : x \in Line(r) <=> x \in S /\ leader[x] = r
  BY <1>6, <1>10 DEF Line
<1> HIDE DEF S, L, f, Heavy, Light
<1>12. Added(weight, Heavy) = Added(f, S)
  <2> DEFINE of == [r \in Heavy |-> Line(r)]
  <2>1. \A r \in Heavy : \A x : x \in of[r] <=> x \in S /\ leader[x] = r
    BY <1>11
  <2>2. \A r \in Heavy : weight[r] = Added(f, of[r])
    BY <1>10
  <2> HIDE DEF of
  <2> QED BY <1>8, <1>9, <2>1, <2>2, AddedByLine
<1>13. Added(weight, L) = Added(weight, Heavy) + Added(weight, Light)
  <2>1. Added(weight, Heavy \cup Light) = Added(weight, Heavy) + Added(weight, Light)
    BY <1>8, AddedUnion
  <2> QED BY <1>8, <2>1
<1>14. Added(weight, Light) = 0
  BY <1>8, AddedSign
<1>15. Added(f, S) \in Int
  BY <1>8, AddedFacts
<1>16. Consumption(p) = Added(f, S)
  <2>1. \A i \in S : /\ IsFiniteSet(Above(i)) /\ Numbers(quantity, Above(i))
                     /\ f[i] = Multiplied(quantity, Above(i))
    BY <1>3, <1>6, <1>7
  <2>2. S = {i \in included : /\ Item(i).part = p
                              /\ \A j \in Above(i) : Item(j).type = "technical"}
    BY DEF S
  <2> QED BY <1>8, <2>1, <2>2, ConsumptionIs
<1> QED BY <1>1, <1>12, <1>13, <1>14, <1>15, <1>16

(* Where only leaves are merged the list is what one product takes.        *)
THEOREM FlatIsConsumed == BomSpec => []FlatIsExact
  BY FlatCorrect, SumsHold, PTL
=============================================================================
