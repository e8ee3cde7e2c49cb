CONSTANTS
    a = a
    b = b
    m = m
    None = None
    Conflicts <- Queued
    Texts = {a, b}
    Tested = {a}
    Modifiers = {None}
    Max <- MCMax
    MaxVersions = 2
CONSTRAINT Scope
CHECK_DEADLOCK FALSE
SPECIFICATION Spec
INVARIANTS
    FreeFieldsHaveNoValues
    RulesMeanSomethingUnmoved
    BomIsForest
PROPERTIES
    PublishedOnlyGetsFields
    CopyIsStructural
