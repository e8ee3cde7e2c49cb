CONSTANTS
    p = p
    q = q
    Conflicts <- Queued
    Parts <- MCParts
    Prices = {1}
    Days <- MCDays
    MaxLists = 2
    MaxItems = 3
SYMMETRY Sym
CONSTRAINT Scope
CHECK_DEADLOCK FALSE
SPECIFICATION Spec
INVARIANTS
    NoTwoPricesADay
