CONSTANTS
    p1 = p1
    p2 = p2
    p3 = p3
    Parts <- MCParts
    MaxRows = 3
    Limits <- MCLimits
    MaxEdits = 1
SYMMETRY Sym
SPECIFICATION Spec
INVARIANTS
    QuietExplosionIsExact
    WithinLimits
