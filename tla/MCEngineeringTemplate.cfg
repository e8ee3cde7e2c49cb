CONSTANTS
    p1 = p1
    p2 = p2
    p3 = p3
    r1 = r1
    r2 = r2
    None = None
    Parts <- MCParts
    Requests <- MCRequests
    MaxRows = 3
CONSTRAINT Scope
SPECIFICATION FairSpec
INVARIANTS
    TemplateAcyclic
    PairsUniqueAndCatalogued
PROPERTIES
    CyclePathIsReal
    GraphSpec
    EveryRequestEnds
