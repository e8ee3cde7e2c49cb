CONSTANTS
    f = f
    r1 = r1
    r2 = r2
    r3 = r3
    c1 = c1
    c2 = c2
    Rows = {f}
    MaxVersions = 4
    Requests = {r1, r2, r3}
    Conflicts <- Queued
    Readers = {c1, c2}
    TTL = 1
    MaxSize = 1
SYMMETRY Sym
CONSTRAINT Scope
SPECIFICATION CacheSpec
INVARIANTS
    AtMostOneDraft
    AtMostOnePublished
    NumbersFollowLifecycle
    CacheIsExact
    AnswersAreExact
    CacheIsBounded
PROPERTIES
    
    ContractSpec
