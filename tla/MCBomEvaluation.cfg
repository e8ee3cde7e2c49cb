CONSTANTS
    a = a
    b = b
    padded = padded
    m1 = m1
    m2 = m2
    NoValue = NoValue
    N = 3
    Data = {a, b, padded}
    None = NoValue
    Strip <- MCStrip
    Modifiers = {m1, m2}
    Versions <- AllVersions
    p = p
    q = q
    Ids = {1, 2, 3, 4, 5}
    Parts = {p, q}
    Amount <- MCAmount
    Loads <- MCLoads
SPECIFICATION BomSpec
INVARIANTS
    ShownIsOffered
    ReadsAsShown
    CompleteIsAnswered
    RepeatsItself
    KeptWithAncestors
    LinesArePartPaths
    FlatIsExact
    TotalIsOfTheItems
