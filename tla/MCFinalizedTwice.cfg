CONSTANTS
    a = a
    None = None
    l1 = l1
    k1 = k1
    t1 = t1
    t2 = t2
    m1 = m1
    m2 = m2
    r1 = r1
    r2 = r2
    Choices = {a}
    Rows = {}
    MaxVersions = 1
    Requests = {r1, r2}
    Lists = {l1}
    Keys = {k1}
    Terms = {t1}
    Markets = {m1, m2}
    MaxConfigs = 1
    Roles = {"USER"}
    Conflicts <- QueuedButFinalizations
SPECIFICATION Spec
PROPERTIES
    FinalizedIsFrozen
