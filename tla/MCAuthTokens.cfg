CONSTANTS
    u1 = u1
    u2 = u2
    r1 = r1
    r2 = r2
    None = None
    Users <- MCUsers
    Requests <- MCRequests
    Conflicts <- Queued
    MaxTokens = 3
SYMMETRY Sym
SPECIFICATION Spec
INVARIANTS
    OneLiveTokenPerSession
    CallersKeepAToken
PROPERTIES
    SessionsSpec
