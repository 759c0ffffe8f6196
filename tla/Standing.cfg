SPECIFICATION SettingsSpec
CONSTANTS
    TicksPerSecond = 1
    s1 = s1
    s2 = s2
    w1 = w1
    w2 = w2
    e1 = e1
    e2 = e2
    r1 = r1
    r2 = r2
    p1 = p1
    p2 = p2
    SAIds = {s1}
    Requests = {q1}
    RequestIds = {r1, r2}
    Params = {p1}
    Grants <- OpenOrShut
    Scopes = {"exact", "any"}
    Workers = {w1, w2}
    Editors = {e1}
    TTLs = {1}
    Delays = {0}
    MaxRows = 1
    MaxNow = 1
    Faults = {"metadata", "audit", "crash"}
    None = None
SYMMETRY Symmetry
INVARIANTS
    TypeOK
    LedgerBalances
    RevocationStopsNewRequests
    DecisionMatchesGrants
PROPERTIES
    RevokedIsFrozen
