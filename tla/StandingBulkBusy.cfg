SPECIFICATION Spec
CONSTANTS
    TicksPerSecond = 1
    s1 = s1
    s2 = s2
    w1 = w1
    w2 = w2
    e1 = e1
    e2 = e2
    r1 = r1
    r2 = r2
    p1 = p1
    p2 = p2
    SAIds = {s1}
    Requests = {}
    RequestIds = {r1, r2}
    Params = {p1}
    Grants <- Open
    Scopes = {"exact"}
    Workers = {w1}
    Editors = {}
    TTLs = {1}
    Delays = {0}
    MaxRows = 1
    MaxNow = 1
    Faults = {}
    None = None
SYMMETRY Symmetry
PROPERTIES
    BulkAutoApproves
