SPECIFICATION ProgressSpec
CONSTANTS
    n1 = n1
    n2 = n2
    a1 = a1
    a2 = a2
    r1 = r1
    r2 = r2
    h1 = h1
    q1 = q1
    w1 = w1
    s1 = s1
    p1 = p1
    None = None
    ApprovalIds = {n1, n2}
    TTLs = {1}
    TicksPerSecond = 2
    TicksPerDay = 4
    Window = 4
    SinceModes = {"window"}
    Heartbeat = 2
    Limit = 1
    MaxAttempts = 2
    Fallback = 0
    MaxNow = 4
    Faults = {"crash", "read", "credentials", "unreachable", "answer"}
    Layers = {"push", "sweep"}
INVARIANTS
    TypeOK
    PushTellsTruth
    OneWakePerApproval
    SweepCatchesDecisions
PROPERTIES
    ExpiryIsPushedInTime
    WatchAlwaysReturns
    ApprovedReachesConnector
    WriteLockIsReleased
