SPECIFICATION Spec
CONSTANTS
    a1 = a1
    a2 = a2
    ApprovalIds = {a1}
    TTLs = {3}
    TicksPerSecond = 1
    TicksPerDay = 4
    Window = 4
    SinceModes = {"window"}
    Heartbeat = 2
    Limit = 1
    MaxAttempts = 1
    Fallback = 0
    MaxNow = 7
    Faults = {}
    Layers = {"sweep"}
INVARIANTS
    SweepCatchesExpired
