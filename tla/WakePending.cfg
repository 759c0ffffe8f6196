SPECIFICATION Spec
CONSTANTS
    a1 = a1
    a2 = a2
    ApprovalIds = {a1}
    TTLs = {1}
    TicksPerSecond = 2
    TicksPerDay = 8
    Window = 8
    SinceModes = {"window"}
    Heartbeat = 2
    Limit = 1
    MaxAttempts = 1
    Fallback = 0
    MaxNow = 3
    Faults = {}
    Layers = {"push"}
INVARIANTS
    WakeStatusIsDocumented
