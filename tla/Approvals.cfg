SPECIFICATION SettingsSpec
CONSTANTS
    TicksPerSecond = 2
    a1 = a1
    a2 = a2
    r1 = r1
    r2 = r2
    h1 = h1
    h2 = h2
    ApprovalIds = {a1, a2}
    RequestIds = {r1, r2}
    Fingerprints = {f1}
    Groups = {g1}
    Handlers = {h1, h2}
    Requesters = {q1}
    TTLs = {2}
    Cooldown = 2
    MaxNow = 3
    MaxDecisions = 2
    Faults = {"crash", "persist", "confirm"}
    None = None
SYMMETRY Symmetry
INVARIANTS
    TypeOK
    ExecutesAtMostOnce
    OnlyApprovedExecutes
    RecordedResultIsReal
    ToldOneTerminalStatus
    AuditAgreesWithRow
    RequestIdsMatchRows
    CheckedCooldownHolds
PROPERTIES
    ResolutionIsFinal
    GroupOnlyProgresses
    KeepsPromise
