SPECIFICATION ServicesSpec
CONSTANTS
    TicksPerSecond = 1
    i1 = i1
    i2 = i2
    a1 = a1
    a2 = a2
    w1 = w1
    w2 = w2
    c1 = c1
    c2 = c2
    reg1 = reg1
    reg2 = reg2
    right1 = right1
    wrong1 = wrong1
    p1 = p1
    p2 = p2
    d1 = d1
    d2 = d2
    j1 = j1
    j2 = j2
    k1 = k1
    k2 = k2
    o1 = o1
    o2 = o2
    r1 = r1
    r2 = r2
    Signatures = {reg1, reg2, right1, wrong1}
    Stamp <- MCStamp
    Body <- MCBody
    SigWindow = 1
    SigSkew = 1
    SigTimeout = 1
    Servers = {w1, w2}
    SigFaults = {"crash", "rollback"}
    EndOfTime = 3
    InviteIds = {i1, i2}
    AgentIds = {a1, a2}
    Creators = {c1, c2}
    InviteTTL = 2
    RegisterTTL = 2
    RateWindow = 2
    RateLimit = 1
    MaxAttempts = 1
    NoInvite = NoInvite
    Cards = {"visa"}
    Payers = {p1, p2}
    Charges = {1, 2, 3}
    Amounts = {1, 2}
    Limits = {2}
    PerCharge = {1, 3}
    MonthTicks = 1
    LastTick = 2
    PayFaults = {"record", "crash"}
    NoLimit = NoLimit
    NoCharge = NoCharge
    CardIds = {"visa", "amex", "maestro"}
    Adders = {d1, d2}
    MaxCards = 1
    Alerters = {j1, j2}
    CardFaults = {"crash"}
    Keys = {k1, k2}
    TokenCost = 2
    KeyRate = 1
    KeyBurst = 2
    GlobalRate = 1
    GlobalBurst = 4
    StaleAfter = 2
    SecondTicks = 2
    Horizon = 4
    ConnIds = {o1, o2}
    Refreshers = {r1, r2}
    MaxSecrets = 6
    OAuthFaults = {"provider", "delete", "crash"}
    Schema = {"p", "q"}
    Recipients = {"to"}
    Candidates <- MCCandidates
    Requests <- MCRequests
    WholeSecond = 2
    MatchFaults = {"metadata", "window", "dates"}
    Unset = Unset
SYMMETRY Symmetry
CHECK_DEADLOCK FALSE
INVARIANTS
    HonouredOnce
    InviteAdmitsOne
    InviteLimitHolds
    GuessesAreBounded
    OverspendIsBounded
    RowsAreCharges
    WalletIsSound
    AlertedOnce
    AdmissionsAreBounded
    RejectionsAreFree
    RetryAfterIsHonest
    TokensAreKept
    NoTokenLeftBehind
    MatchIsJustified
    WindowIsKept
PROPERTIES
    AgentsOnlyAdvance
