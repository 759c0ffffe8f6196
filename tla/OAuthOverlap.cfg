SPECIFICATION OAuthSpec
CONSTANTS
    ConnIds = {"o1"}
    Refreshers = {"r1", "r2"}
    MaxSecrets = 6
    OAuthFaults = {}
CHECK_DEADLOCK FALSE
INVARIANT OverlapIsSafe
