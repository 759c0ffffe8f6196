SPECIFICATION MatchSpec
CONSTANTS
    Schema = {"p", "q"}
    Recipients = {"to"}
    Candidates <- DenyingWindow
    Requests <- MixedArray
    WholeSecond = 2
    MatchFaults = {}
    Unset = Unset
CHECK_DEADLOCK FALSE
INVARIANT ConstraintsAreEnforced
