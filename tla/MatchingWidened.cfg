SPECIFICATION MatchSpec
CONSTANTS
    Schema = {"p", "q"}
    Recipients = {"to"}
    Candidates <- EmptyWindow
    Requests <- MCRequests
    WholeSecond = 2
    MatchFaults = {}
    Unset = Unset
CHECK_DEADLOCK FALSE
INVARIANT NeverWidens
