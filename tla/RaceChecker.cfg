SPECIFICATION Spec
CONSTANTS
    Pair = {p1, p2, p3}
    FindBugs = TRUE
    SkipRaceFreePairs = TRUE
    YieldAll = FALSE
    MaxErrors = 2
CHECK_DEADLOCK FALSE
INVARIANTS
    DoneMeansVerified
    ExitContract
