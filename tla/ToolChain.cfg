SPECIFICATION Spec
CONSTANTS
    p1 = p1
    p2 = p2
    Pair = {p1, p2}
    OptionSet <- Checking
    LeftOver <- AllLeft
    MayInterrupt = TRUE
CHECK_DEADLOCK FALSE
INVARIANTS
    TimeoutReported
    VerdictEarned
    NoTempsLeft
PROPERTY ChainExits
