SPECIFICATION TRSpec
CONSTANTS
    Worker = {w1, w2, w3}
    Test   = {t1, t2, t3, t4}
    Chosen = {t1, t2, t3}
    MayDie = TRUE
    MayBeKilled = TRUE
    MayStop = TRUE
CHECK_DEADLOCK FALSE
INVARIANTS
    UnfinishedCounts
    ResultsComplete
PROPERTY RunCompletes
