SPECIFICATION TRSpec
CONSTANTS
    Worker = {w1, w2}
    Test   = {t1, t2, t3, t4}
    Chosen = {t1, t2, t3}
    MayDie = FALSE
    MayBeKilled = FALSE
    MayStop = TRUE
CHECK_DEADLOCK FALSE
PROPERTY InterruptExits
