SPECIFICATION Spec
CONSTANTS
    CARM_MAX_PORTS = 3
    CARM_MAX_REQ = 2
    CARM_MAX_REQ_SG = 2
    CARM_MAX_HOST_SG = 4
    RMSG_Q_LEN = 2
    TAG_SPACE = 2
    WIDTH = 4
    MaxQueue = {1, 2}
    Request <- MCRequest
    SgEntries <- MCEntries
    Scans <- MCScans
    HwDepth = 1
    Arrays = {0, 1}
    MayUnbind = TRUE
CHECK_DEADLOCK FALSE
INVARIANTS
    TypeOK
    Accounting
    AnswersOwnRequest
    WaitersKept
    NoLostWakeup
    HandlersInState
    FsmOwnsState
    ActivatesArrays
    FreedQuiet
PROPERTIES
    ErrorIsFinal
    CalledAgainByDefault
    ProbeEnds
