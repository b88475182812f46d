SPECIFICATION Spec
CONSTANTS
    CARM_MAX_PORTS = 3
    CARM_MAX_REQ = 2
    CARM_MAX_REQ_SG = 2
    CARM_MAX_HOST_SG = 4
    RMSG_Q_LEN = 2
    TAG_SPACE = 2
    WIDTH = 4
    MaxQueue = {2}
    Request <- MCRequest
    SgEntries <- MCAnyEntries
    Scans <- MCScans
    HwDepth = 1
    Arrays = {0, 1}
    MayUnbind = FALSE
CHECK_DEADLOCK FALSE
PROPERTY CalledAgain
