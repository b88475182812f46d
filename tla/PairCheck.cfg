SPECIFICATION Spec
CONSTANTS
    EntryPoint   <- MCEntryPoint
    PowerLocked  <- MCPowerLocked
    RtnlLocked   <- MCRtnlLocked
    TxLocked     <- MCTxLocked
    CallingPower <- MCCallingPower
    CallingRtnl  <- MCCallingRtnl
    CallingTx    <- MCCallingTx
    DriverLock = {l1, l2}
    MemoryRegion = {M0}
    MapRegion = {M0}
    Address = {a1, a2}
    Pairs <- MCPairs
    MaxCalls = 5
SYMMETRY Symmetry
CHECK_DEADLOCK FALSE
INVARIANTS
    ReportsExactlyUnprotected
    CallMeetsRequires
