SPECIFICATION Spec
CONSTANTS
    EntryPoint   <- MCEntryPoint
    PowerLocked  <- MCPowerLocked
    RtnlLocked   <- MCRtnlLocked
    TxLocked     <- MCTxLocked
    CallingPower <- MCCallingPower
    CallingRtnl  <- MCCallingRtnl
    CallingTx    <- MCCallingTx
    RtnlCallers  <- MCRtnlCallers
    WakesQueue   <- MCWakesQueue
    EP1 = "work"
    EP2 = "suspend"
    DriverLock = {l1}
    MemoryRegion = {M0}
    MapRegion = {M0}
    Address = {a1, a2}
    MaxUsage = 2
SYMMETRY Symmetry
CHECK_DEADLOCK FALSE
INVARIANTS
    TypeOK
    CurrentLocksetHeld
    RaceReported
PROPERTIES
    ReportIsStable
    ThreadsRunEntryPoints
