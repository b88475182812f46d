SPECIFICATION SASpec
CONSTANTS
    EntryPoint = {"a", "b", "c"}
    Func    <- MCFunc
    Region  <- MCRegion
    Root    <- MCRoot
    Callees <- MCCallees
    Touches <- MCTouches
    Skipped = {"mutex_lock"}
    Pairs   <- MCPairs
CHECK_DEADLOCK FALSE
INVARIANTS
    TypeOK
    PrunedExactly
    SharedRegionsKept
