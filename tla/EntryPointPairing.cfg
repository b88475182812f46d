SPECIFICATION EPPSpec
CONSTANTS
    MaxEntries = 3
    InfoFiles <- MCInfoFiles
CHECK_DEADLOCK FALSE
INVARIANTS
    CoveredOnce
    ClonesMeetNetworkOnly
