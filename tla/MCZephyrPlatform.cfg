SPECIFICATION Spec
CONSTANTS
    Tables <- MCTables
    Rom <- MCRom
    CountMod = 5
    AddrMod = 1024
    Isrs = {1, 2}
    MaxInits = 3
    MaxCalls = 3
INVARIANTS
    DiscoveryRight
    AccessReaches
    FlagMatchesKernel
    RegisteredIsCalled
    ModelBufferOwned
CHECK_DEADLOCK FALSE
