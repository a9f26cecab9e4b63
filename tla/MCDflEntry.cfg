SPECIFICATION Spec
CONSTANTS
    Lists <- MCLists
    FieldBits = 2
    NextBits = 9
    AddrMod = 4096
    MaxScans = 2
INVARIANTS
    EntriesMatchList
    HeapExact
    CrashOnlyAfterReturn
CHECK_DEADLOCK FALSE
