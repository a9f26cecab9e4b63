SPECIFICATION FairSpec
CONSTANTS
    Roms <- MCRoms
    MaxNodes = 4
    Incr = 4
    MaxScans = 2
INVARIANTS
    WalksAgree
    ListedPerBranch
    StackMirrorsCalls
    StackInBounds
    FirstBranchParent
PROPERTY
    ScanEnds
CHECK_DEADLOCK FALSE
