SPECIFICATION Spec
CONSTANTS
    c1 = c1
    c2 = c2
    b1 = b1
    b2 = b2
    b3 = b3
    Clients <- MCClients
    Blocks <- MCBlocks
    MaxSize = 2
SYMMETRY Symmetry
INVARIANTS
    TailZeroed
    HeapReachable
    NoSharedBlock
    ExclusiveClaim
    FlagMatchesClaim
PROPERTY
    RefinesVector
CHECK_DEADLOCK FALSE
