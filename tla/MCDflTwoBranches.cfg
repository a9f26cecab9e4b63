SPECIFICATION Spec
CONSTANTS
    Roms <- TwoBranches
    MaxNodes = 1
    Incr = 8
    MaxScans = 1
INVARIANT ParentIsOwner
CHECK_DEADLOCK FALSE
