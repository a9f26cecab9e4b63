SPECIFICATION Spec
CONSTANTS
    Argvs <- AllArgvs
    MaxFd = 1
    MaxCalls = 3
INVARIANTS
    DescriptorBalance
    InitOutcome
    NoStaleArguments
    CleanupClosesOwn
CHECK_DEADLOCK FALSE
