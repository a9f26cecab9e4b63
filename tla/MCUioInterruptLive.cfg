SPECIFICATION FairSpec
CONSTANTS
    main = main
    other = other
    r1 = r1
    r2 = r2
    Main = main
    None = None
    Apps <- MCApps
    Regs <- MCRegs
    Modes <- SingleOnly
    RegisterFirst = TRUE
    Faults = FALSE
    MaxSessions = 2
INVARIANT
    IsrGetsItsContext
PROPERTIES
    CleanupCompletes
    InterruptServed
CHECK_DEADLOCK FALSE
