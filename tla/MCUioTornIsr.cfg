SPECIFICATION Spec
CONSTANTS
    main = main
    other = other
    r1 = r1
    r2 = r2
    Main = main
    None = None
    Apps <- MCApps
    Regs <- MCRegs
    Modes <- SingleOnly
    RegisterFirst = FALSE
    Faults = FALSE
    MaxSessions = 1
INVARIANT IsrGetsItsContext
CHECK_DEADLOCK FALSE
