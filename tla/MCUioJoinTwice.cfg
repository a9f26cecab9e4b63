SPECIFICATION Spec
CONSTANTS
    main = main
    other = other
    r1 = r1
    r2 = r2
    Main = main
    None = None
    Apps <- MCApps
    Regs <- MCRegs
    Modes <- AnyMode
    RegisterFirst = TRUE
    Faults = FALSE
    MaxSessions = 2
INVARIANT JoinsOnce
CHECK_DEADLOCK FALSE
