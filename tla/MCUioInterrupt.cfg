SPECIFICATION Spec
CONSTANTS
    main = main
    other = other
    r1 = r1
    r2 = r2
    Main = main
    None = None
    Apps <- MCApps
    Regs <- MCRegs
    Modes <- AnyMode
    RegisterFirst = FALSE
    Faults = TRUE
    MaxSessions = 2
SYMMETRY Symmetry
INVARIANTS
    NoUseAfterFree
    NoLostWakeup
    AtMostOneLateIsr
    ExitOnlyOnRequest
    NoDescriptorLeak
CHECK_DEADLOCK FALSE
