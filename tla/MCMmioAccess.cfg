SPECIFICATION Spec
CONSTANTS
    BeatCounts = {1, 2, 3, 4}
    Base = 4
    Values = {2, 3, 14, 15, 62, 254}
    MaxWrites = 3
    MaxReads = 2
INVARIANTS
    QuietReadRight
    HalvesInOrder
    CounterNotBehind
CHECK_DEADLOCK FALSE
