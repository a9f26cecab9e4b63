SPECIFICATION Spec
CONSTANTS
    Argvs <- MCArgvs
    Text = Text
    Page = 4
    MaxLong = 31
    MapBase = 8
    TaskSize = 20
    AppPages = {4, 16}
    MaxCalls = 3
INVARIANTS
    ResourcesBalance
    FirstAddressRight
    RangeMapped
    EntryInRange
    SettingsOfSession
CHECK_DEADLOCK FALSE
