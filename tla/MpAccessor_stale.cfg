CONSTANTS
    z1 = z1
    z2 = z2
    NULL = NULL
    PatternLists <- MCAnchoredLists
    Records <- MCRecords
    Zones <- MCOneZone
    MaxCalls = 2

SPECIFICATION Spec

INVARIANT RemovalCorrect

CHECK_DEADLOCK FALSE
