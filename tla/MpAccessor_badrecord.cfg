CONSTANTS
    z1 = z1
    z2 = z2
    NULL = NULL
    PatternLists <- MCPatternLists
    Records <- MCRecords
    Zones <- MCZones
    MaxCalls = 1

SPECIFICATION Spec

INVARIANT BadRecordRefused

CHECK_DEADLOCK FALSE
