CONSTANTS
    z1 = z1
    z2 = z2
    NULL = NULL
    PatternLists <- MCPatternLists
    Records <- MCRecords
    Zones <- MCZones
    MaxCalls = 2

SPECIFICATION Spec

INVARIANT TypeOK
INVARIANT ReturnTellsModified
INVARIANT OutputWellFormed
INVARIANT RemovalCorrectWhenFresh

CHECK_DEADLOCK FALSE
