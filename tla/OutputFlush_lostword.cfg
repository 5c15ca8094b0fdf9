CONSTANTS
    a = a
    b = b
    h1 = h1
    h2 = h2
    NULL = NULL
    Tasks <- MCOneTask
    Instances <- MCOnlyA
    Handles <- MCHandles
    NoMultiplex <- MCOnlyA
    Threaded <- MCNone
    RetryLimit = 1
    MaxTasks = 1
    Records = 3
    Bytes = 120
    Metered <- MCOnlyA
    Broken <- MCOnlyA
    NoMemory = FALSE

SPECIFICATION FairSpec

PROPERTY TaskEventuallyRetired

CHECK_DEADLOCK FALSE
