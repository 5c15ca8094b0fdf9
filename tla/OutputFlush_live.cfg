CONSTANTS
    a = a
    b = b
    h1 = h1
    h2 = h2
    NULL = NULL
    Tasks <- MCOneTask
    Instances <- MCInstances
    Handles <- MCHandles
    NoMultiplex <- MCOnlyA
    Threaded <- MCOnlyB
    RetryLimit = 1
    MaxTasks = 2
    Records = 3
    Bytes = 120
    Metered <- MCInstances
    Broken <- MCNone
    NoMemory = FALSE

SPECIFICATION FairSpec

PROPERTY TaskEventuallyRetired
PROPERTY ImplementsTaskAccounting

CHECK_DEADLOCK FALSE
