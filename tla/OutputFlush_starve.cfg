CONSTANTS
    a = a
    b = b
    h1 = h1
    h2 = h2
    NULL = NULL
    Tasks <- MCTasks
    Instances <- MCOnlyA
    Handles <- MCHandles
    NoMultiplex <- MCOnlyA
    Threaded <- MCOnlyA
    RetryLimit = 1
    MaxTasks = 2
    Records = 3
    Bytes = 120
    Metered <- MCNone
    Broken <- MCNone
    NoMemory = FALSE

SPECIFICATION FairSpec

PROPERTY TaskEventuallyRetired
PROPERTY ImplementsTaskAccounting

CHECK_DEADLOCK FALSE
