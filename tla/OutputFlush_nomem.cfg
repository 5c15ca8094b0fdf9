CONSTANTS
    a = a
    b = b
    h1 = h1
    h2 = h2
    NULL = NULL
    Tasks <- MCOneTask
    Instances <- MCOnlyB
    Handles <- MCHandles
    NoMultiplex <- MCNone
    Threaded <- MCOnlyB
    RetryLimit = 1
    MaxTasks = 1
    Records = 3
    Bytes = 120
    Metered <- MCOnlyB
    Broken <- MCNone
    NoMemory = TRUE

SPECIFICATION Spec

INVARIANT EngineSurvives

CHECK_DEADLOCK FALSE
