CONSTANTS
    a = a
    b = b
    h1 = h1
    h2 = h2
    NULL = NULL
    Tasks <- MCTasks
    Instances <- MCInstances
    Handles <- MCHandles
    NoMultiplex <- MCOnlyA
    Threaded <- MCOnlyB
    RetryLimit = 1
    MaxTasks = 2
    Records = 3
    Bytes = 120
    Metered <- MCInstances
    Broken <- MCOnlyA
    NoMemory = TRUE

SYMMETRY HandleSymmetry

SPECIFICATION Spec

INVARIANT TypeOK
INVARIANT UsersCountCoros
INVARIANT ListsAgree
INVARIANT TaskOutlivesCoros
INVARIANT WordNamesItsWriter
INVARIANT FlushGetsOwnParams
INVARIANT RouteCreditedOnce

CHECK_DEADLOCK FALSE
