CONSTANTS
    MaxDepth = 2
    MaxEntries = 2
    Scalars <- MCScalars

SPECIFICATION Spec

INVARIANT TypeOK
INVARIANT ClosedBufferDecodes
PROPERTY HeaderEndInPlace

CHECK_DEADLOCK FALSE
