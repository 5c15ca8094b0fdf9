CONSTANTS
    Counts <- MCCounts
    Payload <- MCPayload

SPECIFICATION Spec

INVARIANT TypeOK
PROPERTY PatchStoresCountIffItFits
