SPECIFICATION Spec
CONSTANTS
    WORD = 4096
    PAGE_SIZE = 64
    NODE_SZ = 16
    PROPERTY_SZ = 32
    RESERVED_SZ = 16
    Memory = 1200
    HEADER_SZ = 24
    Blobs <- MCBlobs
    BumpMemory <- MCBumpMemory
    MaxArrays = 12
INVARIANTS TypeOK OffsetsInStep OpenNodes CellsInherited ArraysInBounds EveryPropertyRewritten PrintedOnce
PROPERTIES Implements WellFormedIsParsed
