SPECIFICATION Spec
CONSTANTS
    WORD = 128
    PAGE_SIZE = 8
    HEADER_SZ = 2
    Managed <- ManagedPages
    Requests <- SmallRequests
    MaxAllocs = 3
INVARIANTS TypeOK AllocationsDisjoint AllocationsOwned DestroyFreesAll
