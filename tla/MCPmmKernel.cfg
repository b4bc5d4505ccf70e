SPECIFICATION Spec
CONSTANTS
    WORD = 128
    PAGE_SIZE = 4
    REGION_COUNT = 2
    INITIAL_MEM_BLOCK_COUNT = 6
    REFILL_MARK = 2
    MaxGrants = 6
    Policies <- MCPolicies
    RegionArgs <- MCRegionArgs
    Sizes <- MCSizes
    Alignments <- MCAlignments
INVARIANTS TypeOK FreeListExact OnlyOutOfMemoryStops OutOfMemoryHonest
PROPERTY FirstFit
