SPECIFICATION Spec
CONSTANTS
    WORD = 64
    PAGE_SIZE = 4
    REGION_COUNT = 2
    INITIAL_MEM_BLOCK_COUNT = 7
    REFILL_MARK = 2
    MaxGrants = 3
    Policies <- MCPolicies
    RegionArgs <- MCRegionArgs
    Sizes <- MCSizes
    Alignments <- MCAlignments
INVARIANTS NoOverlap AssertsUnreachable IInv Conservation RequestHonoured
PROPERTY Implements
