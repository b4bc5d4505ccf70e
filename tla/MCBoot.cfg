SPECIFICATION BootSpec
CONSTANTS
    WORD = 256
    PAGE_SIZE = 4
    REGION_COUNT = 2
    INITIAL_MEM_BLOCK_COUNT = 6
    REFILL_MARK = 2
    MaxGrants = 0
    Policies <- MCPolicies
    RegionArgs <- MCRegionArgs
    Sizes <- MCSizes
    Alignments <- MCAlignments
    hhdm_base = 128
    Stacks <- MCStacks
    SizeOf <- MCSizeOf
    Loaders <- MCLoaders
INVARIANTS EveryUsableManaged StacksInUsableMemory
PROPERTY ReachesIdle
