SPECIFICATION Spec
CONSTANTS
    WORD = 65536
    ROOT = 4096
    Pages <- MCPages
    VAs <- MCVAs
    PAs <- MCPAs
    Flags <- MCFlags
INVARIANT TranslationIsPhysical
