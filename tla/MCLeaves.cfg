SPECIFICATION LeavesSpec
CONSTANTS
    WORD = 65536
    ROOT = 4096
    Pages <- MCPages
    VAs <- MCVAs
    PAs <- MCPAs
    Flags <- MCFlags
    Codes = {0, 8, 21, 28}
    ERROR_CODE_GUARD_VALUE = 30
    MaxPushes = 7
    N = 4
    BYTE = 4
    Widths = {2, 4}
    Steps = 2
INVARIANTS TypeOK TablesLinkedOnce MappedAsAsked TranslatedPage OkMeansNoError LoopsExact ViewsClipped PrintsReadBack
