SPECIFICATION HelperSpec
CONSTANTS
    WORD = 65536
    N = 4
    BYTE = 4
    Widths = {2, 4}
    Steps = 2
INVARIANT AdvanceShrinks
