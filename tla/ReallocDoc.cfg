SPECIFICATION ReallocSpec
CONSTANTS
    Slot = {p, q}
    HBLKSIZE_B = 8
    GRANULE_B = 2
    EXTRA_B = 1
    ALIGN_B = 2
    ReqSizes = {0, 1, 3, 4, 5, 7, 8, 12, 15}
INVARIANT FreedOnce
CHECK_DEADLOCK FALSE
