SPECIFICATION DirtyBitsSpec
CONSTANTS
    Writer = {s, t}
    VdbBuilds <- MCUffd
    NSects = 1
    SectBlks = 2
    HashSize = 2
    MaxReads = 3
INVARIANT NoWriteMissed
CHECK_DEADLOCK FALSE
