SPECIFICATION DebugHeapSpec
CONSTANTS
    GThr = {t, u}
    DObj = {a, b}
    NoDObj = NoDObj
    OBJ_WORDS = 6
    ClientSizes = {1}
    MAX_SMASHED = 3
    MAX_LEAKED = 1
    MaxErrors = 1
INVARIANT NewObjectCleared
CHECK_DEADLOCK FALSE
