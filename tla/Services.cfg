\* The services on top of the collector.
SPECIFICATION ServicesSpec
CONSTANTS
    \* Finalize
    ob1 = ob1  ob2 = ob2  ob3 = ob3  ob4 = ob4  lnk1 = lnk1  lnk2 = lnk2  noOb = noOb
    FObj = {ob1, ob2}
    NoFObj = noOb
    FShapes <- MCFShapes
    Link = {lnk1, lnk2}
    LinkIn <- MCLinkIn
    FThr = {t, u}
    GC_interrupt_finalizers = 1
    MaxRegs = 2
    MaxNesting = 1
    \* Typed
    DThr = {t, u}
    Bitmaps <- MCBitmaps
    CPP_WORDSZ_ = 8
    TAG_BITS = 2
    PtrBytes = 1
    ED_INITIAL_SIZE = 3
    MAX_ENV = 7
    OPT_THRESHOLD = 3
    ArrayLens = {0, 1, 2, 5, 13}
    ElemSizes = {1, 2, 3, 9}
    LeafWords = 4
    GranuleWords = 2
    ExtraWords = 0
    Rooms = {1, 4, 20}
    CompBitmaps <- MCCompBitmaps
    MaxDescr = 2
    \* Cords
    SHORT_LIMIT = 2
    SUBSTR_LIMIT = 3
    MAX_LEFT_LEN = 3
    CORD_MAX_DEPTH = 7
    CORD_FUNCTION_BUF_SZ = 2
    STR_START_MAX_LEN = 2
    MaxLen = 8
    MaxOps = 3
    Longest = 8
    \* DebugHeap
    GThr = {t, u}
    DObj = {p, q}
    NoDObj = NoDObj
    OBJ_WORDS = 6
    ClientSizes = {1}
    MAX_SMASHED = 2
    MAX_LEAKED = 1
    MaxErrors = 1
    \* BackGraph
    BObj = {ob1, ob2, ob3, ob4}
    NoBObj = NoBObj
    BObjOrder <- MCOrder
    BShapes <- MCBShapes
    MaxChanges = 1
    BACKGRAPH_MAX_IN = 1
    MAX_BACK_EDGE_STRUCTS = 12
    MaxGcNo = 3
SYMMETRY ServicesSymmetry
INVARIANTS
    TypedSound
    
    LeaksAreReal
    
PROPERTIES
    
    ReportsReal
CHECK_DEADLOCK FALSE
