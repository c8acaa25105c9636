\* What must happen in the end, of each component.
SPECIFICATION LiveSpec
CONSTANTS
    o1 = o1  o2 = o2  o3 = o3  o4 = o4  b1 = b1  b2 = b2  iso = iso  th1 = th1  th2 = th2
    mk1 = mk1  mk2 = mk2  mk3 = mk3
    \* StopWorld
    Thr = {th1, th2}
    Suspenders = {th1, th2}
    NoThread = NoThread
    MaxStopCount = 5
    MaxSuspends = 1
    MaxLosses = 1
    \* ParallelMark
    Marker = {mk1, mk2}
    MainMarker = mk1
    MarkObj = {o1, o2, o3, o4}
    NoObj = NoObj
    HeapShapes <- MCShapes
    LocalSizes = {2}
    LocalDiscards = 1
    EntriesToGet = 1
    InitialSize = 2
    SizeBound = 4
    MaxRoots = 1
    MaxMarkNo = 2
    \* TinyFreeLists
    TThr = {th1, th2}
    Starter = th1
    MarkThr = {mk2, mk3}
    TObj = {o1, o2, o3}
    TBlk = {b1, b2}
    TBlkOf <- MCBlkOf
    NoBlk = NoBlk
    NumDirect = 1
    NoOne = NoOne
    \* HeapGrowth
    Modes <- MCModes
    Needs = {1, 2}
    SystemMem = 3
    TopAddr = 7
    StartAddr = 3
    MAXHINCR_ = 2
    MINHINCR = 1
    GC_free_space_divisor = 2
    GC_allocd_bytes_per_finalizer = 2
    MIN_BYTES_BEFORE_COLLECT = 1
    RootSize = 1
    MaxFo = 1
    MaxScratch = 0
    MaxAllocd = 1
    \* DirtyBits
    Writer = {th1, th2}
    VdbBuilds <- MCVdbBuilds
    NSects = 1
    SectBlks = 2
    HashSize = 2
    MaxReads = 1
    \* Win32Threads
    WThr = {th1, th2}
    MainThr = mk1
    NoThr = NoThr
    MAX_THREADS = 2
    MaxAttaches = 2
    MaxStops = 1
PROPERTIES
    
    WaiterGoesOn
CHECK_DEADLOCK FALSE
