\* Heap growth, black lists, dirty bits, roots and lives of the collector.
SPECIFICATION MemorySpec
CONSTANTS
    \* HeapGrowth
    Modes <- MCModes
    Needs = {1, 2}
    SystemMem = 3
    TopAddr = 6
    StartAddr = 2
    MAXHINCR_ = 2
    MINHINCR = 1
    GC_free_space_divisor = 2
    GC_allocd_bytes_per_finalizer = 2
    MIN_BYTES_BEFORE_COLLECT = 1
    RootSize = 1
    MaxFo = 0
    MaxScratch = 1
    MaxAllocd = 2
    \* BlackList
    NBlk = 7
    PHT_ENTRIES = 6
    WORDSZ = 2
    GC_all_interior_pointers = FALSE
    FalsePtrs <- MCFalsePtrs
    Growth <- MCGrowth
    BlkRequests = {2, 4}
    BlkAlign = {1, 2}
    MAXHINCR = 4
    \* SizeMap
    GRANULE_BYTES = 2
    HBLK_GRANULES = 64
    TINY_FREELISTS = 9
    EXTRA_BYTES_ = 1
    MaxExtensions = 9
    \* Realloc
    Slot = {r1, r2}
    HBLKSIZE_B = 8
    GRANULE_B = 2
    EXTRA_B = 1
    ALIGN_B = 2
    ReqSizes = {0, 1, 3, 4, 5, 7, 8, 12, 15}
    \* IsolateRanges, VdbIsolate
    i1 = i1  t1 = t1  t2 = t2
    Isolate = {s, t}
    Incremental = {s, t}
    InitialCapacity = 1
    \* DirtyBits
    Writer = {s, t}
    VdbBuilds <- MCVdbBuilds
    NSects = 1
    SectBlks = 2
    HashSize = 2
    MaxReads = 3
    \* KernelVdb
    KernelBuilds <- MCKernelBuilds
    NPg = 6
    PgBlks = 2
    HeapRanges <- MCHeapRanges
    RootRanges <- MCRootRanges
    AlignEntries = 4
    VDB_BUF_SZ = 4
    GC_GWW_BUF_LEN = 2
    PROC_BUF_SZ = 1
    MaxProcBuf = 8
    MaxKernelReads = 2
    \* Roots
    NWords = 8
    AddressSpaces <- MCAddressSpaces
    Builds = {"phdr", "maps", "query", "plain", "dyld"}
    ClientRanges <- MCClientRanges
    MAX_ROOT_SETS = 6
    MAX_EXCLUSIONS = 2
    MAX_LOAD_SEGS = 2
    \* Lifecycle
    LThr = {s, t}
    HeapSect = {s1, s2}
    KBlk = {b1}
    MAXOBJKINDS = 11
    MaxLives = 2
    MaxClientKinds = 1
SYMMETRY MemorySymmetry
INVARIANTS
    LivesApart
    SizeMapSound
    ReallocSound
    
    RecoverySound
    DirtyBitsSound
    
    
PROPERTIES
    GrowthSound
    
CHECK_DEADLOCK FALSE
