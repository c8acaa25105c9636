\* Every component with threads of its own, on a small instance.
SPECIFICATION ThreadsSpec
CONSTANTS
    \* StopWorld
    Thr = {twin1, twin2}
    Suspenders = {twin1, twin2}
    NoThread = NoThread
    MaxStopCount = 7
    MaxSuspends = 1
    MaxLosses = 1
    \* ThreadStacks
    MaxFrames = 8
    \* ThreadTable
    Tid = {m, i}
    Main = m
    Desc = {d1, twin1, twin2}
    first_thread = d1
    NoDesc = NoDesc
    MaxGcNo = 1
    MaxDontGc = 1
    \* ParallelMark
    o1 = o1  o2 = o2  o3 = o3  o4 = o4
    Marker = {m, h}
    MainMarker = m
    MarkObj = {o1, o2, o3, o4}
    NoObj = NoObj
    HeapShapes <- MCShapes
    LocalSizes = {2, 6}
    LocalDiscards = 1
    EntriesToGet = 1
    InitialSize = 2
    SizeBound = 4
    MaxRoots = 1
    MaxMarkNo = 2
    \* TinyFreeLists
    b1 = b1  b2 = b2
    TThr = {s, t}
    Starter = s
    MarkThr = {twin1, twin2}
    TObj = {o1, o2, o3}
    TBlk = {b1, b2}
    TBlkOf <- MCBlkOf
    NoBlk = NoBlk
    NumDirect = 1
    NoOne = NoOne
    \* Specific
    pg1 = pg1  pg2 = pg2  pg3 = pg3
    STid = {s, t}
    StackPage = {pg1, pg2, pg3}
    SlotOf <- MCSlotOf
    TsEntry = {e1, e2}
    NilEntry = NilEntry
    NoQtid = NoQtid
    MaxValue = 2
    \* Win32Threads
    WThr = {twin1, twin2}
    MainThr = m
    NoThr = NoThr
    MAX_THREADS = 3
    MaxAttaches = 3
    MaxStops = 2
    \* Win32Events
    Builder = {a}
    Waiter = w
    Marker_ = m
    Helper = {h}
    MaxEventRounds = 2
    \* Win32Stacks
    StackAt <- MCStackAt
    PageSz = 4
    OtherRW = {16}
    ADDR_LIMIT = 100
    \* DarwinStop
    MachPort = {self, handler, twin1, twin2, r}
    SelfPort = self
    HandlerPort = handler
    MaxSpawns = 4
    MaxWorldStops = 2
SYMMETRY ThreadsSymmetry
INVARIANTS
    WorldIsStopped
    SuspendedStaysSuspended
    OnePlace
    EmulationSound
    ScannedExactly
    TableExact
    MarkingSound
    SpecificSound
    DiscoverySound
    StackBoundsExact
    AllStoppedAndResumed
CHECK_DEADLOCK FALSE
