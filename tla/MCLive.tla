------------------------------- MODULE MCLive -------------------------------
(***************************************************************************)
(* What must happen in the end, checked for the components side by side    *)
(* under the fairness that their scheduling gives.  The component named by *)
(* part takes the steps of a behaviour; its variables are the first of x1, *)
(* x2, ...                                                                 *)
(***************************************************************************)
EXTENDS Naturals, TLC

CONSTANTS Thr, Suspenders, NoThread, MaxStopCount, MaxSuspends, MaxLosses,
          Marker, MainMarker, MarkObj, NoObj, HeapShapes, LocalSizes,
          LocalDiscards, EntriesToGet, InitialSize, SizeBound, MaxRoots,
          MaxMarkNo, TThr, Starter, MarkThr, TObj, TBlk, TBlkOf, NoBlk,
          NumDirect, NoOne, Modes, Needs, SystemMem, TopAddr, StartAddr,
          MAXHINCR_, MINHINCR, GC_free_space_divisor,
          GC_allocd_bytes_per_finalizer, MIN_BYTES_BEFORE_COLLECT, RootSize,
          MaxFo, MaxScratch, MaxAllocd, Writer, VdbBuilds, NSects, SectBlks,
          HashSize, MaxReads, WThr, MainThr, NoThr, MAX_THREADS, MaxAttaches,
          MaxStops, o1, o2, o3, o4, b1, b2, iso, th1, th2, mk1, mk2, mk3

\* The component that runs, and its variables.
VARIABLES part, x1, x2, x3, x4, x5, x6, x7, x8, x9, x10, x11, x12, x13, x14,
          x15, x16, x17, x18, x19, x20, x21, x22, x23, x24, x25

MCTwoBlocks == (o1 :> 1) @@ (o2 :> 2)
\* Two object graphs: a cycle with a shared child, and a diamond.
MCShapes == {(o1 :> {o2, o3, o4}) @@ (o2 :> {}) @@ (o3 :> {o1}) @@ (o4 :> {o2}),
             (o1 :> {o2, o3}) @@ (o2 :> {o4}) @@ (o3 :> {o4}) @@ (o4 :> {o4})}
\* A heap block of two objects and one of one.
MCBlkOf == (o1 :> b1) @@ (o2 :> b1) @@ (o3 :> b2)
\* A limited heap that may not grow while it collects, and an incremental one.
MCModes == {[incremental |-> FALSE, dont_expand |-> TRUE, autoOff |-> FALSE, max |-> 2, retries |-> 1, grows |-> "up"],
            [incremental |-> TRUE, dont_expand |-> FALSE, autoOff |-> FALSE, max |-> 0, retries |-> 1, grows |-> "down"]}
\* The ways to learn of writes through page faults.
MCVdbBuilds == {[vdb |-> "mprotect", pageBlks |-> 2, spare |-> TRUE],
                [vdb |-> "mach", pageBlks |-> 2, spare |-> FALSE], [vdb |-> "uffd", pageBlks |-> 2, spare |-> FALSE]}

(***************************************************************************)
(* The components.                                                         *)
(***************************************************************************)
Heap == INSTANCE Collector WITH Obj <- {o1, o2}, Root <- {}, Field <- {1},
    Null <- NoObj, NBlocks <- 2, BlockOf <- MCTwoBlocks, Uncollectable <- {},
    Large <- {}, Junk <- {}, Registers <- 2, Incremental <- TRUE,
    ManualVdb <- FALSE, Threads <- 0, KeepStored <- TRUE, StaticVdb <- FALSE,
    InitialMarkStackSize <- 1, MarkStackBound <- 1, Discards <- 1,
    MaxPriorAttempts <- 1, DontGc <- FALSE, MarkOnFree <- FALSE, ptr <- x1,
    stk <- x2, owned <- x3, pend <- x4, marked <- x5, flist <- x6,
    freeBlk <- x7, reclaimq <- x8, GC_dirty_pages <- x9,
    GC_grungy_pages <- x10, GC_mark_state <- x11, GC_scan_ptr <- x12,
    GC_mark_stack <- x13, GC_mark_stack_size <- x14,
    GC_mark_stack_too_small <- x15, GC_objects_are_marked <- x16,
    pushing <- x17, reading <- x18, stackWords <- x19, inRoots <- x20,
    pc <- x21, caller <- x22, mayStop <- x23, GC_is_full_gc <- x24,
    GC_n_attempts <- x25

Paged == INSTANCE VdbIsolate WITH Isolate <- {iso}, Incremental <- {iso},
    Thread <- {iso, th1}, NHblks <- 2, HblksPerPage <- 2, Sections <- {<<0, 2>>},
    InitialCapacity <- 1, PendingBound <- 4, range_registry <- x1,
    range_capacity <- x2, heapSects <- x3, decommitted <- x4, failed <- x5,
    prot <- x6, GC_dirty_pages <- x7, pending_queue <- x8,
    pending_capacity <- x9, gcpc <- x10, rescan <- x11, wpc <- x12,
    waddr <- x13, aborted <- x14, written <- x15, overtaken <- x16, late <- x17

World == INSTANCE StopWorld WITH GC_retry_signals <- x1, GC_stop_count <- x2,
    ackSem <- x3, allocLock <- x4, dirtyLock <- x5, op <- x6, registered <- x7,
    doBlocking <- x8, last_stop_count <- x9, ext_suspend_cnt <- x10,
    suspendSig <- x11, restartSig <- x12, hpc <- x13, my_stop_count <- x14,
    suspend_cnt <- x15, losses <- x16, outrun <- x17
ASSUME World!StopWorldAssumption

Marking == INSTANCE ParallelMark WITH kids <- x1, localSize <- x2,
    markBits <- x3, roots <- x4, mstack <- x5, mtop <- x6, msize <- x7,
    tooSmall <- x8, GC_first_nonempty <- x9, markState <- x10,
    GC_help_wanted <- x11, GC_helper_count <- x12, GC_active_count <- x13,
    GC_mark_no <- x14, mk <- x15, sleeping <- x16
ASSUME Marking!ParallelMarkAssumption

Lists == INSTANCE TinyFreeLists WITH tpc <- x1, tblk <- x2, tiny <- x3,
    direct <- x4, using <- x5, threadsIn <- x6, frozen <- x7, globalFl <- x8,
    reclaimBlks <- x9, freeBlks <- x10, tmarks <- x11,
    GC_fl_builder_count <- x12, holder <- x13, phase <- x14, target <- x15,
    builderAsleep <- x16, markersUp <- x17
ASSUME Lists!TinyFreeListsAssumption

Growing == INSTANCE HeapGrowth WITH mode <- x1, dont_gc <- x2, g <- x3,
    req <- x4, scratch <- x5, attempts <- x6
ASSUME Growing!HeapGrowthAssumption

Dirty == INSTANCE DirtyBits WITH vbuild <- x1, vdb <- x2, kind <- x3,
    protect <- x4, uffdwp_registered_sects <- x5, GC_dirty_pages <- x6,
    GC_grungy_pages <- x7, world <- x8, unneeded <- x9, w <- x10, port <- x11,
    mon <- x12, mprotect_state <- x13, deinit <- x14, reads <- x15,
    written <- x16, missed <- x17, overtaken <- x18

Win32 == INSTANCE Win32Threads WITH entry <- x1, GC_max_thread_index_p1 <- x2,
    GC_please_stop <- x3, GC_attached_thread <- x4,
    GC_has_pending_delete_threads <- x5, detachLock <- x6, worldPc <- x7,
    widx <- x8, suspended <- x9, coll <- x10, pushedStacks <- x11,
    attaches <- x12, stops <- x13, staleHandle <- x14
ASSUME Win32!Win32ThreadsAssumption

\* The variables that a component has no use for.
rest7 == <<x7, x8, x9, x10, x11, x12, x13, x14, x15, x16, x17, x18, x19, x20,
      x21, x22, x23, x24, x25>>
rest15 == <<x15, x16, x17, x18, x19, x20, x21, x22, x23, x24, x25>>
rest17 == <<x17, x18, x19, x20, x21, x22, x23, x24, x25>>
rest18 == <<x18, x19, x20, x21, x22, x23, x24, x25>>
rest19 == <<x19, x20, x21, x22, x23, x24, x25>>
Unused(x) == x = 0
Unused19 == Unused(x19) /\ Unused(x20) /\ Unused(x21) /\ Unused(x22) /\
    Unused(x23) /\ Unused(x24) /\ Unused(x25)
Unused18 == Unused(x18) /\ Unused19
Unused17 == Unused(x17) /\ Unused18
Unused15 == Unused(x15) /\ Unused(x16) /\ Unused17
Unused7 == Unused(x7) /\ Unused(x8) /\ Unused(x9) /\ Unused(x10) /\
    Unused(x11) /\ Unused(x12) /\ Unused(x13) /\ Unused(x14) /\ Unused15

LiveVars == <<part, x1, x2, x3, x4, x5, x6, x7, x8, x9, x10, x11, x12, x13,
          x14, x15, x16, x17, x18, x19, x20, x21, x22, x23, x24, x25>>

LiveInit ==
    \/ part = "heap" /\ Heap!Init
    \/ part = "pages" /\ Paged!Init /\ Unused18
    \/ part = "world" /\ World!StopWorldInit /\ Unused18
    \/ part = "marking" /\ Marking!ParallelMarkInit /\ Unused17
    \/ part = "lists" /\ Lists!TinyInit /\ Unused18
    \/ part = "growth" /\ Growing!HeapGrowthInit /\ Unused7
    \/ part = "dirty" /\ Dirty!DirtyBitsInit /\ Unused19
    \/ part = "win32" /\ Win32!Win32ThreadsInit /\ Unused15

LiveNext ==
    \/ part = "heap" /\ Heap!Next /\ UNCHANGED part
    \/ part = "pages" /\ Paged!Next /\ UNCHANGED <<part, rest18>>
    \/ part = "world" /\ World!StopWorldNext /\ UNCHANGED <<part, rest18>>
    \/ part = "marking" /\ Marking!ParallelMarkNext /\ UNCHANGED <<part, rest17>>
    \/ part = "lists" /\ Lists!TinyNext /\ UNCHANGED <<part, rest18>>
    \/ part = "growth" /\ Growing!HeapGrowthNext /\ UNCHANGED <<part, rest7>>
    \/ part = "dirty" /\ Dirty!DirtyBitsNext /\ UNCHANGED <<part, rest19>>
    \/ part = "win32" /\ Win32!Win32ThreadsNext /\ UNCHANGED <<part, rest15>>

HeapStep(A) == part = "heap" /\ A /\ UNCHANGED part
PagedStep(A) == part = "pages" /\ A /\ UNCHANGED <<part, rest18>>
WorldStep(A) == part = "world" /\ A /\ UNCHANGED <<part, rest18>>
MarkingStep(A) == part = "marking" /\ A /\ UNCHANGED <<part, rest17>>
ListsStep(A) == part = "lists" /\ A /\ UNCHANGED <<part, rest18>>
GrowingStep(A) == part = "growth" /\ A /\ UNCHANGED <<part, rest7>>
DirtyStep(A) == part = "dirty" /\ A /\ UNCHANGED <<part, rest19>>
Win32Step(A) == part = "win32" /\ A /\ UNCHANGED <<part, rest15>>

\* What the scheduling of every component guarantees.  Only one of them moves
\* in a behaviour, so one condition can be about a process of each.  A thread
\* that can run is run, a pending signal is delivered, a handler returns, and
\* the holder of a lock goes on with what it does; a client that allocates
\* keeps calling GC_collect_a_little_inner.  Admitted is for what other
\* threads can put off but not for ever: the debt of work GC_mark_deficit is
\* paid off after finitely many calls, and the spin lock of GC_dirty is not
\* withheld from the thread that stops the world.
Scheduled(n) ==
    \/ n = 1 /\ \/ HeapStep(Heap!LittleStart)
                \/ PagedStep(Paged!GC_initiate_gc(iso))
                \/ WorldStep(World!Holder)
                \/ MarkingStep(Marking!SerialStep)
                \/ ListsStep(Lists!HolderStep)
                \/ GrowingStep(Growing!Answering)
                \/ DirtyStep(Dirty!HandlerStep)
                \/ Win32Step(Win32!ThreadStep(th1))
    \/ n = 2 /\ \/ HeapStep(Heap!LittleStop)
                \/ WorldStep(World!Handler(th1))
                \/ MarkingStep(Marking!MarkerStep(mk1))
                \/ ListsStep((Lists!BuildList(th1) \/ Lists!BuilderDone(th1)))
                \/ DirtyStep(Dirty!MachStep)
                \/ Win32Step(Win32!ThreadStep(th2))
    \/ n = 3 /\ \/ HeapStep(Heap!GC_finish_collection)
                \/ WorldStep(World!Handler(th2))
                \/ MarkingStep(Marking!MarkerStep(mk2))
                \/ ListsStep((Lists!BuildList(th2) \/ Lists!BuilderDone(th2)))
                \/ DirtyStep(Dirty!MonitorStep)
                \/ Win32Step(Win32!CollectorStep)
    \/ n = 4 /\ \/ WorldStep(World!DirtyUnlock(th1))
                \/ MarkingStep(Marking!GC_help_marker(mk2))
                \/ ListsStep(Lists!MarkerUp(mk2))
                \/ DirtyStep(Dirty!ReadStep)
    \/ n = 5 /\ \/ WorldStep(World!DirtyUnlock(th2))
                \/ ListsStep(Lists!MarkerUp(mk3))
Admitted == HeapStep(Heap!GC_mark_some) \/ WorldStep((World!StopAcquireDirty \/ World!SuspendCount))

LiveSpec ==
    /\ LiveInit /\ [][LiveNext]_LiveVars
    /\ SF_LiveVars(Admitted)
    /\ \A n \in 1 .. 5 : WF_LiveVars(Scheduled(n))

Begun ==
    \/ part = "heap" /\ Heap!GC_collection_in_progress
    \/ part = "world" /\ World!Stopping
    \/ part = "marking" /\ Marking!MarkingInParallel
    \/ part = "lists" /\ Lists!LockHeld
    \/ part = "growth" /\ Growing!Requested
    \/ part = "win32" /\ Win32!PleaseStop
Finished ==
    \/ part = "heap" /\ Heap!Finishing
    \/ part = "world" /\ World!WorldStopped
    \/ part = "marking" /\ Marking!MarkingSerially
    \/ part = "lists" /\ ~Lists!LockHeld
    \/ part = "growth" /\ ~Growing!Requested
    \/ part = "win32" /\ Win32!Restarted
\* Whoever has begun something that others wait for finishes it: an
\* incremental collection, however the mutator writes; the stopping of the
\* world, although signals get lost; GC_do_parallel_mark; the holder of the
\* allocator lock that waits for builders of free lists or for starting
\* markers; a request for memory in the loops around GC_collect_or_expand; a
\* collection on Win32, though the holder of DETACH_THREAD_LOCK may be
\* suspended.
HolderFinishes == Begun ~> Finished

Waits ==
    \/ part = "heap" /\ ~Heap!Running
    \/ part = "pages" /\ 0 \in Paged!Queued
    \/ part = "world" /\ World!Sleeps(th2)
    \/ part = "dirty" /\ Dirty!Faulted(th2)
GoesOn ==
    \/ part = "heap" /\ Heap!Running
    \/ part = "pages" /\ Paged!ClaimedOrGone(0)
    \/ part = "world" /\ World!RunsOrSuspended(th2)
    \/ part = "dirty" /\ Dirty!Resumed(th2)
\* Whoever waits goes on: the mutator while the collector marks with the world
\* stopped, also when the mark stack keeps overflowing; a queued page until
\* its owner's next collection claims it, unless its block is unmapped or a
\* handler aborts; a thread that sleeps in the signal handler, unless the
\* client has suspended it; a thread that faults on a protected page.
WaiterGoesOn == Waits ~> GoesOn
=============================================================================
