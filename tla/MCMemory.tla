------------------------------ MODULE MCMemory ------------------------------
(***************************************************************************)
(* What the collector knows of memory, checked side by side: the growth of *)
(* the heap and its black lists, the sizes of objects and their            *)
(* reallocation, the dirty bits of every kind, the ranges of the isolates, *)
(* the static roots, and initialisation and shutdown.  The component named *)
(* by part takes the steps of a behaviour.  One component is extended, and *)
(* keeps its own variables; those of the others are the first of x1, x2,   *)
(* ...                                                                     *)
(***************************************************************************)
EXTENDS Naturals, TLC, Lifecycle

CONSTANTS Modes, Needs, SystemMem, TopAddr, StartAddr, MAXHINCR_, MINHINCR,
          GC_free_space_divisor, GC_allocd_bytes_per_finalizer,
          MIN_BYTES_BEFORE_COLLECT, RootSize, MaxFo, MaxScratch, MaxAllocd,
          NBlk, PHT_ENTRIES, WORDSZ, GC_all_interior_pointers, FalsePtrs,
          Growth, BlkRequests, BlkAlign, MAXHINCR, GRANULE_BYTES,
          HBLK_GRANULES, TINY_FREELISTS, EXTRA_BYTES_, MaxExtensions, Slot,
          HBLKSIZE_B, GRANULE_B, EXTRA_B, ALIGN_B, ReqSizes, Isolate,
          Incremental, InitialCapacity, Writer, VdbBuilds, NSects, SectBlks,
          HashSize, MaxReads, KernelBuilds, NPg, PgBlks, HeapRanges,
          RootRanges, AlignEntries, VDB_BUF_SZ, GC_GWW_BUF_LEN, PROC_BUF_SZ,
          MaxProcBuf, MaxKernelReads, NWords, AddressSpaces, Builds,
          ClientRanges, MAX_ROOT_SETS, MAX_EXCLUSIONS, MAX_LOAD_SEGS, i1, t1,
          t2

\* The component that runs, and the variables of those that are not extended.
VARIABLES part, x1, x2, x3, x4, x5, x6, x7, x8, x9, x10, x11, x12, x13, x14,
          x15, x16, x17, x18

\* A limited heap on a system whose memory grows upwards, and an incremental
\* collector without automatic collections where it grows downwards.
MCModes ==
    {[incremental |-> FALSE, dont_expand |-> FALSE, autoOff |-> FALSE, max |-> 2, retries |-> 1,
      grows |-> "up"],
     [incremental |-> TRUE, dont_expand |-> FALSE, autoOff |-> TRUE, max |-> 0, retries |-> 0,
      grows |-> "down"]}
\* A false pointer to the inside of objects, and one to their start.
MCFalsePtrs == {<<2, "stack">>, <<5, "normal">>}
MCGrowth == {0..3, 4..6}
\* The heap sections of the isolates.
MCThreeSections == {<<0, 2>>, <<2, 3>>, <<3, 4>>}
MCTwoSections == {<<0, 1>>, <<1, 2>>}
\* How the system tells of writes: signals with and without a spare signal
\* handler, a mach exception port, userfaultfd; the bits of the kernel.
Vdb(v, n, spare) == [vdb |-> v, pageBlks |-> n, spare |-> spare]
MCVdbBuilds == {Vdb("mprotect", 1, FALSE), Vdb("mprotect", 2, TRUE), Vdb("mach", 2, FALSE),
                Vdb("uffd", 2, FALSE)}
MCKernelBuilds == [how : {"soft", "proc", "gww"}, threads : {TRUE}] \cup {[how |-> "soft", threads |-> FALSE]}
MCHeapRanges == <<<<2, 6>>, <<10, 12>>>>
MCRootRanges == <<<<7, 9>>>>
\* Three address spaces: libraries beside each other, one with a read-only
\* part, a stack, a pseudo-file, and memory of the collector.
Mapping(s, e, p, u, r) == [start |-> s, end |-> e, prot |-> p, use |-> u, relro |-> r]
MCAddressSpaces ==
    {[maps |-> <<Mapping(0, 2, "w", "data", <<>>), Mapping(2, 4, "w", "data", <<2, 3>>),
                 Mapping(4, 5, "-", "pseudo", <<>>), Mapping(5, 8, "w", "data", <<>>)>>,
      ours |-> <<<<6, 7>>>>],
     [maps |-> <<Mapping(0, 2, "w", "data", <<>>), Mapping(2, 3, "w", "stack", <<>>),
                 Mapping(4, 8, "w", "data", <<>>)>>,
      ours |-> <<<<6, 7>>, <<4, 5>>>>],
     [maps |-> <<Mapping(2, 3, "w", "data", <<>>)>>, ours |-> <<<<6, 7>>>>]}
MCClientRanges == {<<0, 1>>, <<0, 3>>, <<5, 6>>}

(***************************************************************************)
(* The components.                                                         *)
(***************************************************************************)

Growing == INSTANCE HeapGrowth WITH mode <- x1, dont_gc <- x2, g <- x3,
    req <- x4, scratch <- x5, attempts <- x6
ASSUME Growing!HeapGrowthAssumption

Black == INSTANCE BlackList WITH bl_old <- x1, bl_incomplete <- x2,
    spacing <- x3, hasHdr <- x4, objects <- x5, standing <- x6, gcPhase <- x7,
    visited <- x8, known <- x9, interrupted <- x10
ASSUME Black!BlackListAssumption

Sizes == INSTANCE SizeMap WITH GC_size_map <- x1, extended <- x2
ASSUME Sizes!SizeMapAssumption

Reallocs == INSTANCE Realloc WITH obj <- x1, op <- x2, twice <- x3,
    overrun <- x4
ASSUME Reallocs!ReallocAssumption

Ranges == INSTANCE IsolateRanges WITH NHblks <- 4, Sections <- MCThreeSections,
    HblksPerPage <- 1, range_registry <- x1, range_capacity <- x2,
    heapSects <- x3, decommitted <- x4, failed <- x5
ASSUME Ranges!RangesAssumption

Isolates == INSTANCE VdbIsolate WITH Thread <- Isolate, NHblks <- 2,
    Sections <- MCTwoSections, HblksPerPage <- 1, PendingBound <- 2,
    range_registry <- x1, range_capacity <- x2, heapSects <- x3,
    decommitted <- x4, failed <- x5, prot <- x6, GC_dirty_pages <- x7,
    pending_queue <- x8, pending_capacity <- x9, gcpc <- x10, rescan <- x11,
    wpc <- x12, waddr <- x13, aborted <- x14, written <- x15, overtaken <- x16,
    late <- x17
ASSUME Isolates!RangesAssumption
ASSUME Isolates!ThreadsAssumption

Paged == INSTANCE VdbIsolate WITH Isolate <- {i1}, Incremental <- {i1},
    Thread <- {i1, t1, t2}, NHblks <- 2, HblksPerPage <- 2,
    Sections <- {<<0, 2>>}, PendingBound <- 4, range_registry <- x1,
    range_capacity <- x2, heapSects <- x3, decommitted <- x4, failed <- x5,
    prot <- x6, GC_dirty_pages <- x7, pending_queue <- x8,
    pending_capacity <- x9, gcpc <- x10, rescan <- x11, wpc <- x12,
    waddr <- x13, aborted <- x14, written <- x15, overtaken <- x16, late <- x17
ASSUME Paged!RangesAssumption
ASSUME Paged!ThreadsAssumption

Dirty == INSTANCE DirtyBits WITH vbuild <- x1, vdb <- x2, kind <- x3,
    protect <- x4, uffdwp_registered_sects <- x5, GC_dirty_pages <- x6,
    GC_grungy_pages <- x7, world <- x8, unneeded <- x9, w <- x10, port <- x11,
    mon <- x12, mprotect_state <- x13, deinit <- x14, reads <- x15,
    written <- x16, missed <- x17, overtaken <- x18
ASSUME Dirty!DirtyBitsAssumption

Kernel == INSTANCE KernelVdb WITH kbuild <- x1, inc <- x2, opened <- x3,
    ownPid <- x4, kbits <- x5, grungy <- x6, ever <- x7, procBuf <- x8,
    rd <- x9, window <- x10, kreads <- x11, dirtied <- x12, dirtiedEver <- x13,
    misplaced <- x14
ASSUME Kernel!KernelVdbAssumption

Statics == INSTANCE Roots WITH build <- x1, GC_static_roots <- x2,
    GC_root_size <- x3, GC_excl_table <- x4, space <- x5, permanent <- x6,
    registered_ <- x7

\* The variables that a component has no use for.
rest1 == <<x1, x2, x3, x4, x5, x6, x7, x8, x9, x10, x11, x12, x13, x14, x15,
      x16, x17, x18>>
rest3 == <<x3, x4, x5, x6, x7, x8, x9, x10, x11, x12, x13, x14, x15, x16, x17,
      x18>>
rest5 == <<x5, x6, x7, x8, x9, x10, x11, x12, x13, x14, x15, x16, x17, x18>>
rest6 == <<x6, x7, x8, x9, x10, x11, x12, x13, x14, x15, x16, x17, x18>>
rest7 == <<x7, x8, x9, x10, x11, x12, x13, x14, x15, x16, x17, x18>>
rest8 == <<x8, x9, x10, x11, x12, x13, x14, x15, x16, x17, x18>>
rest11 == <<x11, x12, x13, x14, x15, x16, x17, x18>>
rest15 == <<x15, x16, x17, x18>>
rest18 == <<x18>>
Unused(x) == x = 0
Unused18 == Unused(x18)
Unused15 == Unused(x15) /\ Unused(x16) /\ Unused(x17) /\ Unused18
Unused11 == Unused(x11) /\ Unused(x12) /\ Unused(x13) /\ Unused(x14) /\
    Unused15
Unused8 == Unused(x8) /\ Unused(x9) /\ Unused(x10) /\ Unused11
Unused7 == Unused(x7) /\ Unused8
Unused6 == Unused(x6) /\ Unused7
Unused5 == Unused(x5) /\ Unused6
Unused3 == Unused(x3) /\ Unused(x4) /\ Unused5
Unused1 == Unused(x1) /\ Unused(x2) /\ Unused3

\* The variables of the components that are extended.  One that does not run
\* rests in its initial state.
ownVars == <<lifeVars>>

MemoryVars == <<part, ownVars, x1, x2, x3, x4, x5, x6, x7, x8, x9, x10, x11,
          x12, x13, x14, x15, x16, x17, x18>>

MemoryInit ==
    /\ \/ part \in {"life"} /\ Unused1
       \/ part = "growth" /\ Growing!HeapGrowthInit /\ Unused7
       \/ part = "black" /\ Black!BlackListInit /\ Unused11
       \/ part = "sizes" /\ Sizes!SizeMapInit /\ Unused3
       \/ part = "realloc" /\ Reallocs!ReallocInit /\ Unused5
       \/ part = "ranges" /\ Ranges!InitRanges /\ Unused6
       \/ part = "isolates" /\ Isolates!Init /\ Unused18
       \/ part = "pages" /\ Paged!Init /\ Unused18
       \/ part = "dirty" /\ Dirty!DirtyBitsInit
       \/ part = "kernel" /\ Kernel!KernelVdbInit /\ Unused15
       \/ part = "roots" /\ Statics!RootsInit /\ Unused8
    /\ LifecycleInit /\ (part # "life" => ~isolate)

MemoryNext ==
    \/ part = "life" /\ LifecycleNext /\ UNCHANGED <<part, rest1>>
    \/ part = "growth" /\ Growing!HeapGrowthNext /\ UNCHANGED <<part, ownVars, rest7>>
    \/ part = "black" /\ Black!BlackListNext /\ UNCHANGED <<part, ownVars, rest11>>
    \/ part = "sizes" /\ Sizes!SizeMapNext /\ UNCHANGED <<part, ownVars, rest3>>
    \/ part = "realloc" /\ Reallocs!ReallocNext /\ UNCHANGED <<part, ownVars, rest5>>
    \/ part = "ranges" /\ Ranges!NextRanges /\ UNCHANGED <<part, ownVars, rest6>>
    \/ part = "isolates" /\ Isolates!Next /\ UNCHANGED <<part, ownVars, rest18>>
    \/ part = "pages" /\ Paged!Next /\ UNCHANGED <<part, ownVars, rest18>>
    \/ part = "dirty" /\ Dirty!DirtyBitsNext /\ UNCHANGED <<part, ownVars>>
    \/ part = "kernel" /\ Kernel!KernelVdbNext /\ UNCHANGED <<part, ownVars, rest15>>
    \/ part = "roots" /\ Statics!RootsNext /\ UNCHANGED <<part, ownVars, rest8>>

MemorySpec == MemoryInit /\ [][MemoryNext]_MemoryVars

\* GC_expand_hp_inner never lifts the heap over GC_max_heapsize;
\* GC_collect_or_expand lets an allocation fail only after GC_max_retries
\* collections for want of memory; and every heap section lies within
\* GC_least_plausible_heap_addr and GC_greatest_plausible_heap_addr and shares
\* no block with another (GC_add_to_heap).
GrowthSound ==
    [][part = "growth" => /\ (Growing!HeapGrowthTypeOK /\ Growing!NullOnlyAfterRetries /\ Growing!SectionsPlausible)'
                          /\ Growing!ExpansionLimitedStep]_MemoryVars

\* GC_allochblk_nth places no object where a known false pointer would pin it,
\* unless the request is so large that it gives in; such a pointer keeps its
\* block black-listed as long as it stands, through growths of the heap and
\* abandoned markings (GC_promote_black_lists).
BlackListSound ==
    [][part = "black" => /\ (Black!BlackListTypeOK /\ Black!KnownStaysListed)'
                         /\ Black!AllocationAvoidsKnownStep]_MemoryVars

\* GC_extend_size_map fills every entry with a size that is large enough, in
\* whatever order requests arrive, and the filled entries below the end of a
\* section are at least a quarter of the entries up to there, as its comment
\* says.
SizeMapSound ==
    part = "sizes" => /\ Sizes!SizeMapTypeOK
                      /\ Sizes!EntriesLargeEnough
                      /\ Sizes!SectionsLong

\* GC_realloc keeps what the client wrote, up to the smallest size the object
\* had since; behind the bytes asked for a scanned object holds zeros; and
\* between its two stores, too, the descriptor covers each whole pointer of
\* the request and stays inside the object.
ReallocSound ==
    part = "realloc" => /\ Reallocs!ReallocTypeOK
                        /\ Reallocs!ContentsKept
                        /\ Reallocs!ClearBeyond
                        /\ Reallocs!DescriptorCovers

\* The ranges of vdb_isolate.c are sorted and disjoint and no two of them
\* could be merged; GC_isolate_vdb_classify_fault is right about every
\* address, or says UNKNOWN after a realloc has failed.
RegistrySound ==
    part = "ranges" => /\ Ranges!TypeOKRanges
                       /\ Ranges!RangesNormal
                       /\ Ranges!ClassifySound

\* A write into another isolate's heap goes unrecorded only if the owner
\* claims the page and protects its heap again before the writer's handler
\* unprotects it; GC_write_fault_handler aborts on a write into a live heap
\* only after a realloc has failed; and when the last isolate is gone both
\* registries are empty.
RecoverySound ==
    /\ part = "isolates" => Isolates!TypeOK /\ Isolates!LostOnlyIfOvertaken /\ Isolates!AbortOnlyOnFailure
    /\ part = "pages" => Paged!EmptyAtUnload

\* GC_read_dirty reports every block that was written since the last time, but
\* for the pages of the two races that the monitor thread and fork have with
\* the fault handler; a protected page has someone to unprotect it, in a
\* forked child, too; nobody sets a dirty bit once GC_deinit has cleared them;
\* and GC_mprotect_thread never aborts on a request that is out of order.
DirtyBitsSound ==
    part = "dirty" => /\ Dirty!DirtyBitsTypeOK
                      /\ Dirty!WritesReported
                      /\ Dirty!ProtectedIsCaught
                      /\ Dirty!NoBitAfterDeinit
                      /\ Dirty!MachInOrder

\* soft_set_grungy_pages, GC_proc_read_dirty and GC_gww_read_dirty report
\* every page that was written since the last time, however the kernel splits
\* what it returns, and a page that was ever written stays in
\* GC_written_pages.
KernelVdbSound ==
    part = "kernel" => /\ Kernel!KernelVdbTypeOK
                       /\ Kernel!KernelWritesReported
                       /\ Kernel!EverWrittenKept

\* A root the client registered stays permanent until it is removed, through
\* every merge, split and move of table entries; after
\* GC_register_dynamic_libraries the roots hold all data of the loaded
\* libraries, and the temporary ones nothing unmapped, no stack and no memory
\* of the collector; the roots are pushed without the excluded ranges,
\* exactly; and GC_root_size is their size.
RootsSound ==
    part = "roots" => /\ Statics!RootsTypeOK
                      /\ Statics!PermanentKept
                      /\ Statics!DataRegistered
                      /\ Statics!ExclusionsHonoured
                      /\ Statics!RootSizeExact

\* The threads of every component are interchangeable.
MemorySymmetry == Permutations(Writer)
=============================================================================
