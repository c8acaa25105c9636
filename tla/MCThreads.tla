----------------------------- MODULE MCThreads -----------------------------
(***************************************************************************)
(* The components whose threads interleave, checked side by side: part     *)
(* names the component that takes the steps of a behaviour; the behaviours *)
(* of the whole are those of every component.  Three components are        *)
(* extended, and keep their own variables; those of the others are the     *)
(* first of x1, x2, ...                                                    *)
(***************************************************************************)
EXTENDS Naturals, TLC, StopWorld, TinyFreeLists, Win32Events

CONSTANTS MaxFrames, Tid, Main, Desc, first_thread, NoDesc, MaxGcNo, MaxDontGc,
          Marker, MainMarker, MarkObj, NoObj, HeapShapes, LocalSizes,
          LocalDiscards, EntriesToGet, InitialSize, SizeBound, MaxRoots,
          MaxMarkNo, STid, StackPage, SlotOf, TsEntry, NilEntry, NoQtid,
          MaxValue, WThr, MainThr, NoThr, MAX_THREADS, MaxAttaches, MaxStops,
          StackAt, PageSz, OtherRW, ADDR_LIMIT, MachPort, SelfPort,
          HandlerPort, MaxSpawns, MaxWorldStops, o1, o2, o3, o4, b1, b2, pg1,
          pg2, pg3

\* The component that runs, and the variables of those that are not extended.
VARIABLES part, x1, x2, x3, x4, x5, x6, x7, x8, x9, x10, x11, x12, x13, x14,
          x15, x16

\* Two object graphs: a cycle with a shared child, and a diamond.
MCShapes == {(o1 :> {o2, o3, o4}) @@ (o2 :> {}) @@ (o3 :> {o1}) @@ (o4 :> {o2}),
             (o1 :> {o2, o3}) @@ (o2 :> {o4}) @@ (o3 :> {o4}) @@ (o4 :> {o4})}
\* A heap block of two objects and one of one.
MCBlkOf == (o1 :> b1) @@ (o2 :> b1) @@ (o3 :> b2)
\* Two stack pages that share a slot of the cache, and one that does not.
MCSlotOf == (pg1 :> 1) @@ (pg2 :> 1) @@ (pg3 :> 2)
\* A stack of three pages, and one of two.
MCStackAt == <<<<4, 16>>, <<20, 28>>>>

(***************************************************************************)
(* The components.                                                         *)
(***************************************************************************)
ASSUME StopWorldAssumption
ASSUME TinyFreeListsAssumption
ASSUME Win32EventsAssumption

Stacks == INSTANCE ThreadStacks WITH frames <- x1, stack_end <- x2,
    stack_ptr <- x3, traced_stack_sect <- x4, blocking <- x5, stopped <- x6,
    onAltStack <- x7
ASSUME Stacks!MaxFramesAssumption

Table == INSTANCE ThreadTable WITH os <- x1, wrapped <- x2, osDetached <- x3,
    GC_threads <- x4, dsc <- x5, calls <- x6, me <- x7, GC_dont_gc <- x8,
    gcNo <- x9, inProgress <- x10, pushed <- x11, exitNo <- x12, adopted <- x13
ASSUME Table!ThreadTableAssumption

Marking == INSTANCE ParallelMark WITH kids <- x1, localSize <- x2,
    markBits <- x3, roots <- x4, mstack <- x5, mtop <- x6, msize <- x7,
    tooSmall <- x8, GC_first_nonempty <- x9, markState <- x10,
    GC_help_wanted <- x11, GC_helper_count <- x12, GC_active_count <- x13,
    GC_mark_no <- x14, mk <- x15, sleeping <- x16
ASSUME Marking!ParallelMarkAssumption

Tsd == INSTANCE Specific WITH pages <- x1, expected <- x2, value <- x3,
    bucket <- x4, ent <- x5, cache <- x6, reader <- x7
ASSUME Tsd!SpecificAssumption

Win32 == INSTANCE Win32Threads WITH entry <- x1, GC_max_thread_index_p1 <- x2,
    GC_please_stop <- x3, GC_attached_thread <- x4,
    GC_has_pending_delete_threads <- x5, detachLock <- x6, worldPc <- x7,
    widx <- x8, suspended <- x9, coll <- x10, pushedStacks <- x11,
    attaches <- x12, stops <- x13, staleHandle <- x14
ASSUME Win32!Win32ThreadsAssumption

Win32Stack == INSTANCE Win32Stacks WITH live <- x1, committed <- x2, sp <- x3,
    traced_sect <- x4, last_stack_min <- x5, stackCache <- x6, seen <- x7
ASSUME Win32Stack!Win32StacksAssumption

Darwin == INSTANCE DarwinStop WITH alive <- x1, suspendCnt <- x2, rights <- x3,
    GC_mach_threads <- x4, dpc <- x5, act_list <- x6, prev_list <- x7,
    li <- x8, lj <- x9, changed <- x10, spawns <- x11, worldStops <- x12
ASSUME Darwin!DarwinStopAssumption

\* The variables that a component has no use for.
rest1 == <<x1, x2, x3, x4, x5, x6, x7, x8, x9, x10, x11, x12, x13, x14, x15,
      x16>>
rest8 == <<x8, x9, x10, x11, x12, x13, x14, x15, x16>>
rest13 == <<x13, x14, x15, x16>>
rest14 == <<x14, x15, x16>>
rest15 == <<x15, x16>>
Unused(x) == x = 0
Unused15 == Unused(x15) /\ Unused(x16)
Unused14 == Unused(x14) /\ Unused15
Unused13 == Unused(x13) /\ Unused14
Unused8 == Unused(x8) /\ Unused(x9) /\ Unused(x10) /\ Unused(x11) /\
    Unused(x12) /\ Unused13
Unused1 == Unused(x1) /\ Unused(x2) /\ Unused(x3) /\ Unused(x4) /\
    Unused(x5) /\ Unused(x6) /\ Unused(x7) /\ Unused8

\* The variables of the components that are extended.  One that does not run
\* rests in its initial state.
ownVars == <<stopWorldVars, tinyVars, eventVars>>

ThreadsVars == <<part, ownVars, x1, x2, x3, x4, x5, x6, x7, x8, x9, x10, x11,
          x12, x13, x14, x15, x16>>

ThreadsInit ==
    /\ \/ part \in {"world", "lists", "events"} /\ Unused1
       \/ part = "stacks" /\ Stacks!ThreadStacksInit /\ Unused8
       \/ part = "table" /\ Table!ThreadTableInit /\ Unused14
       \/ part = "marking" /\ Marking!ParallelMarkInit
       \/ part = "specific" /\ Tsd!SpecificInit /\ Unused8
       \/ part = "win32" /\ Win32!Win32ThreadsInit /\ Unused15
       \/ part = "win32stacks" /\ Win32Stack!Win32StacksInit /\ Unused8
       \/ part = "darwin" /\ Darwin!DarwinStopInit /\ Unused13
    /\ StopWorldInit /\ (part # "world" => ~GC_retry_signals)
    /\ TinyInit
    /\ Win32EventsInit

ThreadsNext ==
    \/ part = "world" /\ StopWorldNext /\ UNCHANGED <<part, rest1, tinyVars, eventVars>>
    \/ part = "lists" /\ TinyNext /\ UNCHANGED <<part, rest1, stopWorldVars, eventVars>>
    \/ part = "events" /\ Win32EventsNext /\ UNCHANGED <<part, rest1, stopWorldVars, tinyVars>>
    \/ part = "stacks" /\ Stacks!ThreadStacksNext /\ UNCHANGED <<part, ownVars, rest8>>
    \/ part = "table" /\ Table!ThreadTableNext /\ UNCHANGED <<part, ownVars, rest14>>
    \/ part = "marking" /\ Marking!ParallelMarkNext /\ UNCHANGED <<part, ownVars>>
    \/ part = "specific" /\ Tsd!SpecificNext /\ UNCHANGED <<part, ownVars, rest8>>
    \/ part = "win32" /\ Win32!Win32ThreadsNext /\ UNCHANGED <<part, ownVars, rest15>>
    \/ part = "win32stacks" /\ Win32Stack!Win32StacksNext /\ UNCHANGED <<part, ownVars, rest8>>
    \/ part = "darwin" /\ Darwin!DarwinStopNext /\ UNCHANGED <<part, ownVars, rest13>>

ThreadsSpec == ThreadsInit /\ [][ThreadsNext]_ThreadsVars

\* A collection scans every frame of the client's code, however GC_do_blocking
\* and GC_call_with_gc_active are nested, and reads no popped part of the
\* stack and none of the frames that run while blocking
\* (GC_push_all_stack_sections).
ScannedExactly ==
    part = "stacks" => /\ Stacks!ThreadStacksTypeOK
                       /\ Stacks!ClientFramesScanned
                       /\ Stacks!NothingElseScanned

\* GC_lookup_thread finds every registered thread in an unfinished descriptor
\* of its own, though ids and descriptors are recycled; the descriptor that
\* GC_pthread_join and GC_pthread_detach hold across the system's call is
\* still in the table after it; a finished one stays only until then; and a
\* thread is gone only when the collection during which it unregistered is
\* over.
TableExact ==
    part = "table" => /\ Table!ThreadTableTypeOK
                      /\ Table!RegisteredFound
                      /\ Table!CallsKeepDescriptor
                      /\ Table!NoStrayDescriptor
                      /\ Table!OwnCollectionOver

\* No entry of the mark stack is lost, however the markers steal, return and
\* share them (GC_steal_mark_stack, GC_mark_local, GC_return_mark_stack),
\* GC_helper_count and GC_active_count are exact, and marking that ends
\* without an overflow has marked all that is reachable.
MarkingSound ==
    part = "marking" => /\ Marking!ParallelMarkTypeOK
                        /\ Marking!NoWorkLost
                        /\ Marking!TakenBelowFirst
                        /\ Marking!CountsExact
                        /\ Marking!MarkingComplete

\* GC_getspecific gives a thread what it has set itself, whatever the others
\* race to do with the cache and the chains; an entry a reader can reach under
\* a valid id holds the value of that thread (specific.h).
SpecificSound ==
    part = "specific" => /\ Tsd!SpecificTypeOK
                         /\ Tsd!SpecificIsOwn
                         /\ Tsd!EntriesValid

\* Where threads attach themselves, also while the world is stopped: marking
\* ends only when the stack of every client thread has been pushed, the
\* collector suspends and resumes only threads whose handle is open, and no
\* entry whose thread has detached outlasts the collection.
DiscoverySound ==
    part = "win32" => /\ Win32!Win32ThreadsTypeOK
                      /\ Win32!ClientsPushed
                      /\ Win32!HandlesOpen
                      /\ Win32!PendingDeleted

\* GC_push_stack_for pushes committed memory only, and all that the thread
\* uses of its stack, though its bounds are remembered from an earlier
\* collection; GC_get_next_stack finds the lowest committed address of a
\* stack, though the cache of VirtualQuery may be old.
StackBoundsExact ==
    part = "win32stacks" => /\ Win32Stack!Win32StacksTypeOK
                            /\ Win32Stack!StackPushedExactly
                            /\ Win32Stack!NextStackExact

\* GC_stop_world suspends every thread of the task once, those included that
\* start while it does, and GC_start_world resumes every thread it suspended
\* and gives back every port.
AllStoppedAndResumed ==
    part = "darwin" => /\ Darwin!DarwinStopTypeOK
                       /\ Darwin!AllThreadsStopped
                       /\ Darwin!AllThreadsResumed

\* Threads that play the same part are interchangeable: signalled and attached
\* threads, markers, ports, and the descriptors that threads get.  They have the
\* same names in every component.
ThreadsSymmetry == Permutations(Thr)
=============================================================================
