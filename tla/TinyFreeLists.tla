---------------------------- MODULE TinyFreeLists ----------------------------
(***************************************************************************)
(* Thread-local free lists (thread_local_alloc.c, GC_FAST_MALLOC_GRANS in  *)
(* gc_inline.h) and the threads that build a free list without the         *)
(* allocator lock (GC_generic_malloc_many in mallocx.c), against the       *)
(* collections that wait for them (GC_wait_for_reclaim), the suspension of *)
(* a thread by the client and the start of the marker threads, which uses  *)
(* the same counter.                                                       *)
(*                                                                         *)
(* The objects are of one size and one kind.  Popping an object of the     *)
(* thread's own list is one step: a collection in the middle of it marks   *)
(* the object twice.  Collections are not incremental here.  A critical    *)
(* section of the mark lock, and one of the allocator lock that does not   *)
(* wait for builders, is one step.                                         *)
(***************************************************************************)
EXTENDS Integers, FiniteSets

CONSTANTS TThr, Starter,    \* threads; the one that starts the markers
          MarkThr,          \* marker threads
          TObj, TBlk, TBlkOf, NoBlk,   \* objects and their heap blocks
          NumDirect,        \* allocations before the first refill (DIRECT_GRANULES)
          NoOne

\* What is assumed of the constants.
TinyFreeListsAssumption ==
    /\ Starter \in TThr /\ NoOne \notin TThr /\ NoBlk \notin TBlk
    /\ TBlkOf \in [TObj -> TBlk] /\ IsFiniteSet(TThr) /\ IsFiniteSet(MarkThr) /\ NumDirect \in Nat

VARIABLES
    tpc, tblk,        \* where a thread is, the block it sweeps or builds
    tiny,             \* its free list
    direct,           \* how many objects it allocated before the first refill
    using,            \* the objects it uses
    threadsIn,        \* registered threads
    frozen,           \* threads suspended by the client
    globalFl,         \* ok_freelist
    reclaimBlks,      \* ok_reclaim_list
    freeBlks,         \* free heap blocks
    tmarks,           \* mark bits of the last collection
    GC_fl_builder_count,
    holder,           \* of the allocator lock, while it waits for builders
    phase, target,    \* what for, and the thread to suspend
    builderAsleep,    \* the holder sleeps in GC_wait_builder
    markersUp         \* marker threads that have started

threadVarsT == <<tpc, tblk, direct, threadsIn, frozen>>
objVars == <<tiny, using, globalFl, reclaimBlks, freeBlks, tmarks>>
waitVars == <<holder, phase, target, builderAsleep, markersUp>>
tinyVars == <<threadVarsT, objVars, GC_fl_builder_count, waitVars>>

In(b) == {o \in TObj : TBlkOf[o] = b}
Building == {"sweep", "build", "dec", "decretry"}
Phases == {"none", "start", "startwait", "wait", "marked", "suspend"}

\* Types of the lists and of the counter.
TinyTypeOK ==
    /\ tpc \in [TThr -> {"run", "many"} \cup Building]
    /\ tblk \in [TThr -> TBlk \cup {NoBlk}] /\ direct \in [TThr -> 0 .. NumDirect]
    /\ tiny \in [TThr -> SUBSET TObj] /\ using \in [TThr -> SUBSET TObj]
    /\ threadsIn \subseteq TThr /\ frozen \subseteq TThr
    /\ globalFl \subseteq TObj /\ tmarks \subseteq TObj
    /\ reclaimBlks \subseteq TBlk /\ freeBlks \subseteq TBlk
    /\ GC_fl_builder_count \in Int
    /\ holder \in TThr \cup {NoOne} /\ phase \in Phases /\ (holder = NoOne <=> phase = "none")
    /\ target \in TThr \cup {NoOne} /\ (phase = "suspend" => target \in TThr)
    /\ builderAsleep \in BOOLEAN /\ markersUp \subseteq MarkThr

TinyInit ==
    /\ tpc = [t \in TThr |-> "run"] /\ tblk = [t \in TThr |-> NoBlk]
    /\ direct = [t \in TThr |-> 0]
    /\ tiny = [t \in TThr |-> {}] /\ using = [t \in TThr |-> {}]
    /\ threadsIn = TThr /\ frozen = {}
    /\ globalFl = {} /\ reclaimBlks = {} /\ freeBlks = TBlk /\ tmarks = {}
    /\ GC_fl_builder_count = 0
    /\ holder = Starter /\ phase = "start" /\ target = NoOne
    /\ builderAsleep = FALSE /\ markersUp = {}

CanRun(t) == t \in threadsIn \ frozen /\ holder # t
Running(t) == CanRun(t) /\ tpc[t] = "run"

(***************************************************************************)
(* Allocation.                                                             *)
(***************************************************************************)
\* GC_FAST_MALLOC_GRANS on a nonempty list.
FastAlloc(t, o) ==
    /\ Running(t) /\ o \in tiny[t]
    /\ tiny' = [tiny EXCEPT ![t] = @ \ {o}]
    /\ using' = [using EXCEPT ![t] = @ \cup {o}]
    /\ UNCHANGED <<threadVarsT, globalFl, reclaimBlks, freeBlks, tmarks, GC_fl_builder_count, waitVars>>

\* The client drops an object.
DropObj(t, o) ==
    /\ Running(t) /\ o \in using[t]
    /\ using' = [using EXCEPT ![t] = @ \ {o}]
    /\ UNCHANGED <<threadVarsT, tiny, globalFl, reclaimBlks, freeBlks, tmarks, GC_fl_builder_count,
                   waitVars>>

\* The first ones come from the global list (GC_malloc_kind_global), refilled by
\* GC_continue_reclaim or from a new block.
GlobalAlloc(t, o) ==
    /\ Running(t) /\ holder = NoOne /\ tiny[t] = {} /\ direct[t] < NumDirect
    /\ LET b == TBlkOf[o]
       IN \/ /\ o \in globalFl /\ globalFl' = globalFl \ {o}
             /\ UNCHANGED <<reclaimBlks, freeBlks>>
          \/ /\ globalFl = {} /\ b \in reclaimBlks /\ o \notin tmarks
             /\ reclaimBlks' = reclaimBlks \ {b} /\ globalFl' = (In(b) \ tmarks) \ {o}
             /\ UNCHANGED freeBlks
          \/ /\ globalFl = {} /\ reclaimBlks = {} /\ b \in freeBlks
             /\ freeBlks' = freeBlks \ {b} /\ globalFl' = In(b) \ {o}
             /\ UNCHANGED reclaimBlks
    /\ using' = [using EXCEPT ![t] = @ \cup {o}]
    /\ direct' = [direct EXCEPT ![t] = @ + 1]
    /\ UNCHANGED <<tpc, tblk, threadsIn, frozen, tiny, tmarks, GC_fl_builder_count, waitVars>>

\* The list is empty: GC_generic_malloc_many is called.
MallocMany(t) ==
    /\ Running(t) /\ tiny[t] = {} /\ direct[t] = NumDirect
    /\ tpc' = [tpc EXCEPT ![t] = "many"]
    /\ UNCHANGED <<tblk, direct, threadsIn, frozen, objVars, GC_fl_builder_count, waitVars>>

TakeBlock(t, b, pc) ==
    /\ GC_fl_builder_count' = GC_fl_builder_count + 1
    /\ tblk' = [tblk EXCEPT ![t] = b] /\ tpc' = [tpc EXCEPT ![t] = pc]
    /\ UNCHANGED <<tiny, globalFl>>

\* With the lock: a block to sweep, the global list, a new block, or nothing.
ManyLocked(t) ==
    /\ CanRun(t) /\ tpc[t] = "many" /\ holder = NoOne
    /\ \/ \E b \in reclaimBlks :
            TakeBlock(t, b, "sweep") /\ reclaimBlks' = reclaimBlks \ {b} /\ UNCHANGED freeBlks
       \/ /\ reclaimBlks = {} /\ globalFl # {}
          /\ \E s \in SUBSET globalFl \ {{}} :
                tiny' = [tiny EXCEPT ![t] = s] /\ globalFl' = globalFl \ s
          /\ tpc' = [tpc EXCEPT ![t] = "run"]
          /\ UNCHANGED <<tblk, reclaimBlks, freeBlks, GC_fl_builder_count>>
       \/ /\ reclaimBlks = {} /\ globalFl = {}
          /\ \E b \in freeBlks :
                TakeBlock(t, b, "build") /\ freeBlks' = freeBlks \ {b} /\ UNCHANGED reclaimBlks
       \/ /\ reclaimBlks = {} /\ globalFl = {} /\ freeBlks = {}
          /\ tpc' = [tpc EXCEPT ![t] = "run"]
          /\ UNCHANGED <<tblk, tiny, globalFl, reclaimBlks, freeBlks, GC_fl_builder_count>>
    /\ UNCHANGED <<direct, threadsIn, frozen, using, tmarks, waitVars>>

\* GC_reclaim_generic or GC_build_fl, without any lock, and the store of the list.
BuildList(t) ==
    /\ CanRun(t) /\ tpc[t] \in {"sweep", "build"}
    /\ LET list == In(tblk[t]) \ (IF tpc[t] = "sweep" THEN tmarks ELSE {})
       IN /\ tiny' = [tiny EXCEPT ![t] = list]
          /\ tpc' = [tpc EXCEPT ![t] = IF list = {} THEN "decretry" ELSE "dec"]
    /\ tblk' = [tblk EXCEPT ![t] = NoBlk]
    /\ UNCHANGED <<direct, threadsIn, frozen, using, globalFl, reclaimBlks, freeBlks, tmarks,
                   GC_fl_builder_count, waitVars>>

\* The count is decremented; the thread returns, or tries the next block.
BuilderDone(t) ==
    /\ CanRun(t) /\ tpc[t] \in {"dec", "decretry"}
    /\ GC_fl_builder_count' = GC_fl_builder_count - 1
    /\ builderAsleep' = (builderAsleep /\ GC_fl_builder_count # 1)
    /\ tpc' = [tpc EXCEPT ![t] = IF @ = "dec" THEN "run" ELSE "many"]
    /\ UNCHANGED <<tblk, direct, threadsIn, frozen, objVars, holder, phase, target, markersUp>>

(***************************************************************************)
(* Registration: GC_init_thread_local, GC_destroy_thread_local.            *)
(***************************************************************************)
\* Mutant: the lists are given back but not cleared, and the thread registers
\* again with them.
LeaveKeepsList(t) ==
    /\ Running(t) /\ holder = NoOne
    /\ threadsIn' = threadsIn \ {t}
    /\ globalFl' = globalFl \cup tiny[t] /\ UNCHANGED tiny
    /\ using' = [using EXCEPT ![t] = {}]
    /\ UNCHANGED <<tpc, tblk, direct, frozen, reclaimBlks, freeBlks, tmarks, GC_fl_builder_count,
                   waitVars>>

Leave(t) ==
    /\ Running(t) /\ holder = NoOne
    /\ threadsIn' = threadsIn \ {t}
    /\ globalFl' = globalFl \cup tiny[t] /\ tiny' = [tiny EXCEPT ![t] = {}]
    /\ using' = [using EXCEPT ![t] = {}]
    /\ UNCHANGED <<tpc, tblk, direct, frozen, reclaimBlks, freeBlks, tmarks, GC_fl_builder_count,
                   waitVars>>

Join(t) ==
    /\ t \notin threadsIn /\ holder = NoOne
    /\ threadsIn' = threadsIn \cup {t} /\ direct' = [direct EXCEPT ![t] = 0]
    /\ UNCHANGED <<tpc, tblk, frozen, objVars, GC_fl_builder_count, waitVars>>

(***************************************************************************)
(* Those who wait for the builders with the allocator lock.                *)
(***************************************************************************)
\* GC_wait_for_reclaim has nothing to wait for.
ReclaimOver == GC_fl_builder_count <= 0

\* GC_wait_builder.
WaitBuilder ==
    /\ phase \in {"startwait", "wait", "suspend"} /\ ~ReclaimOver /\ ~builderAsleep
    /\ builderAsleep' = TRUE
    /\ UNCHANGED <<threadVarsT, objVars, GC_fl_builder_count, holder, phase, target, markersUp>>

\* GC_try_to_collect_inner takes the lock.
CollectLock(t) ==
    /\ Running(t) /\ holder = NoOne
    /\ holder' = t /\ phase' = "wait"
    /\ UNCHANGED <<threadVarsT, objVars, GC_fl_builder_count, target, builderAsleep, markersUp>>

\* The marks of a collection: what the threads use, and their lists
\* (GC_mark_thread_local_free_lists, GC_set_fl_marks).
Reachable == UNION {using[t] \cup tiny[t] : t \in threadsIn}

\* GC_stopped_mark, with the world stopped.
StoppedMark ==
    /\ phase = "wait" /\ ReclaimOver /\ ~builderAsleep
    /\ tmarks' = Reachable
    /\ phase' = "marked"
    /\ UNCHANGED <<threadVarsT, tiny, using, globalFl, reclaimBlks, freeBlks, GC_fl_builder_count,
                   holder, target, builderAsleep, markersUp>>

\* GC_finish_collection, GC_start_reclaim: the world runs.
FinishSweep ==
    /\ phase = "marked"
    /\ globalFl' = {}
    /\ freeBlks' = {b \in TBlk : In(b) \cap tmarks = {}}
    /\ reclaimBlks' = {b \in TBlk : In(b) \cap tmarks # {} /\ ~(In(b) \subseteq tmarks)}
    /\ holder' = NoOne /\ phase' = "none"
    /\ UNCHANGED <<threadVarsT, tiny, using, tmarks, GC_fl_builder_count, target, builderAsleep,
                   markersUp>>

\* GC_suspend_thread.
SuspendLock(t, u) ==
    /\ Running(t) /\ holder = NoOne /\ u \in threadsIn \ (frozen \cup {t})
    /\ holder' = t /\ phase' = "suspend" /\ target' = u
    /\ UNCHANGED <<threadVarsT, objVars, GC_fl_builder_count, builderAsleep, markersUp>>

SuspendAfterWait ==
    /\ phase = "suspend" /\ ReclaimOver /\ ~builderAsleep
    /\ frozen' = frozen \cup {target}
    /\ holder' = NoOne /\ phase' = "none" /\ target' = NoOne
    /\ UNCHANGED <<tpc, tblk, direct, threadsIn, objVars, GC_fl_builder_count, builderAsleep, markersUp>>

ResumeFrozen(t, u) ==
    /\ Running(t) /\ holder = NoOne /\ u \in frozen
    /\ frozen' = frozen \ {u}
    /\ UNCHANGED <<tpc, tblk, direct, threadsIn, objVars, GC_fl_builder_count, waitVars>>

\* A marker thread has its data (GC_mark_thread).
MarkerUp(h) ==
    /\ h \in MarkThr \ markersUp
    /\ markersUp' = markersUp \cup {h}
    /\ GC_fl_builder_count' = GC_fl_builder_count - 1
    /\ builderAsleep' = (builderAsleep /\ GC_fl_builder_count # 1)
    /\ UNCHANGED <<threadVarsT, objVars, holder, phase, target>>

\* GC_wait_for_markers_init.
AddMarkers ==
    /\ phase = "start" /\ phase' = "startwait"
    /\ GC_fl_builder_count' = GC_fl_builder_count + Cardinality(MarkThr)
    /\ UNCHANGED <<threadVarsT, objVars, holder, target, builderAsleep, markersUp>>

MarkersStarted ==
    /\ phase = "startwait" /\ ReclaimOver /\ ~builderAsleep
    /\ holder' = NoOne /\ phase' = "none"
    /\ UNCHANGED <<threadVarsT, objVars, GC_fl_builder_count, target, builderAsleep, markersUp>>

HolderStep == AddMarkers \/ MarkersStarted \/ StoppedMark \/ FinishSweep \/ SuspendAfterWait

TinyNext ==
    \/ \E t \in TThr :
        \/ \E o \in TObj : FastAlloc(t, o) \/ DropObj(t, o) \/ GlobalAlloc(t, o)
        \/ MallocMany(t) \/ ManyLocked(t) \/ BuildList(t) \/ BuilderDone(t)
        \/ Leave(t) \/ Join(t) \/ CollectLock(t)
        \/ \E u \in TThr : SuspendLock(t, u) \/ ResumeFrozen(t, u)
    \/ \E h \in MarkThr : MarkerUp(h)
    \/ HolderStep \/ WaitBuilder

TinySpec == TinyInit /\ [][TinyNext]_tinyVars

(***************************************************************************)
(* Properties.                                                             *)
(***************************************************************************)
\* What a thread is about to put on its list, what it has, what can be
\* allocated from free blocks and from those to be swept.  Between the marking
\* and the sweep of a collection nobody uses the old reclaim list.
Taken(t) ==
    IF tpc[t] = "sweep" THEN In(tblk[t]) \ tmarks
    ELSE IF tpc[t] = "build" THEN In(tblk[t]) ELSE {}
Own(t) == using[t] \cup tiny[t] \cup Taken(t)
InFree == {o \in TObj : TBlkOf[o] \in freeBlks}
ToSweep == {o \in TObj \ tmarks : TBlkOf[o] \in reclaimBlks /\ phase # "marked"}

\* No object is in use twice, on two lists, or on a list while it is in use: the
\* objects a thread takes from its own list without a lock, those it sweeps
\* without the lock and those the collector finds unreachable never meet.
OnePlace ==
    /\ \A t \in TThr :
        /\ using[t] \cap tiny[t] = {} /\ Taken(t) \cap (using[t] \cup tiny[t]) = {}
        /\ Own(t) \cap (globalFl \cup InFree \cup ToSweep) = {}
        /\ \A u \in TThr \ {t} : Own(t) \cap Own(u) = {}
    /\ globalFl \cap InFree = {} /\ globalFl \cap ToSweep = {} /\ InFree \cap ToSweep = {}

\* Nobody builds a free list, nor reads mark bits, while a collection that has
\* waited for the builders marks and starts the sweep, and no suspended thread
\* is one of them.
NoBuilderInCollection ==
    /\ phase = "marked" => \A t \in TThr : tpc[t] \notin Building
    /\ \A t \in frozen : tpc[t] \notin Building

\* The marker threads have all started when the wait for them ends, though
\* some of them decrement the counter before it is raised.
MarkersUpWhenStarted == phase \notin {"start", "startwait"} => markersUp = MarkThr

\* Somebody holds the allocator lock, and may wait for builders with it.
LockHeld == holder # NoOne
=============================================================================
