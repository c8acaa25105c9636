-------------------------- MODULE MCCollectorModes --------------------------
(***************************************************************************)
(* Two collectors side by side, and mode says which of them runs: the      *)
(* incremental one of a heap with a large and an uncollectable block, whose *)
(* dirty bits cover the static segments, too, and the one that marks only  *)
(* with the world stopped.                                                 *)
(***************************************************************************)
EXTENDS Naturals, Sequences, FiniteSets, TLC

CONSTANTS a, b, c, static, Null, Obj, Field, NBlocks, Registers,
          InitialMarkStackSize, MarkStackBound, Discards

VARIABLES mode, ptr, stk, owned, pend, marked, flist, freeBlk, reclaimq,
          GC_dirty_pages, GC_grungy_pages, GC_mark_state, GC_scan_ptr,
          GC_mark_stack, GC_mark_stack_size, GC_mark_stack_too_small,
          GC_objects_are_marked, pushing, reading, stackWords, inRoots, pc,
          caller, mayStop, GC_is_full_gc, GC_n_attempts

BlockOf == a :> 1 @@ b :> 2 @@ c :> 2

Mixed == INSTANCE Collector WITH Obj <- {a, b}, BlockOf <- a :> 1 @@ b :> 2,
    Root <- {static}, Uncollectable <- {2}, Large <- {1}, Incremental <- TRUE,
    MarkStackBound <- 1, Junk <- {}, ManualVdb <- FALSE, Threads <- 0,
    KeepStored <- TRUE, StaticVdb <- TRUE, MaxPriorAttempts <- 0,
    DontGc <- TRUE, MarkOnFree <- FALSE

Stopped == INSTANCE Collector WITH Root <- {static}, Uncollectable <- {},
    Large <- {}, Incremental <- FALSE, Junk <- {}, ManualVdb <- FALSE,
    Threads <- 0, KeepStored <- TRUE, StaticVdb <- FALSE,
    MaxPriorAttempts <- 0, DontGc <- TRUE, MarkOnFree <- FALSE

ASSUME
    /\ Mixed!HeapAssumption /\ Mixed!ModeAssumption /\ Mixed!MarkStackAssumption
    /\ Stopped!HeapAssumption /\ Stopped!ModeAssumption /\ Stopped!MarkStackAssumption

ModesVars == <<mode, ptr, stk, owned, pend, marked, flist, freeBlk, reclaimq,
               GC_dirty_pages, GC_grungy_pages, GC_mark_state, GC_scan_ptr,
               GC_mark_stack, GC_mark_stack_size, GC_mark_stack_too_small,
               GC_objects_are_marked, pushing, reading, stackWords, inRoots,
               pc, caller, mayStop, GC_is_full_gc, GC_n_attempts>>

ModesInit ==
    \/ mode = "mixed" /\ Mixed!Init
    \/ mode = "stopped" /\ Stopped!Init

ModesNext ==
    \/ mode = "mixed" /\ Mixed!Next /\ UNCHANGED mode
    \/ mode = "stopped" /\ Stopped!Next /\ UNCHANGED mode

ModesSpec == ModesInit /\ [][ModesNext]_ModesVars

\* The incremental collector, whose mark stack overflows all the time: no
\* object that the program can still reach, or owns as uncollectable, is on a
\* free list or in a free block; invariant "I" of gc_pmark.h holds; no pending
\* scan refers to a block that has been released; and marking that skips clean
\* static segments (GC_push_all of GC_push_roots) is complete all the same.
MixedSafe ==
    mode = "mixed" => /\ Mixed!NoLiveReclaimed /\ Mixed!MarkInvariant
                      /\ Mixed!MarkStackInUse /\ Mixed!CompleteAtFinish

\* Without incremental marking a full collection marks only what the program
\* can reach (GC_stopped_mark), whatever was abandoned before it.
StoppedPrecise == mode = "stopped" => Stopped!PreciseMarking

\* GC_grungy_pages is written before it is read again, except in the scan of
\* the rescuers: states that differ in it elsewhere have the same future.
ModesView == <<mode, ptr, stk, owned, pend, marked, flist, freeBlk, reclaimq,
               GC_dirty_pages, GC_mark_state, GC_scan_ptr,
               GC_mark_stack, GC_mark_stack_size, GC_mark_stack_too_small,
               GC_objects_are_marked, pushing, reading, stackWords, inRoots,
               pc, caller, mayStop, GC_is_full_gc, GC_n_attempts,
               IF GC_mark_state = "PUSH_RESCUERS" THEN GC_grungy_pages ELSE {}>>
=============================================================================
