------------------------------ MODULE Collector ------------------------------
(***************************************************************************)
(* The mark-sweep collector of one heap: the mutator's loads, stores,      *)
(* allocations and frees (malloc.c, new_hblk.c, mallocx.c), the collection *)
(* control (alloc.c), the mark-state machine with its overflowing mark     *)
(* stack (mark.c), virtual dirty bits (os_dep.c) and lazy sweeping         *)
(* (reclaim.c).                                                            *)
(*                                                                         *)
(* Objects live in heap blocks, numbered in address order; a block is also *)
(* the unit of dirtying.  A static root segment is a node of its own.  An  *)
(* object that is neither on a free list nor in a free block is in use: it *)
(* is live, or it is garbage that no sweep has found yet.                  *)
(***************************************************************************)
EXTENDS HeapGraph, Naturals, Sequences, FiniteSets

CONSTANTS
    NBlocks,          \* number of heap blocks
    BlockOf,          \* the block of every object slot
    Uncollectable,    \* blocks of an uncollectable kind
    Large,            \* blocks that hold one large object
    Junk,             \* objects that stray words of the stack may point to
    Registers,        \* bound on the pointers the threads hold at a time
    Incremental,      \* GC_incremental
    ManualVdb,        \* GC_manual_vdb: the client calls GC_dirty after a store
    Threads,          \* mutator threads that may be between store and GC_dirty
    KeepStored,       \* the client keeps the stored pointer until GC_dirty
    StaticVdb,        \* GC_is_vdb_for_static_roots()
    InitialMarkStackSize,  \* INITIAL_MARK_STACK_SIZE
    MarkStackBound,   \* bound on the size alloc_mark_stack can reach
    Discards,         \* GC_MARK_STACK_DISCARDS
    MaxPriorAttempts, \* max_prior_attempts
    DontGc,           \* the client may set GC_dont_gc
    MarkOnFree        \* ESCARGOT_USE_32BIT_IN_64BIT

Block == 1..NBlocks
ObjsOf(b) == {o \in Obj : BlockOf[o] = b}
Page(n) == IF n \in Obj THEN BlockOf[n] ELSE n

ASSUME HeapAssumption ==
    /\ NBlocks \in Nat
    /\ BlockOf \in [Obj -> Block]
    /\ Root \cap Block = {}
    /\ IsFiniteSet(Obj)
    /\ Uncollectable \subseteq Block /\ Large \subseteq Block
    /\ Large \cap Uncollectable = {}
    /\ \A b \in Large : \E o \in Obj : ObjsOf(b) = {o}
    /\ Junk \subseteq Obj
ASSUME ModeAssumption ==
    /\ {Incremental, ManualVdb, KeepStored, StaticVdb, DontGc, MarkOnFree} \subseteq BOOLEAN
    /\ StaticVdb => Incremental /\ ~ManualVdb
    /\ ManualVdb => Incremental
ASSUME MarkStackAssumption ==
    /\ InitialMarkStackSize \in Nat /\ Discards \in Nat /\ MarkStackBound \in Nat
    /\ 1 <= Discards /\ Discards <= InitialMarkStackSize
    /\ MaxPriorAttempts \in Nat /\ Threads \in Nat /\ Registers \in Nat

VARIABLES
    ptr,        \* the heap graph: what every field of every node points to
    stk,        \* objects the threads' stacks and registers point to
    owned,      \* uncollectable objects the client has not freed
    pend,       \* manual VDB: <<n, v>> stored, GC_dirty(n) not called yet
    marked,     \* set mark bits
    flist,      \* objects on a free list
    freeBlk,    \* free blocks
    reclaimq,   \* blocks on a reclaim list, to be swept by an allocation
    GC_dirty_pages,
    GC_grungy_pages,
    GC_mark_state,
    GC_scan_ptr,             \* 0 is NULL
    GC_mark_stack,
    GC_mark_stack_size,
    GC_mark_stack_too_small,
    GC_objects_are_marked,
    pushing,    \* nodes the current GC_mark_some call has still to push
    reading,    \* fields the current call has still to read in GC_mark_from
    stackWords, \* stack words the current call has still to mark from
    inRoots,    \* the current call is in GC_push_roots
    pc,         \* where the collector is
    caller,     \* who called GC_stopped_mark
    mayStop,    \* its stop_func can return TRUE
    GC_is_full_gc,
    GC_n_attempts

heapVars == <<ptr, stk, owned, pend>>
blockVars == <<flist, freeBlk, reclaimq>>
dirtyVars == <<GC_dirty_pages, GC_grungy_pages>>
stackVars == <<GC_mark_stack, GC_mark_stack_size, GC_mark_stack_too_small>>
callVars == <<pushing, reading, stackWords, inRoots>>
ctlVars == <<pc, caller, mayStop, GC_is_full_gc, GC_n_attempts>>
markVars == <<marked, GC_mark_state, GC_scan_ptr, GC_objects_are_marked>>
vars == <<heapVars, blockVars, dirtyVars, stackVars, callVars, ctlVars, markVars>>

MarkStates == {"NONE", "PUSH_RESCUERS", "PUSH_UNCOLLECTABLE", "ROOTS_PUSHED",
               "PARTIALLY_INVALID", "INVALID"}

(* Type correctness; the mark stack never exceeds its size. *)
TypeOK ==
    /\ ptr \in Graphs
    /\ stk \subseteq Obj /\ marked \subseteq Obj /\ flist \subseteq Obj
    /\ owned \subseteq Obj /\ pend \subseteq Obj \X Obj
    /\ freeBlk \subseteq Block /\ reclaimq \subseteq Block
    /\ GC_dirty_pages \subseteq Block \cup Root
    /\ GC_grungy_pages \subseteq Block \cup Root
    /\ GC_mark_state \in MarkStates
    /\ GC_scan_ptr \in 0..NBlocks + 1
    /\ GC_mark_stack \in Seq(Node)
    /\ GC_mark_stack_size \in Nat /\ GC_mark_stack_size >= InitialMarkStackSize
    /\ Len(GC_mark_stack) <= GC_mark_stack_size
    /\ GC_mark_stack_too_small \in BOOLEAN /\ GC_objects_are_marked \in BOOLEAN
    /\ inRoots \in BOOLEAN /\ mayStop \in BOOLEAN /\ GC_is_full_gc \in BOOLEAN
    /\ pushing \subseteq Node /\ reading \subseteq Node \X Field
    /\ stackWords \subseteq Obj
    /\ pc \in {"idle", "little", "stopped", "finish"}
    /\ caller \in {"none", "maybe_gc", "try_to_collect", "a_little"}
    /\ GC_n_attempts \in 0..MaxPriorAttempts

Init ==
    /\ ptr = [n \in Node |-> [f \in Field |-> Null]]
    /\ stk = {} /\ owned = {} /\ pend = {} /\ marked = {} /\ flist = {}
    /\ freeBlk = Block /\ reclaimq = {}
    /\ GC_dirty_pages = {} /\ GC_grungy_pages = {}
    /\ GC_mark_state = "NONE" /\ GC_scan_ptr = 0
    /\ GC_mark_stack = <<>> /\ GC_mark_stack_size = InitialMarkStackSize
    /\ GC_mark_stack_too_small = FALSE /\ GC_objects_are_marked = FALSE
    /\ pushing = {} /\ reading = {} /\ stackWords = {} /\ inRoots = FALSE
    /\ pc = "idle" /\ caller = "none" /\ mayStop = FALSE
    /\ GC_is_full_gc = FALSE /\ GC_n_attempts = 0

-----------------------------------------------------------------------------
(* What the program can still use. *)
Live == Reach(ptr, stk \cup owned)

FreeObjs == flist \cup {o \in Obj : BlockOf[o] \in freeBlk}

(***************************************************************************)
(* The mutator.  It runs unless the world is stopped; what takes the       *)
(* allocator lock runs only while no collector step holds it.              *)
(***************************************************************************)
Running == pc # "stopped"
LockFree == pc = "idle"
GC_auto_incremental == Incremental /\ ~ManualVdb

\* A write fault (or a soft-dirty bit) records the written page.
WriteDirties(pages) ==
    GC_dirty_pages' = IF GC_auto_incremental THEN GC_dirty_pages \cup pages
                      ELSE GC_dirty_pages
GC_collection_in_progress == GC_mark_state # "NONE"

Holds(S) ==
    /\ Cardinality(stk \cup S) <= Registers
    /\ stk' = stk \cup S

Load(n, f) ==
    /\ Running
    /\ n \in stk \cup owned \cup Root
    /\ ptr[n][f] # Null
    /\ Holds({ptr[n][f]})
    /\ UNCHANGED <<ptr, owned, pend, blockVars, dirtyVars, stackVars, callVars,
                   ctlVars, markVars>>

\* With a manual VDB the written object, and the stored pointer when the
\* client obeys KeepStored, stay on the stack until GC_dirty is called.
Drop(o) ==
    /\ Running
    /\ o \in stk
    /\ \A s \in pend : o # s[1] /\ (KeepStored => o # s[2])
    /\ stk' = stk \ {o}
    /\ UNCHANGED <<ptr, owned, pend, blockVars, dirtyVars, stackVars, callVars,
                   ctlVars, markVars>>

Store(n, f, v) ==
    /\ Running
    /\ n \in stk \cup owned \cup Root
    /\ v \in stk \cup {Null}
    /\ ptr' = [ptr EXCEPT ![n][f] = v]
    /\ \/ /\ ManualVdb /\ n \in Obj /\ v # Null
          /\ Cardinality(pend) < Threads
          /\ n \in stk
          /\ pend' = pend \cup {<<n, v>>}
          /\ UNCHANGED GC_dirty_pages
       \/ /\ ~(ManualVdb /\ n \in Obj /\ v # Null)
          /\ WriteDirties(IF n \in Obj \/ StaticVdb THEN {Page(n)} ELSE {})
          /\ UNCHANGED pend
    /\ UNCHANGED <<stk, owned, GC_grungy_pages, blockVars, stackVars, callVars,
                   ctlVars, markVars>>

GC_dirty(s) ==
    /\ Running
    /\ s \in pend
    /\ pend' = pend \ {s}
    /\ GC_dirty_pages' = GC_dirty_pages \cup {Page(s[1])}
    /\ UNCHANGED <<ptr, stk, owned, GC_grungy_pages, blockVars, stackVars,
                   callVars, ctlVars, markVars>>

GC_malloc(o) ==
    /\ LockFree
    /\ o \in flist
    /\ flist' = flist \ {o}
    /\ Holds({o})
    /\ owned' = IF BlockOf[o] \in Uncollectable THEN owned \cup {o} ELSE owned
    /\ WriteDirties({Page(o)})
    /\ UNCHANGED <<ptr, pend, freeBlk, reclaimq, GC_grungy_pages, stackVars,
                   callVars, ctlVars, markVars>>

\* A large object is allocated with its block, a small one by GC_new_hblk,
\* which puts all the objects of the block on the free list.
GC_alloc_large(b) == Holds(ObjsOf(b)) /\ UNCHANGED <<flist, marked>>

GC_new_hblk(b) ==
    /\ LockFree
    /\ b \in freeBlk
    /\ freeBlk' = freeBlk \ {b}
    /\ \/ b \in Large /\ GC_alloc_large(b)
       \/ /\ b \notin Large
          /\ flist' = flist \cup ObjsOf(b)
          /\ marked' = IF b \in Uncollectable THEN marked \cup ObjsOf(b) ELSE marked
          /\ UNCHANGED stk
    /\ WriteDirties({b})
    /\ UNCHANGED <<ptr, owned, pend, reclaimq, GC_grungy_pages, stackVars, callVars,
                   ctlVars, GC_mark_state, GC_scan_ptr, GC_objects_are_marked>>

\* The entries that are not of o, in an order the loop may leave them in (it moves
\* the top into a hole).
WithoutEntriesOf(o) ==
    LET others == {i \in DOMAIN GC_mark_stack : GC_mark_stack[i] # o}
    IN  UNION {{[j \in 1..k |-> GC_mark_stack[p[j]]] :
                   p \in {q \in [1..k -> others] :
                             /\ \A i, j \in 1..k : q[i] = q[j] => i = j
                             /\ \A i \in others : \E j \in 1..k : q[j] = i}} :
               k \in 0..Len(GC_mark_stack)}

\* Mutant: the block is released while a scan of it is pending.
KeepPendingScans(o) == UNCHANGED GC_mark_stack

DropPendingScans(o) ==
    \/ GC_collection_in_progress /\ GC_mark_stack' \in WithoutEntriesOf(o)
    \/ ~GC_collection_in_progress /\ UNCHANGED GC_mark_stack

\* Mutant: the freed object stays unmarked.
MarksUnchanged(o) == marked

MarksAfterFree(o) == IF MarkOnFree THEN marked \cup {o} ELSE marked

\* The client frees an object that nothing it uses leads to any more; with
\* MarkOnFree also one the collector may already have found dead.
GC_free_internal(o) ==
    /\ LockFree
    /\ o \in stk \/ (MarkOnFree /\ o \notin Live \cup FreeObjs)
    /\ o \notin Reach(ptr, (stk \cup owned) \ {o})
    /\ \A s \in pend : o # s[1] /\ (KeepStored => o # s[2])
    /\ ptr' = Cleared(ptr, {o})
    /\ stk' = stk \ {o} /\ owned' = owned \ {o}
    /\ WriteDirties({Page(o)})
    /\ \/ /\ BlockOf[o] \notin Large
          /\ flist' = flist \cup {o}
          /\ marked' = MarksAfterFree(o)
          /\ UNCHANGED <<freeBlk, GC_mark_stack>>
       \/ /\ BlockOf[o] \in Large
          /\ freeBlk' = freeBlk \cup {BlockOf[o]}
          /\ marked' = marked \ {o}
          /\ DropPendingScans(o)
          /\ UNCHANGED flist
    /\ UNCHANGED <<pend, reclaimq, GC_grungy_pages, GC_mark_stack_size,
                   GC_mark_stack_too_small, callVars, ctlVars, GC_mark_state,
                   GC_scan_ptr, GC_objects_are_marked>>

(***************************************************************************)
(* Sweeping.                                                               *)
(***************************************************************************)
ObjsIn(S) == {o \in Obj : BlockOf[o] \in S}
UncollObjs == ObjsIn(Uncollectable)

\* Mutant: the swept objects keep their old contents.
ReclaimUncleared(S) ==
    /\ flist' = flist \cup (ObjsIn(S) \ marked)
    /\ UNCHANGED ptr

\* The unmarked objects of the blocks of S go to the free lists; the blocks of
\* an uncollectable kind get all their mark bits set.
GC_reclaim_generic(S) ==
    LET dead == ObjsIn(S) \ marked IN
    /\ flist' = flist \cup dead
    /\ ptr' = Cleared(ptr, dead)

MarksAfterSweep(S) == marked \cup ObjsIn(S \cap Uncollectable)

GC_continue_reclaim(b) ==
    /\ LockFree
    /\ b \in reclaimq
    /\ GC_reclaim_generic({b})
    /\ marked' = MarksAfterSweep({b})
    /\ reclaimq' = reclaimq \ {b}
    /\ WriteDirties({b})
    /\ UNCHANGED <<stk, owned, pend, freeBlk, GC_grungy_pages, stackVars, callVars,
                   ctlVars, GC_mark_state, GC_scan_ptr, GC_objects_are_marked>>

(***************************************************************************)
(* Starting a collection.                                                  *)
(***************************************************************************)
\* The dirty bits are taken, and start again from none.
GC_read_dirty(outputUnneeded) ==
    /\ GC_grungy_pages' = IF Incremental /\ ~outputUnneeded THEN GC_dirty_pages
                          ELSE GC_grungy_pages
    /\ GC_dirty_pages' = IF Incremental THEN {} ELSE GC_dirty_pages

\* The choice of the first mark state, the world stopped.
GC_initiate_gc(state) ==
    /\ GC_read_dirty(state = "INVALID")
    /\ GC_mark_state' = IF state = "NONE" THEN "PUSH_RESCUERS" ELSE state
    /\ GC_scan_ptr' = 0

GC_stopped_mark(who, canStop) ==
    /\ pc' = "stopped"
    /\ caller' = who
    /\ mayStop' = canStop

\* Its arguments are gone when it returns.
StoppedMarkReturns == caller' = "none" /\ mayStop' = FALSE

\* Mutant: stale marks survive into a full collection.
KeepMarks(marks) ==
    /\ marked' = marks
    /\ GC_objects_are_marked' = FALSE

\* GC_clear_marks leaves the marks of uncollectable blocks alone.
GC_clear_marks(marks) ==
    /\ marked' = marks \cap UncollObjs
    /\ GC_objects_are_marked' = FALSE

MaybeGcPartial ==
    /\ LockFree /\ Incremental /\ GC_mark_state = "NONE"
    /\ GC_initiate_gc("NONE")
    /\ GC_stopped_mark("maybe_gc", TRUE)
    /\ UNCHANGED <<heapVars, blockVars, stackVars, callVars, marked,
                   GC_objects_are_marked, GC_is_full_gc, GC_n_attempts>>

\* GC_reclaim_all(0, TRUE) sweeps only the blocks whose garbage is recent
\* enough (S), and drops the others from the reclaim lists.
MaybeGcFull ==
    /\ LockFree /\ Incremental /\ GC_mark_state = "NONE"
    /\ \E S \in SUBSET reclaimq :
          /\ GC_reclaim_generic(S)
          /\ GC_clear_marks(MarksAfterSweep(S))
    /\ reclaimq' = {}
    /\ GC_initiate_gc("INVALID")
    /\ GC_is_full_gc' = TRUE
    /\ GC_stopped_mark("maybe_gc", TRUE)
    /\ UNCHANGED <<stk, owned, pend, freeBlk, stackVars, callVars, GC_n_attempts>>

\* With GC_never_stop_func the reclaim lists are left to GC_start_reclaim;
\* a collection that may be abandoned sweeps them before it clears the marks.
GC_try_to_collect_inner(canStop) ==
    /\ LockFree
    /\ ~(Incremental /\ GC_collection_in_progress)
    /\ LET S == IF canStop THEN reclaimq ELSE {} IN
          /\ GC_reclaim_generic(S)
          /\ GC_clear_marks(MarksAfterSweep(S))
          /\ reclaimq' = reclaimq \ S
    /\ GC_mark_stack' = <<>>
    /\ GC_initiate_gc("INVALID")
    /\ GC_is_full_gc' = TRUE
    /\ GC_stopped_mark("try_to_collect", canStop)
    /\ UNCHANGED <<stk, owned, pend, freeBlk, GC_mark_stack_size,
                   GC_mark_stack_too_small, callVars, GC_n_attempts>>

\* The stop function is asked before every GC_mark_some.
InCall == inRoots \/ pushing # {} \/ reading # {} \/ stackWords # {}
AtCall == pc \in {"little", "stopped"} /\ ~InCall

\* Mutant: an abandoned attempt is not counted.
AttemptsNotCounted == GC_n_attempts

\* Only compared with max_prior_attempts, so counted up to that.
AttemptsAfterAbandon ==
    IF /\ caller = "a_little" \/ (caller = "maybe_gc" /\ ~GC_is_full_gc)
       /\ GC_n_attempts < MaxPriorAttempts
    THEN GC_n_attempts + 1 ELSE GC_n_attempts

Abandon ==
    /\ pc = "stopped" /\ mayStop /\ ~InCall
    /\ GC_collection_in_progress
    /\ pc' = "idle" /\ StoppedMarkReturns
    /\ GC_n_attempts' = AttemptsAfterAbandon
    /\ \/ /\ caller = "try_to_collect" /\ ~Incremental
          /\ GC_mark_state' = "INVALID" /\ GC_mark_stack' = <<>>
       \/ /\ ~(caller = "try_to_collect" /\ ~Incremental)
          /\ UNCHANGED <<GC_mark_state, GC_mark_stack>>
    /\ UNCHANGED <<heapVars, blockVars, dirtyVars, GC_mark_stack_size,
                   GC_mark_stack_too_small, callVars, GC_is_full_gc, marked,
                   GC_scan_ptr, GC_objects_are_marked>>

\* GC_collect_a_little_inner: some calls of GC_mark_some with the world
\* running, then, once marking is complete, a stopped mark that rescans what
\* has been dirtied meanwhile.  GC_dont_gc suppresses the latter.
LittleStart ==
    /\ LockFree /\ Incremental /\ GC_collection_in_progress
    /\ pc' = "little"
    /\ UNCHANGED <<heapVars, blockVars, dirtyVars, stackVars, callVars, markVars,
                   caller, mayStop, GC_is_full_gc, GC_n_attempts>>

LittlePause ==
    /\ AtCall /\ pc = "little"
    /\ GC_collection_in_progress \/ DontGc
    /\ pc' = "idle"
    /\ UNCHANGED <<heapVars, blockVars, dirtyVars, stackVars, callVars, markVars,
                   caller, mayStop, GC_is_full_gc, GC_n_attempts>>

LittleStop ==
    /\ AtCall /\ pc = "little" /\ ~GC_collection_in_progress
    /\ GC_initiate_gc("NONE")
    /\ GC_stopped_mark("a_little", GC_n_attempts < MaxPriorAttempts)
    /\ UNCHANGED <<heapVars, blockVars, stackVars, callVars, marked,
                   GC_objects_are_marked, GC_is_full_gc, GC_n_attempts>>

(***************************************************************************)
(* GC_mark_some.  A call is split into the pushes and the reads it makes,  *)
(* which interleave with the mutator while the world runs.                 *)
(***************************************************************************)
\* A push onto a full stack drops the topmost Discards entries first.
Overflow == Len(GC_mark_stack) >= GC_mark_stack_size
\* A mutant: an overflow that does not invalidate the marks.
PushForgetsOverflow(n) ==
    /\ GC_mark_stack' =
          IF Overflow
          THEN Append(SubSeq(GC_mark_stack, 1, GC_mark_stack_size - Discards), n)
          ELSE Append(GC_mark_stack, n)
    /\ UNCHANGED GC_mark_state
    /\ GC_mark_stack_too_small' = (GC_mark_stack_too_small \/ Overflow)

GC_ms_push_obj_descr(n) ==
    /\ GC_mark_stack' =
          IF Overflow
          THEN Append(SubSeq(GC_mark_stack, 1, GC_mark_stack_size - Discards), n)
          ELSE Append(GC_mark_stack, n)
    /\ GC_mark_state' = IF Overflow THEN "INVALID" ELSE GC_mark_state
    /\ GC_mark_stack_too_small' = (GC_mark_stack_too_small \/ Overflow)

GC_ms_push_contents(o) ==
    \/ /\ o \in marked \/ BlockOf[o] \in freeBlk
       /\ UNCHANGED <<marked, GC_mark_stack, GC_mark_state, GC_mark_stack_too_small>>
    \/ /\ ~(o \in marked \/ BlockOf[o] \in freeBlk)
       /\ marked' = marked \cup {o}
       /\ GC_ms_push_obj_descr(o)

\* GC_push_marked, and the segments pushed by GC_push_roots.
PushNext ==
    /\ pushing # {}
    /\ LET n == CHOOSE x \in pushing : TRUE IN
          /\ GC_ms_push_obj_descr(n)
          /\ pushing' = pushing \ {n}
    /\ UNCHANGED <<heapVars, blockVars, dirtyVars, GC_mark_stack_size, reading,
                   stackWords, inRoots, ctlVars, marked, GC_scan_ptr,
                   GC_objects_are_marked>>

\* GC_mark_from reads one word of the popped range.
ReadNext ==
    /\ reading # {}
    /\ LET r == CHOOSE x \in reading : TRUE
           v == ptr[r[1]][r[2]]
       IN /\ reading' = reading \ {r}
          /\ \/ v # Null /\ GC_ms_push_contents(v)
             \/ /\ v = Null
                /\ UNCHANGED <<marked, GC_mark_stack, GC_mark_state,
                               GC_mark_stack_too_small>>
    /\ UNCHANGED <<heapVars, blockVars, dirtyVars, GC_mark_stack_size, pushing,
                   stackWords, inRoots, ctlVars, GC_scan_ptr, GC_objects_are_marked>>

\* GC_push_all_eager: a stack word; its object may be about to be dirtied.
GC_mark_and_push_stack ==
    /\ pushing = {} /\ stackWords # {}
    /\ LET o == CHOOSE x \in stackWords : TRUE IN
          /\ stackWords' = stackWords \ {o}
          /\ GC_dirty_pages' = IF ManualVdb /\ BlockOf[o] \notin freeBlk
                               THEN GC_dirty_pages \cup {Page(o)}
                               ELSE GC_dirty_pages
          /\ GC_ms_push_contents(o)
    /\ UNCHANGED <<heapVars, blockVars, GC_grungy_pages, GC_mark_stack_size,
                   pushing, reading, inRoots, ctlVars, GC_scan_ptr,
                   GC_objects_are_marked>>

\* The rest of push_roots_and_advance.
RootsPushed ==
    /\ inRoots /\ pushing = {} /\ stackWords = {}
    /\ inRoots' = FALSE
    /\ GC_objects_are_marked' = TRUE
    /\ GC_mark_state' = IF GC_mark_state = "INVALID" THEN "INVALID" ELSE "ROOTS_PUSHED"
    /\ UNCHANGED <<heapVars, blockVars, dirtyVars, stackVars, pushing, reading,
                   stackWords, ctlVars, marked, GC_scan_ptr>>

\* MARK_FROM_MARK_STACK: GC_mark_from pops a range and reads its words.
GC_mark_from ==
    /\ GC_mark_stack # <<>>
    /\ reading' = {GC_mark_stack[Len(GC_mark_stack)]} \X Field
    /\ GC_mark_stack' = SubSeq(GC_mark_stack, 1, Len(GC_mark_stack) - 1)
    /\ GC_objects_are_marked' = TRUE
    /\ UNCHANGED <<pushing, stackWords, inRoots, marked, GC_scan_ptr, GC_mark_state>>

\* The static segments to be pushed, and the words on the threads' stacks.
GC_push_conditional_static(all) ==
    pushing' = IF all \/ ~StaticVdb THEN Root ELSE Root \cap GC_grungy_pages
GC_push_all_stacks == \E J \in SUBSET Junk : stackWords' = stk \cup J

\* GC_push_roots: static segments first, then the stacks word by word.
GC_push_roots(all) ==
    /\ inRoots' = TRUE
    /\ GC_push_conditional_static(all)
    /\ GC_push_all_stacks
    /\ GC_scan_ptr' = 0
    /\ UNCHANGED GC_objects_are_marked

NextBlocks(Sel) == {b \in Sel \ freeBlk : b >= GC_scan_ptr}

\* GC_push_next_marked and its variants: push the marked objects of the next
\* block of Sel at or after GC_scan_ptr; past the last one, push the roots.
PushNextOf(Sel, pushRoots, all) ==
    LET next == NextBlocks(Sel) IN
    /\ UNCHANGED <<reading, marked, GC_mark_stack>>
    /\ \/ /\ next # {}
          /\ \E b \in next :
                /\ \A c \in next : b <= c
                /\ GC_scan_ptr' = b + 1
                /\ pushing' = ObjsOf(b) \cap marked
          /\ GC_objects_are_marked' = (GC_objects_are_marked \/ pushing' # {})
          /\ UNCHANGED <<stackWords, inRoots>>
       \/ /\ next = {} /\ pushRoots
          /\ GC_push_roots(all)
       \/ /\ next = {} /\ ~pushRoots
          /\ GC_scan_ptr' = 0
          /\ UNCHANGED <<pushing, stackWords, inRoots, GC_objects_are_marked>>

\* alloc_mark_stack(2 * GC_mark_stack_size) may fail, and then goes on with
\* the old stack.
GrowMarkStack ==
    /\ \/ GC_mark_stack_too_small /\ 2 * GC_mark_stack_size <= MarkStackBound
          /\ GC_mark_stack_size' = 2 * GC_mark_stack_size
       \/ UNCHANGED GC_mark_stack_size
    /\ GC_mark_stack_too_small' = FALSE

CallUnchanged == UNCHANGED <<heapVars, blockVars, dirtyVars, GC_is_full_gc,
                             GC_n_attempts>>

MarkSomeRescuers ==
    /\ AtCall /\ GC_mark_state = "PUSH_RESCUERS"
    /\ LET high == Len(GC_mark_stack) > GC_mark_stack_size - InitialMarkStackSize \div 2
       IN \/ /\ high /\ GC_mark_from
             /\ GC_mark_stack_too_small' = TRUE
          \/ /\ ~high
             /\ PushNextOf(Block \cap GC_grungy_pages, TRUE, FALSE)
             /\ UNCHANGED <<GC_mark_stack_too_small, GC_mark_state>>
    /\ UNCHANGED <<GC_mark_stack_size, pc, caller, mayStop>> /\ CallUnchanged

MarkSomeUncollectable ==
    /\ AtCall /\ GC_mark_state = "PUSH_UNCOLLECTABLE"
    /\ LET high == Len(GC_mark_stack) > GC_mark_stack_size \div 4
       IN \/ high /\ GC_mark_from
          \/ /\ ~high
             /\ PushNextOf(Uncollectable, TRUE, TRUE)
             /\ UNCHANGED GC_mark_state
    /\ UNCHANGED <<GC_mark_stack_too_small, GC_mark_stack_size, pc, caller, mayStop>>
    /\ CallUnchanged

\* Mutant: the marking ends as soon as the roots have been pushed.
MarkSomeRootsPushedEarly ==
    /\ AtCall /\ GC_mark_state = "ROOTS_PUSHED" /\ pc = "stopped"
    /\ GrowMarkStack
    /\ GC_mark_state' = "NONE" /\ pc' = "finish" /\ StoppedMarkReturns
    /\ UNCHANGED <<callVars, marked, GC_scan_ptr, GC_objects_are_marked, GC_mark_stack>>
    /\ CallUnchanged

MarkSomeRootsPushed ==
    /\ AtCall /\ GC_mark_state = "ROOTS_PUSHED"
    /\ \/ /\ GC_mark_from
          /\ UNCHANGED <<GC_mark_stack_too_small, GC_mark_stack_size, pc, caller, mayStop>>
       \/ /\ GC_mark_stack = <<>>
          /\ GrowMarkStack
          /\ GC_mark_state' = "NONE"
          /\ \/ pc = "stopped" /\ pc' = "finish" /\ StoppedMarkReturns
             \/ pc = "little" /\ UNCHANGED <<pc, caller, mayStop>>
          /\ UNCHANGED <<callVars, marked, GC_scan_ptr, GC_objects_are_marked,
                         GC_mark_stack>>
    /\ CallUnchanged

MarkSomeInvalid ==
    /\ AtCall /\ GC_mark_state \in {"INVALID", "PARTIALLY_INVALID"}
    /\ \/ /\ ~GC_objects_are_marked
          /\ GC_mark_state' = "PUSH_UNCOLLECTABLE"
          /\ UNCHANGED <<callVars, marked, GC_scan_ptr, GC_objects_are_marked,
                         stackVars>>
       \/ /\ GC_objects_are_marked /\ GC_mark_from
          /\ UNCHANGED <<GC_mark_stack_too_small, GC_mark_stack_size>>
       \/ /\ GC_objects_are_marked /\ GC_mark_stack = <<>>
          /\ LET restart == GC_scan_ptr = 0 /\ GC_mark_state = "INVALID" IN
             /\ GC_mark_state' = IF restart THEN "PARTIALLY_INVALID" ELSE GC_mark_state
             /\ IF restart THEN GrowMarkStack
                ELSE UNCHANGED <<GC_mark_stack_size, GC_mark_stack_too_small>>
             /\ PushNextOf(Block, restart \/ GC_mark_state = "PARTIALLY_INVALID", TRUE)
    /\ UNCHANGED <<pc, caller, mayStop>> /\ CallUnchanged

(***************************************************************************)
(* GC_finish_collection: the free lists lose their marks, and              *)
(* GC_start_reclaim drops the lists, frees the empty blocks at once and    *)
(* queues the others, unless nearly full, to be swept when allocating.     *)
(***************************************************************************)
GC_block_nearly_full(b, marks) ==
    Cardinality(ObjsOf(b) \cap marks) > (Cardinality(ObjsOf(b)) * 7) \div 8

\* The free lists are emptied later, so what they hold must not stay marked.
GC_clear_fl_marks(marks) == marks \ flist

\* What GC_reclaim_block does with each block in use.
GC_reclaim_block(marks) ==
    LET empty == {b \in Block \ freeBlk : ObjsOf(b) \cap marks = {}}
        full == {b \in Block : GC_block_nearly_full(b, marks)}
    IN /\ freeBlk' = freeBlk \cup empty
       /\ ptr' = Cleared(ptr, ObjsIn(empty))
       /\ reclaimq' = Block \ (freeBlk \cup Large \cup empty \cup full)

\* Mutant: the old free lists are kept.
StartReclaimKeepsLists(marks) == GC_reclaim_block(marks) /\ UNCHANGED flist

GC_start_reclaim(marks) ==
    /\ flist' = {}
    /\ GC_reclaim_block(marks)

GC_finish_collection ==
    /\ pc = "finish"
    /\ marked' = GC_clear_fl_marks(marked)
    /\ GC_start_reclaim(GC_clear_fl_marks(marked))
    /\ pc' = "idle"
    /\ GC_n_attempts' = 0 /\ GC_is_full_gc' = FALSE
    /\ UNCHANGED <<stk, owned, pend, dirtyVars, stackVars, callVars, caller, mayStop,
                   GC_mark_state, GC_scan_ptr, GC_objects_are_marked>>

Mutator ==
    \/ \E n \in Node, f \in Field : Load(n, f) \/ \E v \in Obj \cup {Null} : Store(n, f, v)
    \/ \E o \in Obj : Drop(o) \/ GC_malloc(o) \/ GC_free_internal(o)
    \/ \E s \in pend : GC_dirty(s)
    \/ \E b \in Block : GC_new_hblk(b) \/ GC_continue_reclaim(b)

StartGc ==
    \/ MaybeGcPartial
    \/ MaybeGcFull
    \/ \E canStop \in BOOLEAN : GC_try_to_collect_inner(canStop)

GC_mark_some ==
    \/ MarkSomeRescuers
    \/ MarkSomeUncollectable
    \/ MarkSomeRootsPushed
    \/ MarkSomeInvalid
    \/ PushNext
    \/ ReadNext
    \/ GC_mark_and_push_stack
    \/ RootsPushed

CollectALittle == LittleStart \/ LittlePause \/ LittleStop

Next == Mutator \/ StartGc \/ Abandon \/ CollectALittle \/ GC_mark_some
        \/ GC_finish_collection

Spec == Init /\ [][Next]_vars
-----------------------------------------------------------------------------
(* No object that the program can still reach, or owns as uncollectable, is *)
(* on a free list or in a free block: GC_start_reclaim, GC_continue_reclaim *)
(* and GC_free release dead objects only, whatever the mutator did between *)
(* the increments of the marking.                                          *)
NoLiveReclaimed == Live \cap FreeObjs = {}

(* The collector implements the heap its client sees (SafeHeap).            *)
Heap == INSTANCE SafeHeap WITH avail <- FreeObjs
ImplementsSafeHeap == Heap!Spec

(* Sweeping a queued block never puts an object on a free list a second     *)
(* time: what an explicit GC_free already put there keeps its mark bit     *)
(* until the sweep (reclaim.c, and the comment in GC_free_internal).       *)
NoDoubleInsert ==
    LockFree => \A b \in reclaimq : ObjsOf(b) \cap flist \subseteq marked

(* A pending scan on the mark stack never refers to a block that has been   *)
(* released: GC_mark_from would read a header that is gone.                *)
MarkStackInUse ==
    \A i \in DOMAIN GC_mark_stack :
        GC_mark_stack[i] \in Obj => BlockOf[GC_mark_stack[i]] \notin freeBlk

(* Invariant "I" of gc_pmark.h.  An edge is covered when its target is      *)
(* marked, when its source is on the mark stack or about to be scanned, or, *)
(* while the world runs, when its source's page is dirty or (manual VDB) is *)
(* about to be dirtied.  The mark state says which marked objects may have *)
(* edges that are not covered yet; of the others, and of what the marking  *)
(* with the world stopped has seen of the roots, every edge is covered.    *)
Scanning(n, f) ==
    \/ \E i \in DOMAIN GC_mark_stack : GC_mark_stack[i] = n
    \/ n \in pushing
    \/ <<n, f>> \in reading
Covered(n, f) ==
    \/ ptr[n][f] \in marked \cup {Null}
    \/ Scanning(n, f)
    \/ Page(n) \in GC_dirty_pages /\ Running
    \/ <<n, ptr[n][f]>> \in pend

\* Still to be reached by the scan of the heap the mark state stands for.
Ahead(n) ==
    /\ ~inRoots
    /\ BlockOf[n] >= GC_scan_ptr
    /\ \/ GC_mark_state = "PARTIALLY_INVALID"
       \/ GC_mark_state = "PUSH_UNCOLLECTABLE" /\ BlockOf[n] \in Uncollectable
       \/ GC_mark_state = "PUSH_RESCUERS" /\ BlockOf[n] \in GC_grungy_pages
Exempt(n) ==
    \/ Running /\ ~Incremental
    \/ Ahead(n)
    \/ /\ GC_mark_state = "INVALID"
       /\ GC_objects_are_marked \/ inRoots \/ BlockOf[n] \in Uncollectable
RootsAhead ==
    \/ GC_mark_state = "INVALID"
    \/ ~inRoots /\ GC_mark_state \in {"PUSH_RESCUERS", "PUSH_UNCOLLECTABLE",
                                      "PARTIALLY_INVALID"}
RootExempt(r) ==
    \/ RootsAhead /\ (GC_mark_state = "PUSH_RESCUERS" /\ StaticVdb => r \in GC_grungy_pages)
    \/ Running /\ ~StaticVdb
MarkInvariant ==
    /\ \A n \in Live \cap marked, f \in Field : Exempt(n) \/ Covered(n, f)
    /\ \A r \in Root, f \in Field : RootExempt(r) \/ Covered(r, f)
    /\ RootsAhead \/ Running \/ stk \subseteq marked \cup stackWords

(* A collection that has completed with the world stopped has marked        *)
(* everything the program can reach, whatever was abandoned before it.     *)
CompleteAtFinish == pc = "finish" => Live \subseteq marked

(* Without incremental marking and without stray pointers a full collection *)
(* is exact: when the marking ends, no object is marked that the program   *)
(* cannot reach, since GC_clear_marks leaves no stale mark behind.         *)
PreciseMarking ==
    /\ pc = "stopped" /\ ~InCall
    /\ GC_mark_state = "ROOTS_PUSHED" /\ GC_mark_stack = <<>>
    /\ ~Incremental /\ Junk = {}
    => marked \subseteq Live \cup UncollObjs

(* The marking has been accepted, and what it left unmarked is reclaimed.   *)
Finishing == pc = "finish"
=============================================================================
