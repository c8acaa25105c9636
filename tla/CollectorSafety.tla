--------------------------- MODULE CollectorSafety ---------------------------
(***************************************************************************)
(* The collector never releases an object its client can reach, for every  *)
(* heap, every size of the mark stack and every mode (Collector.tla).      *)
(*                                                                         *)
(* The argument: while marking is in progress every edge out of a live     *)
(* marked object is covered (MarkInvariant), or the mark state says that   *)
(* the object is still to be rescanned.  When the marking ends with the    *)
(* world stopped nothing is pending, so that the live marked objects are   *)
(* closed under the edges and hold the roots: they are all the live ones.  *)
(* Sweeping is safe because a block is queued only while its live objects  *)
(* are marked, and the queue is emptied before marks are cleared, unless   *)
(* the collection cannot be abandoned.                                     *)
(***************************************************************************)
EXTENDS CollectorProofs

\* Where the collector is, against what it has pending.
CtlInv ==
    /\ pc \in {"idle", "finish"} => ~InCall
    /\ pc = "finish" => GC_mark_state = "NONE"
    /\ pc = "stopped" => GC_mark_state # "NONE"
    /\ pc = "little" => Incremental
    /\ caller = "none" <=> pc # "stopped"
    /\ GC_mark_state = "NONE" => GC_mark_stack = <<>> /\ ~InCall
    /\ reading # {} => ~inRoots /\ pushing = {} /\ stackWords = {}
    /\ stackWords # {} => inRoots
    /\ inRoots => GC_scan_ptr = 0 /\ GC_mark_state # "ROOTS_PUSHED"
    /\ (pushing # {} \/ reading # {}) /\ ~inRoots => GC_objects_are_marked
    /\ GC_mark_state = "INVALID" /\ ~GC_objects_are_marked /\ (Incremental \/ pc # "idle")
          => GC_scan_ptr = 0
    /\ GC_mark_state = "PARTIALLY_INVALID" => GC_objects_are_marked

\* What is free is empty and dead, and what a sweep will see is marked.
SweepSafe ==
    \/ caller = "try_to_collect" /\ ~mayStop
    \/ pc = "finish"
    \/ \A b \in reclaimq : ObjsOf(b) \cap (Live \cup flist) \subseteq marked
HeapInv ==
    /\ NoLiveReclaimed
    /\ \A o \in FreeObjs, f \in Field : ptr[o][f] = Null
    /\ owned \subseteq marked \cap UncollObjs
    /\ Live \cap UncollObjs \subseteq owned
    /\ flist \cap UncollObjs \subseteq marked
    /\ flist \cap ObjsIn(freeBlk) = {}
    /\ reclaimq \cap (freeBlk \cup Large) = {}
    /\ SweepSafe
    /\ \A s \in pend : ManualVdb /\ s[1] \in stk /\ s[2] \in stk
    /\ CompleteAtFinish

IInv == TypeOK /\ CtlInv /\ HeapInv /\ MarkInvariant

\* The stored pointer stays on the stack until GC_dirty (gc.h, GC_reachable_here).
ManualContract == ManualVdb => KeepStored

-----------------------------------------------------------------------------
(* The default provers in their order, then SMT once more with more time. *)
USE SMT, Zenon, SMTT(30)
USE DEF heapVars, blockVars, dirtyVars, stackVars, callVars, ctlVars, markVars

(* The live objects hold the roots, and no edge leaves them. *)
LEMMA LiveClosed ==
    ASSUME TypeOK
    PROVE  /\ Live \subseteq Obj /\ stk \subseteq Live /\ owned \subseteq Live
           /\ \A n \in Live \cup Root, f \in Field : ptr[n][f] \in Live \cup {Null}
<1>1. ptr \in Graphs /\ stk \cup owned \in SUBSET Obj
  BY DEF TypeOK
<1>2. Closed(ptr, Live, stk \cup owned) /\ Live \subseteq Obj
  BY <1>1, ReachClosed DEF Live
<1> QED
  BY <1>2 DEF Closed

(* What is live after a step is in every set closed after the step. *)
LEMMA LiveWithin ==
    ASSUME NEW R \in SUBSET Obj, stk' \subseteq R, owned' \subseteq R,
           \A n \in R \cup Root, f \in Field : ptr'[n][f] \in R \cup {Null}
    PROVE  Live' \subseteq R
<1>1. Closed(ptr', R, stk' \cup owned')
  BY DEF Closed
<1>2. Live' = Reach(ptr', stk' \cup owned')
  BY DEF Live
<1> QED
  BY <1>1, <1>2, ReachMinimal

(* Clearing fields makes nothing live. *)
LEMMA LiveCleared ==
    ASSUME TypeOK, NEW D, ptr' = Cleared(ptr, D), UNCHANGED <<stk, owned>>
    PROVE  Live' \subseteq Live
<1>1. \A n \in Live \cup Root, f \in Field : ptr'[n][f] \in Live \cup {Null}
  BY LiveClosed DEF Cleared, Node
<1> QED
  BY <1>1, LiveClosed, LiveWithin

(* Block numbers are positive. *)
LEMMA BlockPositive == \A o \in Obj : BlockOf[o] \in Nat /\ BlockOf[o] >= 1
  BY HeapAssumption DEF Block

(* Live is a function of the client's state. *)
LEMMA LiveSame ==
    ASSUME UNCHANGED <<ptr, stk, owned>>
    PROVE  Live' = Live
  BY DEF Live

-----------------------------------------------------------------------------
(* The control invariant. *)

(* The client and the sweeper do not touch the state of the marking. *)
LEMMA CtlMutator ==
    ASSUME CtlInv, Mutator
    PROVE  CtlInv'
<1>1. UNCHANGED <<pc, caller, GC_mark_state, GC_scan_ptr, GC_objects_are_marked,
                  pushing, reading, stackWords, inRoots>>
      /\ (GC_mark_state = "NONE" => UNCHANGED GC_mark_stack)
  BY ZenonT(30) DEF Mutator, Load, Store, Drop, GC_malloc, GC_free_internal, GC_dirty, GC_new_hblk, GC_alloc_large,
         GC_continue_reclaim, DropPendingScans, GC_collection_in_progress
<1> QED
  BY <1>1 DEF CtlInv, InCall

(* A collection starts with nothing pending. *)
LEMMA CtlStartGc ==
    ASSUME CtlInv, StartGc
    PROVE  CtlInv'
<1>1. /\ pc = "idle" /\ pc' = "stopped" /\ caller' # "none" /\ UNCHANGED callVars
      /\ GC_scan_ptr' = 0 /\ GC_mark_state' \in {"PUSH_RESCUERS", "INVALID"}
  BY DEF StartGc, MaybeGcPartial, MaybeGcFull, GC_try_to_collect_inner, LockFree,
         GC_initiate_gc, GC_read_dirty, GC_stopped_mark
<1> QED
  BY <1>1 DEF CtlInv, InCall

(* An abandoned collection has no call of GC_mark_some under way. *)
LEMMA CtlAbandon ==
    ASSUME TypeOK, CtlInv, Abandon
    PROVE  CtlInv'
  BY DEF CtlInv, Abandon, InCall, StoppedMarkReturns, TypeOK

(* The increments keep the control state consistent. *)
LEMMA CtlLittle ==
    ASSUME CtlInv, CollectALittle
    PROVE  CtlInv'
  BY DEF CtlInv, CollectALittle, LittleStart, LittlePause, LittleStop, InCall, AtCall,
         GC_collection_in_progress, LockFree, GC_initiate_gc, GC_read_dirty, GC_stopped_mark

(* So does the end of a collection. *)
LEMMA CtlFinish ==
    ASSUME CtlInv, GC_finish_collection
    PROVE  CtlInv'
  BY DEF CtlInv, GC_finish_collection, GC_start_reclaim, GC_reclaim_block,
         GC_clear_fl_marks, InCall

(* Popping an entry in the states with no call under way. *)
LEMMA CtlPop ==
    ASSUME CtlInv, AtCall, GC_mark_state # "NONE", GC_mark_from, UNCHANGED <<pc, caller>>
    PROVE  CtlInv'
  BY DEF CtlInv, AtCall, InCall, GC_mark_from

(* A step of the scan of the heap, or the start of pushing the roots. *)
LEMMA CtlPushNextOf ==
    ASSUME TypeOK, CtlInv, AtCall, NEW Sel, NEW pushRoots, NEW all,
           PushNextOf(Sel, pushRoots, all), UNCHANGED <<pc, caller>>,
           GC_mark_state \notin {"NONE", "ROOTS_PUSHED"},
           \/ GC_mark_state' = GC_mark_state
           \/ GC_objects_are_marked /\ GC_mark_state' = "PARTIALLY_INVALID",
           GC_mark_state = "INVALID" => GC_objects_are_marked
    PROVE  CtlInv'
<1>1. /\ reading' = {} /\ GC_mark_state' \notin {"NONE", "ROOTS_PUSHED"}
      /\ pc \in {"little", "stopped"} /\ ~InCall
      /\ pushing = {} /\ stackWords = {} /\ inRoots = FALSE
  BY DEF PushNextOf, AtCall, InCall, TypeOK
<1>2. CASE /\ GC_objects_are_marked' = (GC_objects_are_marked \/ pushing' # {})
           /\ UNCHANGED <<stackWords, inRoots>>
  BY <1>1, <1>2, ZenonT(30) DEF CtlInv, InCall
<1>3. CASE GC_push_roots(all)
  BY <1>1, <1>3 DEF CtlInv, InCall, GC_push_roots, GC_push_conditional_static,
         GC_push_all_stacks
<1>4. CASE GC_scan_ptr' = 0 /\ UNCHANGED <<pushing, stackWords, inRoots, GC_objects_are_marked>>
  BY <1>1, <1>4 DEF CtlInv, InCall
<1> QED
  BY <1>2, <1>3, <1>4, Zenon DEF PushNextOf

(* A push changes the mark state only to INVALID. *)
LEMMA PushState ==
    /\ \A n : GC_ms_push_obj_descr(n) => GC_mark_state' \in {GC_mark_state, "INVALID"}
    /\ \A o : GC_ms_push_contents(o) => GC_mark_state' \in {GC_mark_state, "INVALID"}
  BY DEF GC_ms_push_obj_descr, GC_ms_push_contents

(* A step of GC_mark_some keeps the control state consistent. *)
LEMMA CtlMarkSome ==
    ASSUME TypeOK, CtlInv, GC_mark_some
    PROVE  CtlInv'
<1>1. CASE MarkSomeRescuers
  BY <1>1, CtlPop, CtlPushNextOf, ZenonT(30) DEF MarkSomeRescuers
<1>2. CASE MarkSomeUncollectable
  BY <1>2, CtlPop, CtlPushNextOf, ZenonT(30) DEF MarkSomeUncollectable
<1>3. CASE MarkSomeRootsPushed
  <2>1. CASE GC_mark_from /\ UNCHANGED <<pc, caller>>
    BY <1>3, <2>1, CtlPop DEF MarkSomeRootsPushed
  <2>2. CASE /\ GC_mark_stack = <<>> /\ GC_mark_state' = "NONE"
             /\ \/ pc = "stopped" /\ pc' = "finish" /\ StoppedMarkReturns
                \/ pc = "little" /\ UNCHANGED <<pc, caller, mayStop>>
             /\ UNCHANGED <<callVars, GC_mark_stack>>
    BY <1>3, <2>2 DEF MarkSomeRootsPushed, CtlInv, InCall, AtCall, StoppedMarkReturns
  <2> QED
    BY <1>3, <2>1, <2>2 DEF MarkSomeRootsPushed
<1>4. CASE MarkSomeInvalid
  <2>1. CASE GC_mark_state' = "PUSH_UNCOLLECTABLE" /\ UNCHANGED callVars
    BY <1>4, <2>1 DEF MarkSomeInvalid, CtlInv, InCall, AtCall
  <2>2. CASE GC_mark_from
    BY <1>4, <2>2, CtlPop DEF MarkSomeInvalid
  <2>3. ASSUME NEW pushRoots, GC_objects_are_marked, PushNextOf(Block, pushRoots, TRUE),
               GC_mark_state' \in {"PARTIALLY_INVALID", GC_mark_state}
        PROVE  CtlInv'
    BY <1>4, <2>3, CtlPushNextOf, ZenonT(30) DEF MarkSomeInvalid
  <2> QED
    BY <1>4, <2>1, <2>2, <2>3, ZenonT(30) DEF MarkSomeInvalid
<1>5. CASE PushNext
  <2>1. /\ GC_mark_state' \in {GC_mark_state, "INVALID"} /\ pushing # {}
        /\ pushing' \subseteq pushing
        /\ UNCHANGED <<reading, stackWords, inRoots, pc, caller, GC_scan_ptr,
                       GC_objects_are_marked>>
    BY <1>5, PushState DEF PushNext
  <2> QED
    BY <2>1 DEF CtlInv, InCall
<1>6. CASE ReadNext
  <2>1. /\ GC_mark_state' \in {GC_mark_state, "INVALID"} /\ reading # {}
        /\ reading' \subseteq reading
        /\ UNCHANGED <<pushing, stackWords, inRoots, pc, caller, GC_scan_ptr,
                       GC_objects_are_marked>>
    BY <1>6, PushState, ZenonT(30) DEF ReadNext
  <2> QED
    BY <2>1 DEF CtlInv, InCall
<1>7. CASE GC_mark_and_push_stack
  <2>1. /\ GC_mark_state' \in {GC_mark_state, "INVALID"} /\ stackWords # {}
        /\ stackWords' \subseteq stackWords
        /\ UNCHANGED <<pushing, reading, inRoots, pc, caller, GC_scan_ptr,
                       GC_objects_are_marked>>
    BY <1>7, PushState DEF GC_mark_and_push_stack
  <2> QED
    BY <2>1 DEF CtlInv, InCall
<1>8. CASE RootsPushed
  BY <1>8 DEF RootsPushed, CtlInv, InCall
<1> QED
  BY <1>1, <1>2, <1>3, <1>4, <1>5, <1>6, <1>7, <1>8 DEF GC_mark_some

-----------------------------------------------------------------------------
(* The client's steps. *)

MarkFrame == UNCHANGED <<pc, GC_mark_state, GC_scan_ptr, inRoots, GC_objects_are_marked,
                         GC_grungy_pages>>

(* What is exempt is a function of the state of the marking. *)
LEMMA ExemptSame ==
    ASSUME MarkFrame
    PROVE  /\ \A n : Exempt(n)' <=> Exempt(n)
           /\ \A r : RootExempt(r)' <=> RootExempt(r)
           /\ RootsAhead' <=> RootsAhead
  BY DEF MarkFrame, Exempt, RootExempt, RootsAhead, Ahead, Running

(* An edge stays covered while marks, dirty bits and pending scans stay. *)
LEMMA CoveredKept ==
    ASSUME NEW n, NEW f, Covered(n, f), marked \subseteq marked', UNCHANGED pc,
           GC_dirty_pages \subseteq GC_dirty_pages', pend \subseteq pend',
           UNCHANGED <<GC_mark_stack, pushing, reading>>,
           ptr'[n][f] \in {ptr[n][f], Null}
    PROVE  Covered(n, f)'
  BY DEF Covered, Scanning, Running

(* A step of the client keeps MarkInvariant if it keeps the covered edges. *)
LEMMA MarkKept ==
    ASSUME MarkInvariant, Running, MarkFrame,
           \A n \in Live' \cap marked', f \in Field :
              \/ Covered(n, f)'
              \/ n \in Live \cap marked /\ (Exempt(n) \/ ~Covered(n, f)),
           \A r \in Root, f \in Field : RootExempt(r) \/ ~Covered(r, f) \/ Covered(r, f)'
    PROVE  MarkInvariant'
<1>1. Running'
  BY DEF Running, MarkFrame
<1> QED
  BY <1>1, ExemptSame DEF MarkInvariant

(* The steps that change neither the blocks nor the marks. *)
LEMMA HeapKept ==
    ASSUME TypeOK, HeapInv, Live' \subseteq Live,
           UNCHANGED <<flist, freeBlk, reclaimq, marked, owned, pc, caller, mayStop>>,
           \A o \in FreeObjs, f \in Field : ptr'[o][f] = Null,
           \A s \in pend' : ManualVdb /\ s[1] \in stk' /\ s[2] \in stk'
    PROVE  HeapInv'
<1>1. FreeObjs' = FreeObjs /\ UncollObjs' = UncollObjs /\ ObjsIn(freeBlk)' = ObjsIn(freeBlk)
  BY DEF FreeObjs, UncollObjs, ObjsIn
<1> QED
  BY <1>1 DEF HeapInv, NoLiveReclaimed, SweepSafe, CompleteAtFinish

(* Reading a field. *)
LEMMA SafeLoad ==
    ASSUME IInv, NEW n \in Node, NEW f \in Field, Load(n, f)
    PROVE  HeapInv' /\ MarkInvariant'
<1>1. TypeOK /\ HeapInv /\ MarkInvariant
  BY DEF IInv
<1>2. ptr[n][f] \in Live
  BY <1>1, LiveClosed DEF Load
<1>3. Live' \subseteq Live
  BY <1>1, <1>2, LiveClosed, LiveWithin DEF Load, Holds
<1>4. HeapInv'
  <2>1. \A s \in pend' : ManualVdb /\ s[1] \in stk' /\ s[2] \in stk'
    BY <1>1 DEF HeapInv, Load, Holds
  <2> QED
    BY <1>1, <1>3, <2>1, HeapKept DEF HeapInv, Load
<1>5. MarkInvariant'
  <2>1. \A m \in Node, g \in Field : Covered(m, g) => Covered(m, g)'
    BY CoveredKept DEF Load
  <2>2. Live' \cap marked' \subseteq Live \cap marked /\ Live' \subseteq Node
    BY <1>1, <1>3, LiveClosed, ZenonT(30) DEF Load, Node
  <2> QED
    BY <1>1, <2>1, <2>2, MarkKept DEF MarkInvariant, Load, MarkFrame, Node
<1> QED
  BY <1>4, <1>5

(* Letting a pointer go. *)
LEMMA SafeDrop ==
    ASSUME ManualContract, IInv, NEW o \in Obj, Drop(o)
    PROVE  HeapInv' /\ MarkInvariant'
<1>1. TypeOK /\ HeapInv /\ MarkInvariant
  BY DEF IInv
<1>3. Live' \subseteq Live
  BY <1>1, LiveClosed, LiveWithin DEF Drop
<1>4. HeapInv'
  <2>1. \A s \in pend' : ManualVdb /\ s[1] \in stk' /\ s[2] \in stk'
    BY <1>1 DEF HeapInv, Drop, ManualContract
  <2> QED
    BY <1>1, <1>3, <2>1, HeapKept DEF HeapInv, Drop
<1>5. MarkInvariant'
  <2>1. \A m \in Node, g \in Field : Covered(m, g) => Covered(m, g)'
    BY CoveredKept DEF Drop
  <2>2. Live' \cap marked' \subseteq Live \cap marked /\ Live' \subseteq Node
    BY <1>1, <1>3, LiveClosed, ZenonT(30) DEF Drop, Node
  <2> QED
    BY <1>1, <2>1, <2>2, MarkKept DEF MarkInvariant, Drop, MarkFrame, Node
<1> QED
  BY <1>4, <1>5

(* Calling GC_dirty. *)
LEMMA SafeDirty ==
    ASSUME IInv, NEW s \in pend, GC_dirty(s)
    PROVE  HeapInv' /\ MarkInvariant'
<1>1. TypeOK /\ HeapInv /\ MarkInvariant
  BY DEF IInv
<1>3. Live' = Live
  BY LiveSame DEF GC_dirty
<1>4. HeapInv'
  <2>1. \A t \in pend' : ManualVdb /\ t[1] \in stk' /\ t[2] \in stk'
    BY <1>1 DEF HeapInv, GC_dirty
  <2> QED
    BY <1>1, <1>3, <2>1, HeapKept DEF HeapInv, GC_dirty
<1>5. MarkInvariant'
  <2>1. ASSUME NEW m \in Node, NEW g \in Field, Covered(m, g) PROVE Covered(m, g)'
    <3>1. CASE <<m, ptr[m][g]>> = s
      <4>1. s[1] = m /\ Running'
        BY <3>1 DEF GC_dirty, Running
      <4> QED
        BY <4>1, ZenonT(30) DEF GC_dirty, Covered, Page
    <3>2. CASE <<m, ptr[m][g]>> # s
      BY <2>1, <3>2 DEF GC_dirty, Covered, Scanning, Page, Running
    <3> QED
      BY <3>1, <3>2
  <2>2. Live' \cap marked' \subseteq Live \cap marked /\ Live' \subseteq Node
    BY <1>1, <1>3, LiveClosed DEF GC_dirty, Node
  <2> QED
    BY <1>1, <2>1, <2>2, MarkKept DEF MarkInvariant, GC_dirty, MarkFrame, Node
<1> QED
  BY <1>4, <1>5

(* Writing a field: the page is dirtied, or GC_dirty is pending. *)
LEMMA SafeStore ==
    ASSUME IInv, NEW n \in Node, NEW f \in Field, NEW v \in Obj \cup {Null}, Store(n, f, v)
    PROVE  HeapInv' /\ MarkInvariant'
<1>1. TypeOK /\ HeapInv /\ MarkInvariant
  BY DEF IInv
<1>2. /\ ptr' = [ptr EXCEPT ![n][f] = v] /\ ptr \in Graphs
      /\ n \in Live \cup Root /\ v \in Live \cup {Null}
  BY <1>1, LiveClosed DEF Store, TypeOK
<1>3. /\ ptr'[n][f] = v
      /\ \A m \in Node, g \in Field : m # n \/ g # f => ptr'[m][g] = ptr[m][g]
  BY <1>2 DEF Graphs
<1>4. Live' \subseteq Live
  <2>1. \A m \in Live \cup Root, g \in Field : ptr'[m][g] \in Live \cup {Null}
    BY <1>1, <1>2, <1>3, LiveClosed DEF Node
  <2> QED
    BY <1>1, <2>1, LiveClosed, LiveWithin, ZenonT(30) DEF Store
<1>5. HeapInv'
  <2>1. \A t \in pend' : ManualVdb /\ t[1] \in stk' /\ t[2] \in stk'
    BY <1>1 DEF HeapInv, Store
  <2>2. n \notin FreeObjs /\ FreeObjs \subseteq Node
    BY <1>1, <1>2, NodesDistinct DEF HeapInv, NoLiveReclaimed, FreeObjs, TypeOK, Node
  <2>3. \A o \in FreeObjs, g \in Field : ptr'[o][g] = Null
    BY <1>1, <1>3, <2>2 DEF HeapInv
  <2> QED
    BY <1>1, <1>4, <2>1, <2>3, HeapKept DEF Store
<1>6. MarkInvariant'
  <2>1. GC_dirty_pages \subseteq GC_dirty_pages' /\ pend \subseteq pend'
    BY DEF Store, WriteDirties
  <2>2. ASSUME NEW m \in Node, NEW g \in Field, m # n \/ g # f, Covered(m, g)
        PROVE  Covered(m, g)'
    BY <1>3, <2>1, <2>2, CoveredKept DEF Store
  <2>3. Covered(n, f)' \/ (n \in Obj /\ Exempt(n)) \/ (n \in Root /\ RootExempt(n))
    <3>1. CASE ManualVdb /\ n \in Obj /\ v # Null
      BY <1>3, <3>1 DEF Store, Covered
    <3>2. CASE v = Null
      BY <1>3, <3>2 DEF Covered
    <3>3. CASE ~Incremental
      BY <3>3, ModeAssumption DEF Store, Exempt, RootExempt, Node
    <3>4. CASE n \in Root /\ ~StaticVdb
      BY <3>4 DEF Store, RootExempt
    <3>5. CASE Incremental /\ ~ManualVdb /\ (n \in Obj \/ StaticVdb)
      BY <3>5 DEF Store, WriteDirties, GC_auto_incremental, Covered, Running
    <3> QED
      BY <3>1, <3>2, <3>3, <3>4, <3>5, ModeAssumption, ZenonT(30) DEF Node
  <2>4. Live' \cap marked' \subseteq Live \cap marked /\ Live' \subseteq Obj
    BY <1>1, <1>4, LiveClosed DEF Store
  <2>5. ASSUME NEW m \in Live' \cap marked', NEW g \in Field
        PROVE  Covered(m, g)' \/ (m \in Live \cap marked /\ (Exempt(m) \/ ~Covered(m, g)))
    BY <2>2, <2>3, <2>4, NodesDistinct DEF Node
  <2>6. ASSUME NEW r \in Root, NEW g \in Field
        PROVE  RootExempt(r) \/ ~Covered(r, g) \/ Covered(r, g)'
    BY <2>2, <2>3, NodesDistinct DEF Node
  <2> QED
    BY <1>1, <2>5, <2>6, MarkKept DEF Store, MarkFrame
<1> QED
  BY <1>5, <1>6

(* Allocating from a free list: the object is empty, so that its mark bit,  *)
(* set or not, covers no edge.                                             *)
LEMMA SafeMalloc ==
    ASSUME IInv, NEW o \in Obj, GC_malloc(o)
    PROVE  HeapInv' /\ MarkInvariant'
<1>1. TypeOK /\ HeapInv /\ MarkInvariant /\ CtlInv
  BY DEF IInv
<1>2. o \in FreeObjs /\ \A f \in Field : ptr[o][f] = Null
  BY <1>1, ZenonT(30) DEF GC_malloc, FreeObjs, HeapInv
<1>3. Live' \subseteq Live \cup {o}
  <2>1. \A m \in Live \cup {o} \cup Root, g \in Field : ptr'[m][g] \in Live \cup {o} \cup {Null}
    BY <1>1, <1>2, LiveClosed, ZenonT(30) DEF GC_malloc
  <2>2. stk' \subseteq Live \cup {o} /\ owned' \subseteq Live \cup {o} /\ Live \cup {o} \in SUBSET Obj
    BY <1>1, LiveClosed, ZenonT(30) DEF GC_malloc, Holds
  <2> QED
    BY <2>1, <2>2, LiveWithin, ZenonT(30)
<1>4. FreeObjs' = FreeObjs \ {o} /\ o \notin Live
  BY <1>1, <1>2 DEF GC_malloc, FreeObjs, HeapInv, ObjsIn, NoLiveReclaimed
<1>5. UNCHANGED <<marked, freeBlk, reclaimq, pc, caller, mayStop, ptr, pend>> /\ stk \subseteq stk'
      /\ flist = flist' \cup {o} /\ flist' \subseteq flist /\ pc = "idle"
  BY ZenonT(30) DEF GC_malloc, LockFree, Holds
<1>6. HeapInv'
  <2>1. NoLiveReclaimed' /\ \A x \in FreeObjs', f \in Field : ptr'[x][f] = Null
    BY <1>1, <1>3, <1>4, <1>5, ZenonT(30) DEF HeapInv, NoLiveReclaimed
  <2>2. /\ owned' \subseteq marked' \cap UncollObjs
        /\ Live' \cap UncollObjs \subseteq owned'
        /\ flist' \cap UncollObjs \subseteq marked'
    BY <1>1, <1>3, <1>5 DEF HeapInv, GC_malloc, UncollObjs, ObjsIn
  <2>3. SweepSafe'
    BY <1>1, <1>3, <1>5 DEF HeapInv, SweepSafe, CtlInv
  <2> QED
    BY <1>1, <1>5, <2>1, <2>2, <2>3, ZenonT(30) DEF HeapInv, CompleteAtFinish, UncollObjs, ObjsIn
<1>7. MarkInvariant'
  <2>1. \A m \in Node, g \in Field : Covered(m, g) => Covered(m, g)'
    BY CoveredKept DEF GC_malloc, WriteDirties
  <2>2. \A g \in Field : Covered(o, g)'
    BY <1>2, <1>5, ZenonT(30) DEF Covered
  <2>3. ASSUME NEW m \in Live' \cap marked', NEW g \in Field
        PROVE  Covered(m, g)' \/ (m \in Live \cap marked /\ (Exempt(m) \/ ~Covered(m, g)))
    BY <1>1, <1>3, <1>5, <2>1, <2>2, LiveClosed, ZenonT(30) DEF Node
  <2> QED
    BY <1>1, <2>1, <2>3, MarkKept DEF GC_malloc, MarkFrame, Node, LockFree, Running
<1> QED
  BY <1>6, <1>7

(* Taking a free block: for one large object, or for a new free list. *)
LEMMA SafeNewHblk ==
    ASSUME IInv, NEW b \in Block, GC_new_hblk(b)
    PROVE  HeapInv' /\ MarkInvariant'
<1>1. TypeOK /\ HeapInv /\ MarkInvariant /\ CtlInv
  BY DEF IInv
<1>2. /\ ObjsOf(b) \subseteq FreeObjs /\ ObjsOf(b) \subseteq Obj
      /\ \A o \in ObjsOf(b), f \in Field : ptr[o][f] = Null
      /\ ObjsOf(b) \cap Live = {}
  BY <1>1, ZenonT(30) DEF GC_new_hblk, GC_alloc_large, FreeObjs, HeapInv, ObjsOf, NoLiveReclaimed
<1>3. /\ UNCHANGED <<reclaimq, pc, caller, mayStop, ptr, pend, owned>> /\ stk \subseteq stk'
      /\ freeBlk' = freeBlk \ {b} /\ pc = "idle" /\ b \in freeBlk
  BY DEF GC_new_hblk, GC_alloc_large, LockFree, Holds
<1>4. CASE b \in Large
  <2>1. Live' \subseteq Live \cup ObjsOf(b)
    <3>1. \A m \in Live \cup ObjsOf(b) \cup Root, g \in Field :
             ptr'[m][g] \in Live \cup ObjsOf(b) \cup {Null}
      BY <1>1, <1>2, <1>3, LiveClosed
    <3>2. /\ stk' \subseteq Live \cup ObjsOf(b) /\ owned' \subseteq Live \cup ObjsOf(b)
          /\ Live \cup ObjsOf(b) \in SUBSET Obj
      BY <1>1, <1>2, <1>3, <1>4, LiveClosed, ZenonT(30) DEF GC_new_hblk, GC_alloc_large, Holds
    <3> QED
      BY <3>1, <3>2, LiveWithin, ZenonT(30)
  <2>2. UNCHANGED <<flist, marked>>
    BY <1>4 DEF GC_new_hblk, GC_alloc_large
  <2>3. FreeObjs' = FreeObjs \ ObjsOf(b)
    BY <1>1, <1>3, <2>2, ZenonT(30) DEF FreeObjs, ObjsOf, HeapInv, ObjsIn
  <2>4. HeapInv'
    <3>1. NoLiveReclaimed' /\ \A x \in FreeObjs', f \in Field : ptr'[x][f] = Null
      BY <1>1, <1>3, <2>1, <2>3 DEF HeapInv, NoLiveReclaimed
    <3>2. ObjsOf(b) \cap UncollObjs = {} /\ \A c \in reclaimq : ObjsOf(c) \cap ObjsOf(b) = {}
      BY <1>1, <1>3, <1>4, HeapAssumption DEF ObjsOf, UncollObjs, ObjsIn, HeapInv
    <3>3. SweepSafe'
      BY <1>1, <1>3, <2>1, <2>2, <3>2 DEF HeapInv, SweepSafe, CtlInv
    <3>4. flist' \cap ObjsIn(freeBlk)' = {} /\ UncollObjs' = UncollObjs
      BY <1>1, <1>3, <2>2 DEF HeapInv, ObjsIn, UncollObjs
    <3> QED
      BY <1>1, <1>3, <2>1, <2>2, <3>1, <3>2, <3>3, <3>4, ZenonT(30) DEF HeapInv, CompleteAtFinish
  <2>5. MarkInvariant'
    <3>1. \A m \in Node, g \in Field : Covered(m, g) => Covered(m, g)'
      BY <2>2, CoveredKept DEF GC_new_hblk, GC_alloc_large, WriteDirties
    <3>2. \A o \in ObjsOf(b), g \in Field : Covered(o, g)'
      BY <1>2, <1>3 DEF Covered
    <3>3. ASSUME NEW m \in Live' \cap marked', NEW g \in Field
          PROVE  Covered(m, g)' \/ (m \in Live \cap marked /\ (Exempt(m) \/ ~Covered(m, g)))
      BY <1>1, <2>1, <2>2, <3>1, <3>2, LiveClosed, ZenonT(30) DEF Node
    <3> QED
      BY <1>1, <3>1, <3>3, MarkKept DEF GC_new_hblk, GC_alloc_large, MarkFrame, Node, LockFree, Running
  <2> QED
    BY <2>4, <2>5
<1>5. CASE b \notin Large
  <2>1. Live' = Live /\ flist' = flist \cup ObjsOf(b)
        /\ marked' = IF b \in Uncollectable THEN marked \cup ObjsOf(b) ELSE marked
    BY <1>3, <1>5, LiveSame, ZenonT(30) DEF GC_new_hblk, GC_alloc_large
  <2>2. FreeObjs' = FreeObjs
    BY <1>3, <2>1 DEF FreeObjs, ObjsOf
  <2>3. HeapInv'
    <3>1. NoLiveReclaimed' /\ \A x \in FreeObjs', f \in Field : ptr'[x][f] = Null
      BY <1>1, <1>3, <2>1, <2>2 DEF HeapInv, NoLiveReclaimed
    <3>2. flist' \cap UncollObjs \subseteq marked'
      BY <1>1, <2>1 DEF ObjsOf, UncollObjs, ObjsIn, HeapInv
    <3>3. SweepSafe'
      <4>1. \A c \in reclaimq : ObjsOf(c) \cap ObjsOf(b) = {}
        BY <1>1, <1>3 DEF ObjsOf, HeapInv
      <4> QED
        BY <1>1, <1>3, <2>1, <4>1 DEF HeapInv, SweepSafe, CtlInv
    <3>4. flist' \cap ObjsIn(freeBlk)' = {} /\ UncollObjs' = UncollObjs
      BY <1>1, <1>3, <2>1 DEF HeapInv, ObjsIn, ObjsOf, UncollObjs
    <3>5. owned' \subseteq marked' \cap UncollObjs
      BY <1>1, <1>3, <2>1 DEF HeapInv
    <3> QED
      BY <1>1, <1>3, <2>1, <3>1, <3>2, <3>3, <3>4, <3>5, ZenonT(30)
         DEF HeapInv, CompleteAtFinish
  <2>4. MarkInvariant'
    <3>1. \A m \in Node, g \in Field : Covered(m, g) => Covered(m, g)'
      BY <1>3, <2>1, CoveredKept DEF GC_new_hblk, GC_alloc_large, WriteDirties
    <3>2. Live' \cap marked' \subseteq Live \cap marked /\ Live \subseteq Node
      BY <1>1, <1>2, <2>1, LiveClosed, ZenonT(30) DEF Node
    <3> QED
      BY <1>1, <3>1, <3>2, MarkKept DEF GC_new_hblk, GC_alloc_large, MarkFrame, Node, LockFree, Running
  <2> QED
    BY <2>3, <2>4
<1> QED
  BY <1>4, <1>5

(* Removing the entries of one object keeps those of the others. *)
LEMMA EntriesKept ==
    ASSUME TypeOK, NEW o, NEW n \in Node \ {o}, GC_mark_stack' \in WithoutEntriesOf(o),
           \E i \in DOMAIN GC_mark_stack : GC_mark_stack[i] = n
    PROVE  \E i \in DOMAIN GC_mark_stack' : GC_mark_stack'[i] = n
<1>1. PICK i \in DOMAIN GC_mark_stack : GC_mark_stack[i] = n
  OBVIOUS
<1>2. PICK k, p :
         /\ k \in 0..Len(GC_mark_stack) /\ p \in [1..k -> DOMAIN GC_mark_stack]
         /\ GC_mark_stack' = [j \in 1..k |-> GC_mark_stack[p[j]]]
         /\ \E j \in 1..k : p[j] = i
  BY <1>1 DEF WithoutEntriesOf
<1> QED
  BY <1>1, <1>2

(* Freeing an object: it was not reachable through anything else. *)
LEMMA SafeFree ==
    ASSUME ManualContract, IInv, NEW o \in Obj, GC_free_internal(o)
    PROVE  HeapInv' /\ MarkInvariant'
<1>1. TypeOK /\ HeapInv /\ MarkInvariant /\ CtlInv
  BY DEF IInv
<1>2. /\ Live' \subseteq Live /\ o \notin Live'
  <2> DEFINE S == (stk \cup owned) \ {o}
             R == Reach(ptr, S)
  <2>1. ptr \in Graphs /\ S \in SUBSET Obj
    BY <1>1 DEF TypeOK
  <2>2. R \subseteq Obj /\ Closed(ptr, R, S) /\ o \notin R
    BY <2>1, ReachClosed, ZenonT(30) DEF GC_free_internal
  <2>3. Closed(ptr, Live, S) /\ Live \in SUBSET Obj
    BY <1>1, LiveClosed DEF Closed
  <2>4. R \subseteq Live
    BY <2>3, ReachMinimal
  <2> HIDE DEF R
  <2>5. \A n \in R \cup Root, f \in Field : ptr'[n][f] \in R \cup {Null}
    <3>1. o \notin R \cup Root /\ R \cup Root \subseteq Node
      BY <2>2, NodesDistinct DEF Node
    <3>2. ptr' = Cleared(ptr, {o})
      BY ZenonT(30) DEF GC_free_internal
    <3>3. \A n \in R \cup Root : ptr'[n] = ptr[n]
      BY <3>1, <3>2 DEF Cleared
    <3> QED
      BY <2>2, <3>3 DEF Closed
  <2>6. stk' \subseteq R /\ owned' \subseteq R
    BY <2>2, ZenonT(30) DEF Closed, GC_free_internal
  <2>7. Live' \subseteq R
    BY <2>2, <2>5, <2>6, LiveWithin, ZenonT(30)
  <2> QED
    BY <2>2, <2>4, <2>7
<1>3. /\ UNCHANGED <<reclaimq, pc, caller, mayStop, pend>> /\ pc = "idle"
      /\ stk' = stk \ {o} /\ owned' = owned \ {o} /\ ptr' = Cleared(ptr, {o})
  BY ZenonT(30) DEF GC_free_internal, LockFree
<1>4. o \notin FreeObjs /\ (o \in Live \/ MarkOnFree)
  BY <1>1, LiveClosed, ZenonT(30) DEF GC_free_internal, HeapInv, NoLiveReclaimed
<1>5. \A n \in Node, f \in Field : ptr'[n][f] = IF n = o THEN Null ELSE ptr[n][f]
  BY <1>3 DEF Cleared
<1>6. \A s \in pend' : ManualVdb /\ s[1] \in stk' /\ s[2] \in stk'
  BY <1>1, <1>3, ZenonT(30) DEF HeapInv, ManualContract, GC_free_internal
<1>7. \A c \in reclaimq : ObjsOf(c) \cap (Live \cup flist) \subseteq marked
  BY <1>1, <1>3 DEF HeapInv, SweepSafe, CtlInv
<1>8. MarkInvariant'
  <2>1. GC_dirty_pages \subseteq GC_dirty_pages' /\ UNCHANGED <<pushing, reading, pc>>
        /\ marked \ {o} \subseteq marked'
    BY ZenonT(30) DEF GC_free_internal, WriteDirties, MarksAfterFree
  <2>2. ASSUME NEW m \in Live' \cup Root, NEW g \in Field, Covered(m, g) PROVE Covered(m, g)'
    <3>1. ptr'[m][g] = ptr[m][g] /\ ptr'[m][g] # o /\ m # o /\ m \in Node
      <4>1. TypeOK'
        BY <1>1, TypeMutator DEF Mutator
      <4>2. Live' \subseteq Obj /\ ptr'[m][g] \in Live' \cup {Null}
        <5>1. (TypeOK => /\ Live \subseteq Obj
                         /\ \A n \in Live \cup Root, f \in Field : ptr[n][f] \in Live \cup {Null})'
          BY LiveClosed, PTL
        <5> QED
          BY <4>1, <5>1
      <4> QED
        BY <1>2, <1>5, <4>2, NodesDistinct DEF Node
    <3>2. (\E i \in DOMAIN GC_mark_stack : GC_mark_stack[i] = m)
             => (\E i \in DOMAIN GC_mark_stack' : GC_mark_stack'[i] = m)
      BY <1>1, <3>1, EntriesKept, ZenonT(30) DEF GC_free_internal, DropPendingScans
    <3>3. Scanning(m, g) => Scanning(m, g)'
      BY <2>1, <3>2 DEF Scanning
    <3> QED
      BY <1>3, <2>1, <2>2, <3>1, <3>3, ZenonT(30) DEF Covered, Running
  <2>3. Live' \cap marked' \subseteq Live \cap marked
    BY <1>2, ZenonT(30) DEF GC_free_internal, MarksAfterFree
  <2> QED
    BY <1>1, <2>2, <2>3, MarkKept, ZenonT(30) DEF GC_free_internal, MarkFrame, LockFree, Running
<1>9. CASE BlockOf[o] \notin Large
  <2>1. /\ flist' = flist \cup {o} /\ freeBlk' = freeBlk
        /\ marked' = IF MarkOnFree THEN marked \cup {o} ELSE marked
    BY <1>9, ZenonT(30) DEF GC_free_internal, MarksAfterFree
  <2>2. FreeObjs' = FreeObjs \cup {o} /\ FreeObjs \subseteq Node
    BY <1>1, <2>1, ZenonT(30) DEF FreeObjs, TypeOK, Node
  <2>3. NoLiveReclaimed' /\ \A x \in FreeObjs', f \in Field : ptr'[x][f] = Null
    BY <1>1, <1>2, <1>5, <2>2 DEF HeapInv, NoLiveReclaimed, Node
  <2>4. /\ owned' \subseteq marked' \cap UncollObjs /\ Live' \cap UncollObjs \subseteq owned'
        /\ flist' \cap UncollObjs \subseteq marked'
    BY <1>1, <1>2, <1>3, <1>4, <2>1 DEF HeapInv
  <2>5. SweepSafe'
    BY <1>2, <1>3, <1>4, <1>7, <2>1 DEF SweepSafe
  <2>6. flist' \cap ObjsIn(freeBlk)' = {} /\ UncollObjs' = UncollObjs
    BY <1>1, <1>4, <2>1 DEF HeapInv, ObjsIn, UncollObjs, FreeObjs
  <2>7. HeapInv'
    BY <1>1, <1>3, <1>6, <2>1, <2>3, <2>4, <2>5, <2>6, ZenonT(30) DEF HeapInv, CompleteAtFinish
  <2> QED
    BY <1>8, <2>7
<1>10. CASE BlockOf[o] \in Large
  <2>1. flist' = flist /\ freeBlk' = freeBlk \cup {BlockOf[o]} /\ marked' = marked \ {o}
    BY <1>10, ZenonT(30) DEF GC_free_internal
  <2>2. ObjsOf(BlockOf[o]) = {o}
    BY <1>10, HeapAssumption DEF ObjsOf
  <2>3. FreeObjs' = FreeObjs \cup {o} /\ FreeObjs \subseteq Node
    BY <1>1, <2>1, <2>2 DEF FreeObjs, TypeOK, Node, ObjsOf
  <2>4. NoLiveReclaimed' /\ \A x \in FreeObjs', f \in Field : ptr'[x][f] = Null
    BY <1>1, <1>2, <1>5, <2>3 DEF HeapInv, NoLiveReclaimed, Node
  <2>5. o \notin UncollObjs /\ BlockOf[o] \notin reclaimq
    BY <1>1, <1>10, HeapAssumption DEF UncollObjs, ObjsIn, HeapInv
  <2>6. /\ owned' \subseteq marked' \cap UncollObjs /\ Live' \cap UncollObjs \subseteq owned'
        /\ flist' \cap UncollObjs \subseteq marked'
    BY <1>1, <1>2, <1>3, <2>1, <2>5, ZenonT(30) DEF HeapInv
  <2>7. SweepSafe'
    BY <1>2, <1>3, <1>7, <2>1, <2>5 DEF SweepSafe, ObjsOf
  <2>8. flist' \cap ObjsIn(freeBlk)' = {} /\ UncollObjs' = UncollObjs
    BY <1>1, <1>4, <2>1, <2>2 DEF HeapInv, ObjsIn, UncollObjs, FreeObjs, ObjsOf
  <2>9. reclaimq' \cap (freeBlk' \cup Large) = {}
    BY <1>1, <1>3, <2>1, <2>5 DEF HeapInv
  <2>10. HeapInv'
    BY <1>1, <1>3, <1>6, <2>4, <2>6, <2>7, <2>8, <2>9, ZenonT(30) DEF HeapInv, CompleteAtFinish
  <2> QED
    BY <1>8, <2>10
<1> QED
  BY <1>9, <1>10

(* Sweeping queued blocks: their live objects are marked. *)
LEMMA SafeSweep ==
    ASSUME IInv, pc = "idle", NEW S \in SUBSET reclaimq, GC_reclaim_generic(S),
           UNCHANGED <<stk, owned, freeBlk>>
    PROVE  /\ Live' \subseteq Live
           /\ NoLiveReclaimed'
           /\ \A x \in FreeObjs', f \in Field : ptr'[x][f] = Null
           /\ \A n \in Node, f \in Field : ptr'[n][f] \in {ptr[n][f], Null}
           /\ owned \subseteq MarksAfterSweep(S) \cap UncollObjs
           /\ Live' \cap UncollObjs \subseteq owned
           /\ flist' \cap UncollObjs \subseteq MarksAfterSweep(S)
           /\ flist' \cap ObjsIn(freeBlk)' = {}
           /\ \A b \in reclaimq \ S : ObjsOf(b) \cap (Live \cup flist') \subseteq marked
<1>1. TypeOK /\ HeapInv /\ CtlInv
  BY DEF IInv
<1> DEFINE dead == ObjsIn(S) \ marked
<1>2. flist' = flist \cup dead /\ ptr' = Cleared(ptr, dead)
  BY DEF GC_reclaim_generic
<1>3. \A b \in reclaimq : ObjsOf(b) \cap (Live \cup flist) \subseteq marked
  BY <1>1 DEF HeapInv, SweepSafe, CtlInv
<1>4. dead \cap Live = {}
  BY <1>3 DEF ObjsIn, ObjsOf
<1>5. Live' \subseteq Live
  BY <1>1, <1>2, LiveCleared
<1>6. FreeObjs' = FreeObjs \cup dead
  BY <1>2 DEF FreeObjs
<1>7. \A n \in Node, f \in Field : ptr'[n][f] = IF n \in dead THEN Null ELSE ptr[n][f]
  BY <1>2 DEF Cleared
<1>8. FreeObjs \subseteq Node /\ dead \subseteq Node
  BY <1>1 DEF FreeObjs, TypeOK, ObjsIn, Node
<1>9. /\ owned \subseteq MarksAfterSweep(S) \cap UncollObjs
      /\ flist' \cap UncollObjs \subseteq MarksAfterSweep(S)
      /\ Live' \cap UncollObjs \subseteq owned
  BY <1>1, <1>2, <1>5 DEF HeapInv, MarksAfterSweep, UncollObjs, ObjsIn
<1>10. flist' \cap ObjsIn(freeBlk)' = {}
  BY <1>1, <1>2 DEF HeapInv, ObjsIn
<1>11. \A b \in reclaimq \ S : ObjsOf(b) \cap (Live \cup flist') \subseteq marked
  BY <1>2, <1>3 DEF ObjsIn, ObjsOf
<1>12. NoLiveReclaimed' /\ \A x \in FreeObjs', f \in Field : ptr'[x][f] = Null
  BY <1>1, <1>4, <1>5, <1>6, <1>7, <1>8 DEF HeapInv, NoLiveReclaimed
<1> QED
  BY <1>5, <1>7, <1>9, <1>10, <1>11, <1>12, ZenonT(30)

(* Sweeping one block while allocating. *)
LEMMA SafeReclaim ==
    ASSUME IInv, NEW b \in Block, GC_continue_reclaim(b)
    PROVE  HeapInv' /\ MarkInvariant'
<1>1. TypeOK /\ HeapInv /\ MarkInvariant /\ CtlInv
  BY DEF IInv
<1>2. /\ UNCHANGED <<stk, owned, freeBlk, pc, caller, mayStop, pend>> /\ pc = "idle"
      /\ {b} \in SUBSET reclaimq /\ GC_reclaim_generic({b}) /\ reclaimq' = reclaimq \ {b}
      /\ marked' = MarksAfterSweep({b})
  BY DEF GC_continue_reclaim, LockFree
<1>3. /\ Live' \subseteq Live
      /\ NoLiveReclaimed'
      /\ \A x \in FreeObjs', f \in Field : ptr'[x][f] = Null
      /\ \A n \in Node, f \in Field : ptr'[n][f] \in {ptr[n][f], Null}
      /\ owned \subseteq MarksAfterSweep({b}) \cap UncollObjs
      /\ Live' \cap UncollObjs \subseteq owned
      /\ flist' \cap UncollObjs \subseteq MarksAfterSweep({b})
      /\ flist' \cap ObjsIn(freeBlk)' = {}
      /\ \A c \in reclaimq \ {b} : ObjsOf(c) \cap (Live \cup flist') \subseteq marked
  BY <1>2, SafeSweep, ZenonT(30)
<1>4. marked \subseteq marked' /\ UncollObjs' = UncollObjs
  BY <1>2 DEF MarksAfterSweep, UncollObjs
<1>5. HeapInv'
  <2>1. SweepSafe'
    BY <1>2, <1>3, <1>4, ZenonT(30) DEF SweepSafe
  <2>2. /\ CompleteAtFinish'
        /\ \A s \in pend' : ManualVdb /\ s[1] \in stk' /\ s[2] \in stk'
        /\ reclaimq' \cap (freeBlk' \cup Large) = {}
    BY <1>1, <1>2 DEF CompleteAtFinish, HeapInv
  <2> QED
    BY <1>2, <1>3, <1>4, <2>1, <2>2, ZenonT(30) DEF HeapInv
<1>6. MarkInvariant'
  <2>1. \A m \in Node, g \in Field : Covered(m, g) => Covered(m, g)'
    BY <1>3, <1>4, CoveredKept, ZenonT(30) DEF GC_continue_reclaim, WriteDirties
  <2>2. Live' \cap marked' \subseteq Live \cap marked /\ Live \subseteq Node
    BY <1>1, <1>2, <1>3, LiveClosed, ZenonT(30) DEF Node, MarksAfterSweep, UncollObjs, ObjsIn, HeapInv
  <2> QED
    BY <1>1, <2>1, <2>2, MarkKept DEF GC_continue_reclaim, MarkFrame, Node, LockFree, Running
<1> QED
  BY <1>5, <1>6

(* The client's steps keep the invariant. *)
LEMMA SafeMutator ==
    ASSUME ManualContract, IInv, Mutator
    PROVE  IInv'
<1>1. HeapInv' /\ MarkInvariant'
  BY SafeLoad, SafeStore, SafeDrop, SafeDirty, SafeMalloc, SafeNewHblk, SafeFree, SafeReclaim
     DEF Mutator
<1> QED
  BY <1>1, TypeMutator, CtlMutator DEF IInv

-----------------------------------------------------------------------------
(* Starting, abandoning and ending a collection. *)

(* GC_read_dirty hands what was written since the last collection to the    *)
(* scan of the rescuers.                                                   *)
LEMMA SafePartial ==
    ASSUME IInv, Incremental, GC_mark_state = "NONE", pc \in {"idle", "little"},
           GC_initiate_gc("NONE"), pc' = "stopped",
           UNCHANGED <<heapVars, blockVars, stackVars, callVars, marked,
                       GC_objects_are_marked>>
    PROVE  HeapInv' /\ MarkInvariant'
<1>1. TypeOK /\ HeapInv /\ MarkInvariant /\ CtlInv
  BY DEF IInv
<1>2. /\ Live' = Live /\ FreeObjs' = FreeObjs /\ UncollObjs' = UncollObjs
      /\ ObjsIn(freeBlk)' = ObjsIn(freeBlk)
  BY LiveSame DEF FreeObjs, UncollObjs, ObjsIn
<1>3. HeapInv'
  <2>1. SweepSafe'
    BY <1>1, <1>2 DEF HeapInv, SweepSafe, CtlInv
  <2> QED
    BY <1>1, <1>2, <2>1 DEF HeapInv, NoLiveReclaimed, CompleteAtFinish
<1>4. /\ GC_grungy_pages' = GC_dirty_pages /\ GC_mark_state' = "PUSH_RESCUERS"
      /\ GC_scan_ptr' = 0 /\ ~inRoots' /\ ~InCall /\ GC_mark_stack = <<>> /\ Running
  BY <1>1 DEF GC_initiate_gc, GC_read_dirty, CtlInv, InCall, Running
<1>5. \A n, f : ~Scanning(n, f)
  BY <1>4 DEF Scanning, InCall
<1>6. ASSUME NEW n \in Live \cap marked, NEW f \in Field PROVE Exempt(n)' \/ Covered(n, f)'
  <2>1. Covered(n, f)
    BY <1>1, <1>4 DEF MarkInvariant, Exempt, Ahead
  <2>2. n \in Obj
    BY <1>1, LiveClosed
  <2>3. BlockOf[n] >= 0
    BY <2>2, BlockPositive
  <2> QED
    BY <1>4, <1>5, <2>1, <2>2, <2>3 DEF Covered, Exempt, Ahead, Page
<1>7. ASSUME NEW r \in Root, NEW f \in Field PROVE RootExempt(r)' \/ Covered(r, f)'
  <2>1. CASE ~StaticVdb
    BY <1>4, <2>1 DEF RootExempt, RootsAhead
  <2>2. CASE StaticVdb
    <3>1. Covered(r, f) /\ Page(r) = r
      BY <1>1, <1>4, <2>2, NodesDistinct, ZenonT(30) DEF MarkInvariant, RootExempt, RootsAhead, Page
    <3> QED
      BY <1>4, <1>5, <3>1 DEF Covered, RootExempt, RootsAhead
  <2> QED
    BY <2>1, <2>2
<1>8. RootsAhead'
  BY <1>4 DEF RootsAhead
<1> QED
  BY <1>2, <1>3, <1>6, <1>7, <1>8 DEF MarkInvariant

(* A full collection forgets all marks but the uncollectable ones, after    *)
(* sweeping what it may still need the marks for.                          *)
LEMMA SafeFull ==
    ASSUME IInv, LockFree, NEW S \in SUBSET reclaimq, GC_reclaim_generic(S),
           GC_clear_marks(MarksAfterSweep(S)), GC_initiate_gc("INVALID"), pc' = "stopped",
           reclaimq' \subseteq reclaimq,
           reclaimq' = {} \/ (caller' = "try_to_collect" /\ ~mayStop'),
           UNCHANGED <<stk, owned, pend, freeBlk>>
    PROVE  HeapInv' /\ MarkInvariant'
<1>1. TypeOK /\ HeapInv
  BY DEF IInv
<1>2. /\ Live' \subseteq Live
      /\ NoLiveReclaimed'
      /\ \A x \in FreeObjs', f \in Field : ptr'[x][f] = Null
      /\ owned \subseteq MarksAfterSweep(S) \cap UncollObjs
      /\ Live' \cap UncollObjs \subseteq owned
      /\ flist' \cap UncollObjs \subseteq MarksAfterSweep(S)
      /\ flist' \cap ObjsIn(freeBlk)' = {}
  BY SafeSweep, ZenonT(30) DEF LockFree
<1>3. marked' = MarksAfterSweep(S) \cap UncollObjs /\ UncollObjs' = UncollObjs
  BY DEF GC_clear_marks, UncollObjs
<1>4. SweepSafe' /\ CompleteAtFinish'
  BY DEF SweepSafe, CompleteAtFinish
<1>5. reclaimq' \cap (freeBlk' \cup Large) = {}
      /\ \A s \in pend' : ManualVdb /\ s[1] \in stk' /\ s[2] \in stk'
  BY <1>1 DEF HeapInv
<1>6. HeapInv'
  BY <1>2, <1>3, <1>4, <1>5 DEF HeapInv
<1>7. GC_mark_state' = "INVALID"
  BY DEF GC_initiate_gc, GC_read_dirty
<1>8. MarkInvariant'
  <2>1. \A n \in Live' \cap marked' : Exempt(n)'
    BY <1>3, <1>7 DEF Exempt, UncollObjs, ObjsIn
  <2>2. RootsAhead' /\ \A r \in Root : RootExempt(r)'
    BY <1>7 DEF RootsAhead, RootExempt
  <2> QED
    BY <2>1, <2>2 DEF MarkInvariant
<1> QED
  BY <1>6, <1>8

(* Every way to start a collection keeps the invariant. *)
LEMMA SafeStartGc ==
    ASSUME IInv, StartGc
    PROVE  IInv'
<1> SUFFICES HeapInv' /\ MarkInvariant'
  BY TypeStartGc, CtlStartGc DEF IInv
<1>1. CASE MaybeGcPartial
  BY <1>1, SafePartial DEF MaybeGcPartial, LockFree, GC_stopped_mark
<1>2. CASE MaybeGcFull
  <2>1. PICK S \in SUBSET reclaimq :
          GC_reclaim_generic(S) /\ GC_clear_marks(MarksAfterSweep(S))
    BY <1>2 DEF MaybeGcFull
  <2>2. LockFree /\ GC_initiate_gc("INVALID") /\ pc' = "stopped" /\ reclaimq' = {}
        /\ UNCHANGED <<stk, owned, pend, freeBlk>>
    BY <1>2 DEF MaybeGcFull, GC_stopped_mark
  <2> QED
    BY <2>1, <2>2, SafeFull
<1>3. ASSUME NEW canStop \in BOOLEAN, GC_try_to_collect_inner(canStop)
      PROVE  HeapInv' /\ MarkInvariant'
  <2> DEFINE S == IF canStop THEN reclaimq ELSE {}
  <2>1. /\ S \in SUBSET reclaimq /\ GC_reclaim_generic(S) /\ reclaimq' = reclaimq \ S
        /\ GC_clear_marks(MarksAfterSweep(S))
    BY <1>3 DEF GC_try_to_collect_inner
  <2>2. LockFree /\ GC_initiate_gc("INVALID") /\ pc' = "stopped"
        /\ caller' = "try_to_collect" /\ mayStop' = canStop
        /\ UNCHANGED <<stk, owned, pend, freeBlk>>
    BY <1>3 DEF GC_try_to_collect_inner, GC_stopped_mark
  <2>3. reclaimq' \subseteq reclaimq
        /\ (reclaimq' = {} \/ (caller' = "try_to_collect" /\ ~mayStop'))
    BY <2>1, <2>2
  <2> HIDE DEF S
  <2> QED
    BY <2>1, <2>2, <2>3, SafeFull
<1> QED
  BY <1>1, <1>2, <1>3 DEF StartGc

(* An abandoned collection may be resumed: what is exempt or covered stays  *)
(* so, and a collection that may not be resumed was not incremental.       *)
LEMMA SafeAbandon ==
    ASSUME IInv, Abandon
    PROVE  IInv'
<1> SUFFICES HeapInv' /\ MarkInvariant'
  BY TypeAbandon, CtlAbandon DEF IInv
<1>1. TypeOK /\ HeapInv /\ MarkInvariant
  BY DEF IInv
<1>2. /\ Live' = Live /\ FreeObjs' = FreeObjs /\ UncollObjs' = UncollObjs
      /\ ObjsIn(freeBlk)' = ObjsIn(freeBlk) /\ UNCHANGED <<heapVars, blockVars, marked>>
      /\ pc = "stopped" /\ pc' = "idle" /\ mayStop
  BY LiveSame DEF FreeObjs, UncollObjs, ObjsIn, Abandon
<1>3. HeapInv'
  <2>1. SweepSafe'
    BY <1>1, <1>2 DEF HeapInv, SweepSafe
  <2> QED
    BY <1>1, <1>2, <2>1 DEF HeapInv, NoLiveReclaimed, CompleteAtFinish
<1>4. Running'
  BY <1>2 DEF Running
<1>5. CASE ~Incremental
  BY <1>3, <1>4, <1>5, ModeAssumption DEF MarkInvariant, Exempt, RootExempt
<1>6. CASE Incremental
  <2>1. UNCHANGED <<GC_mark_state, GC_mark_stack, dirtyVars, callVars, GC_scan_ptr,
                    GC_objects_are_marked>>
    BY <1>6 DEF Abandon
  <2>2. \A n : Exempt(n) => Exempt(n)'
    BY <1>2, <2>1 DEF Exempt, Ahead, Running
  <2>3. \A r : RootExempt(r) => RootExempt(r)'
    BY <1>2, <2>1 DEF RootExempt, RootsAhead, Running
  <2>4. \A n, f : Covered(n, f) => Covered(n, f)'
    BY <1>2, <1>4, <2>1 DEF Covered, Scanning
  <2> QED
    BY <1>1, <1>2, <1>3, <1>4, <2>2, <2>3, <2>4 DEF MarkInvariant
<1> QED
  BY <1>5, <1>6

(* The increments of the marking, the last one with the world stopped. *)
LEMMA SafeLittle ==
    ASSUME IInv, CollectALittle
    PROVE  IInv'
<1> SUFFICES HeapInv' /\ MarkInvariant'
  BY TypeLittle, CtlLittle DEF IInv
<1>1. TypeOK /\ HeapInv /\ MarkInvariant /\ CtlInv
  BY DEF IInv
<1>2. CASE LittleStop
  BY <1>1, <1>2, SafePartial DEF LittleStop, AtCall, CtlInv, GC_stopped_mark,
       GC_collection_in_progress
<1>3. CASE LittleStart \/ LittlePause
  <2>1. /\ UNCHANGED <<heapVars, blockVars, dirtyVars, stackVars, callVars, markVars, caller, mayStop>>
        /\ pc \in {"idle", "little"} /\ pc' \in {"idle", "little"}
    BY <1>3 DEF LittleStart, LittlePause, LockFree
  <2>2. /\ Live' = Live /\ FreeObjs' = FreeObjs /\ UncollObjs' = UncollObjs
        /\ ObjsIn(freeBlk)' = ObjsIn(freeBlk)
    BY <2>1, LiveSame DEF FreeObjs, UncollObjs, ObjsIn
  <2>3. HeapInv'
    <3>1. SweepSafe'
      BY <1>1, <2>1, <2>2 DEF HeapInv, SweepSafe
    <3> QED
      BY <1>1, <2>1, <2>2, <3>1 DEF HeapInv, NoLiveReclaimed, CompleteAtFinish
  <2>4. (\A n : Exempt(n) => Exempt(n)') /\ (\A r : RootExempt(r) => RootExempt(r)')
    BY <2>1 DEF Exempt, Ahead, Running, RootExempt, RootsAhead
  <2>5. (\A n, f : Covered(n, f) => Covered(n, f)') /\ Running'
    BY <2>1, ZenonT(30) DEF Covered, Scanning, Running
  <2>6. MarkInvariant'
    BY <1>1, <2>1, <2>2, <2>4, <2>5 DEF MarkInvariant
  <2> QED
    BY <2>3, <2>6
<1> QED
  BY <1>2, <1>3 DEF CollectALittle

(* GC_finish_collection frees only unmarked objects, and all live ones are  *)
(* marked.                                                                 *)
LEMMA SafeFinish ==
    ASSUME IInv, GC_finish_collection
    PROVE  IInv'
<1> SUFFICES HeapInv' /\ MarkInvariant'
  BY TypeFinish, CtlFinish DEF IInv
<1>1. TypeOK /\ HeapInv /\ MarkInvariant /\ CtlInv
  BY DEF IInv
<1> DEFINE marks == marked \ flist
           empty == {b \in Block \ freeBlk : ObjsOf(b) \cap marks = {}}
<1>2. /\ marked' = marks /\ freeBlk' = freeBlk \cup empty /\ flist' = {}
      /\ reclaimq' \cap (freeBlk' \cup Large) = {} /\ ptr' = Cleared(ptr, ObjsIn(empty))
      /\ UNCHANGED <<stk, owned, pend>> /\ pc = "finish" /\ pc' = "idle"
  BY DEF GC_finish_collection, GC_start_reclaim, GC_reclaim_block,
         GC_clear_fl_marks
<1>3. Live \subseteq marks
  BY <1>1, <1>2, ZenonT(30) DEF HeapInv, CompleteAtFinish, NoLiveReclaimed, FreeObjs
<1>4. Live' \subseteq Live
  BY <1>1, <1>2, LiveCleared
<1>5. FreeObjs' = ObjsIn(freeBlk) \cup ObjsIn(empty)
  BY <1>2, ZenonT(30) DEF FreeObjs, ObjsIn
<1>6. Live \cap ObjsIn(empty) = {} /\ ObjsIn(freeBlk) \subseteq FreeObjs
  BY <1>3 DEF ObjsIn, ObjsOf, FreeObjs
<1>7. \A n \in Node, f \in Field : ptr'[n][f] = IF n \in ObjsIn(empty) THEN Null ELSE ptr[n][f]
  BY <1>2 DEF Cleared
<1>8. ObjsIn(freeBlk) \cup ObjsIn(empty) \subseteq Node
  BY DEF ObjsIn, Node
<1> HIDE DEF empty
<1>9. NoLiveReclaimed' /\ \A x \in FreeObjs', f \in Field : ptr'[x][f] = Null
  BY <1>1, <1>4, <1>5, <1>6, <1>7, <1>8, ZenonT(30) DEF HeapInv, NoLiveReclaimed
<1>10. /\ owned' \subseteq marked' \cap UncollObjs' /\ Live' \cap UncollObjs' \subseteq owned'
       /\ flist' \cap UncollObjs' \subseteq marked' /\ flist' \cap ObjsIn(freeBlk)' = {}
  <2>1. UncollObjs' = UncollObjs
    BY DEF UncollObjs, ObjsIn
  <2> QED
    BY <1>1, <1>2, <1>3, <1>4, <2>1, LiveClosed, ZenonT(30) DEF HeapInv
<1>11. SweepSafe' /\ CompleteAtFinish'
  BY <1>2, <1>3, <1>4 DEF SweepSafe, CompleteAtFinish
<1>12. HeapInv'
  BY <1>1, <1>2, <1>9, <1>10, <1>11, ZenonT(30) DEF HeapInv
<1>13. \A n \in Live' \cup Root, f \in Field : Covered(n, f)'
  <2>1. \A n \in Live \cup Root, f \in Field : ptr'[n][f] \in marks \cup {Null}
    BY <1>1, <1>3, <1>7, LiveClosed DEF Node
  <2> QED
    BY <1>2, <1>4, <2>1 DEF Covered
<1>14. MarkInvariant'
  BY <1>2, <1>13 DEF MarkInvariant, Running
<1> QED
  BY <1>12, <1>14
=============================================================================
