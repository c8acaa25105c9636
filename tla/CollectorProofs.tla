--------------------------- MODULE CollectorProofs ---------------------------
(***************************************************************************)
(* Type correctness of the collector (Collector.tla), for every heap, every *)
(* size of the mark stack and every mode, and the lemmas on reachability   *)
(* and on the mark stack that the proof of its safety uses.                *)
(***************************************************************************)
EXTENDS Collector, TLAPS

-----------------------------------------------------------------------------
(* Reachability. *)

(* Reach is below every closed set. *)
LEMMA ReachMinimal ==
    ASSUME NEW g, NEW S, NEW R \in SUBSET Obj, Closed(g, R, S)
    PROVE  Reach(g, S) \subseteq R
  BY DEF Reach

(* Reach is itself closed. *)
LEMMA ReachClosed ==
    ASSUME NEW g \in Graphs, NEW S \in SUBSET Obj
    PROVE  /\ Reach(g, S) \subseteq Obj
           /\ Closed(g, Reach(g, S), S)
<1>1. Reach(g, S) \subseteq Obj
  BY DEF Reach
<1>2. S \subseteq Reach(g, S)
  BY DEF Reach, Closed
<1>3. ASSUME NEW n \in Reach(g, S) \cup Root, NEW f \in Field
      PROVE  g[n][f] \in Reach(g, S) \cup {Null}
  <2>1. g[n][f] \in Obj \cup {Null}
    BY <1>1, <1>3 DEF Graphs, Node
  <2>2. ASSUME g[n][f] # Null, NEW R \in SUBSET Obj, Closed(g, R, S)
        PROVE  g[n][f] \in R
    BY <1>3, <2>2, <1>1 DEF Reach, Closed
  <2> QED
    BY <2>1, <2>2 DEF Reach
<1> QED
  BY <1>1, <1>2, <1>3 DEF Closed

(* Clearing fields keeps a graph a graph. *)
LEMMA ClearedType ==
    ASSUME NEW g \in Graphs, NEW D
    PROVE  Cleared(g, D) \in Graphs
  BY DEF Graphs, Cleared

-----------------------------------------------------------------------------
(* Type correctness. *)
(* The default provers in their order, then SMT once more with more time. *)
USE SMT, Zenon, SMTT(30)
USE DEF heapVars, blockVars, dirtyVars, stackVars, callVars, ctlVars, markVars

(* A push keeps the mark stack within its size, overflow included. *)
LEMMA PushType ==
    ASSUME TypeOK, NEW n \in Node, GC_ms_push_obj_descr(n)
    PROVE  /\ GC_mark_stack' \in Seq(Node)
           /\ Len(GC_mark_stack') <= GC_mark_stack_size
           /\ GC_mark_state' \in MarkStates
           /\ GC_mark_stack_too_small' \in BOOLEAN
<1> DEFINE k == GC_mark_stack_size - Discards
<1>1. /\ GC_mark_stack \in Seq(Node) /\ Len(GC_mark_stack) \in Nat
      /\ GC_mark_stack_size \in Nat /\ Len(GC_mark_stack) <= GC_mark_stack_size
      /\ Discards \in Nat /\ 1 <= Discards /\ k \in Nat
  BY MarkStackAssumption DEF TypeOK
<1>2. CASE Overflow
  <2>1. Len(GC_mark_stack) = GC_mark_stack_size
    BY <1>1, <1>2 DEF Overflow
  <2>2. /\ SubSeq(GC_mark_stack, 1, k) \in Seq(Node)
        /\ Len(SubSeq(GC_mark_stack, 1, k)) = k
    BY <1>1, <2>1
  <2>3. GC_mark_stack' = Append(SubSeq(GC_mark_stack, 1, k), n)
    BY <1>2, ZenonT(30) DEF GC_ms_push_obj_descr
  <2>4. GC_mark_stack' \in Seq(Node) /\ Len(GC_mark_stack') = k + 1
    BY <2>2, <2>3
  <2> QED
    BY <1>1, <1>2, <2>4 DEF GC_ms_push_obj_descr, MarkStates
<1>3. CASE ~Overflow
  <2>1. GC_mark_stack' = Append(GC_mark_stack, n) /\ Len(GC_mark_stack) < GC_mark_stack_size
    BY <1>1, <1>3 DEF GC_ms_push_obj_descr, Overflow
  <2>2. GC_mark_stack' \in Seq(Node) /\ Len(GC_mark_stack') = Len(GC_mark_stack) + 1
    BY <1>1, <2>1
  <2> QED
    BY <1>1, <1>3, <2>1, <2>2 DEF GC_ms_push_obj_descr, TypeOK
<1> QED
  BY <1>2, <1>3

(* The same for a push that first tests the mark bit. *)
LEMMA PushContentsType ==
    ASSUME TypeOK, NEW o \in Obj, GC_ms_push_contents(o)
    PROVE  /\ marked' \subseteq Obj
           /\ GC_mark_stack' \in Seq(Node)
           /\ Len(GC_mark_stack') <= GC_mark_stack_size
           /\ GC_mark_state' \in MarkStates
           /\ GC_mark_stack_too_small' \in BOOLEAN
<1>1. o \in Node
  BY DEF Node
<1>2. CASE UNCHANGED <<marked, GC_mark_stack, GC_mark_state, GC_mark_stack_too_small>>
  BY <1>2 DEF TypeOK
<1>3. CASE marked' = marked \cup {o} /\ GC_ms_push_obj_descr(o)
  BY <1>1, <1>3, PushType DEF TypeOK
<1> QED
  BY <1>2, <1>3 DEF GC_ms_push_contents

(* GC_mark_from pops one entry. *)
LEMMA PopType ==
    ASSUME TypeOK, GC_mark_from
    PROVE  /\ GC_mark_stack' \in Seq(Node)
           /\ Len(GC_mark_stack') <= GC_mark_stack_size
           /\ reading' \subseteq Node \X Field
<1>1. GC_mark_stack \in Seq(Node) /\ GC_mark_stack # <<>> /\ GC_mark_stack_size \in Nat
      /\ Len(GC_mark_stack) <= GC_mark_stack_size
  BY DEF TypeOK, GC_mark_from
<1>2. GC_mark_stack[Len(GC_mark_stack)] \in Node /\ Len(GC_mark_stack) \in Nat \ {0}
  BY <1>1
<1> QED
  BY <1>1, <1>2 DEF GC_mark_from

(* A step of the client keeps the types. *)
LEMMA TypeMutator ==
    ASSUME TypeOK, Mutator
    PROVE  TypeOK'
<1> USE HeapAssumption DEF Block, Node
<1>1. ASSUME NEW n \in Node, NEW f \in Field, Load(n, f) PROVE TypeOK'
  BY <1>1, NodesDistinct DEF TypeOK, Load, Holds, Graphs
<1>2. ASSUME NEW n \in Node, NEW f \in Field, NEW v \in Obj \cup {Null}, Store(n, f, v)
      PROVE  TypeOK'
  <2>1. ptr' \in Graphs
    BY <1>2 DEF TypeOK, Store, Graphs
  <2>2. pend' \subseteq Obj \X Obj /\ GC_dirty_pages' \subseteq Block \cup Root
    BY <1>2 DEF TypeOK, Store, WriteDirties, Page
  <2> QED
    BY <1>2, <2>1, <2>2 DEF TypeOK, Store
<1>3. ASSUME NEW o \in Obj, Drop(o) PROVE TypeOK'
  BY <1>3 DEF TypeOK, Drop
<1>4. ASSUME NEW o \in Obj, GC_malloc(o) PROVE TypeOK'
  BY <1>4, ZenonT(30) DEF TypeOK, GC_malloc, Holds, WriteDirties, Page
<1>5. ASSUME NEW o \in Obj, GC_free_internal(o) PROVE TypeOK'
  <2>1. ptr' \in Graphs
    BY <1>5, ClearedType DEF TypeOK, GC_free_internal
  <2>2. GC_mark_stack' \in Seq(Node) /\ Len(GC_mark_stack') <= GC_mark_stack_size
    <3>1. CASE UNCHANGED GC_mark_stack
      BY <3>1 DEF TypeOK
    <3>2. CASE GC_mark_stack' \in WithoutEntriesOf(o)
      <4>1. PICK k \in 0..Len(GC_mark_stack) : GC_mark_stack' \in [1..k -> Node \ {o}]
        <5> DEFINE others == {i \in DOMAIN GC_mark_stack : GC_mark_stack[i] # o}
                   onto(k) == {q \in [1..k -> others] :
                                  /\ \A i, j \in 1..k : q[i] = q[j] => i = j
                                  /\ \A i \in others : \E j \in 1..k : q[j] = i}
        <5>1. GC_mark_stack' \in UNION {{[j \in 1..k |-> GC_mark_stack[p[j]]] : p \in onto(k)} :
                                       k \in 0..Len(GC_mark_stack)}
          BY <3>2, ZenonT(30) DEF WithoutEntriesOf
        <5> HIDE DEF onto
        <5>2. PICK k \in 0..Len(GC_mark_stack) :
                 GC_mark_stack' \in {[j \in 1..k |-> GC_mark_stack[p[j]]] : p \in onto(k)}
          BY <5>1
        <5>3. PICK p \in onto(k) : GC_mark_stack' = [j \in 1..k |-> GC_mark_stack[p[j]]]
          BY <5>2
        <5>4. p \in [1..k -> others]
          BY <5>3, ZenonT(30) DEF onto
        <5>5. \A i \in DOMAIN GC_mark_stack : GC_mark_stack[i] \in Node
          BY DEF TypeOK
        <5> QED
          BY <5>2, <5>3, <5>4, <5>5
      <4>2. k \in Nat /\ k <= Len(GC_mark_stack) /\ Len(GC_mark_stack) \in Nat
            /\ Len(GC_mark_stack) <= GC_mark_stack_size /\ GC_mark_stack_size \in Nat
        BY <4>1 DEF TypeOK
      <4>3. GC_mark_stack' \in [1..k -> Node]
        BY <4>1
      <4>4. GC_mark_stack' \in Seq(Node) /\ Len(GC_mark_stack') = k
        BY <4>2, <4>3
      <4> QED
        BY <4>2, <4>4
    <3> QED
      BY <1>5, <3>1, <3>2 DEF GC_free_internal, DropPendingScans
  <2>3. flist' \subseteq Obj /\ marked' \subseteq Obj
    BY <1>5 DEF TypeOK, GC_free_internal, MarksAfterFree
  <2>4. freeBlk' \subseteq Block /\ GC_dirty_pages' \subseteq Block \cup Root
    <3>1. BlockOf[o] \in Block /\ Page(o) \in Block
      BY DEF Page
    <3>2. GC_dirty_pages' \subseteq GC_dirty_pages \cup {Page(o)}
      BY <1>5 DEF GC_free_internal, WriteDirties
    <3>3. freeBlk' \subseteq freeBlk \cup {BlockOf[o]}
      BY <1>5 DEF GC_free_internal
    <3> QED
      BY <3>1, <3>2, <3>3 DEF TypeOK
  <2>5. /\ stk' \subseteq Obj /\ owned' \subseteq Obj
        /\ UNCHANGED <<pend, reclaimq, GC_grungy_pages, GC_mark_stack_size,
                      GC_mark_stack_too_small, callVars, ctlVars, GC_mark_state,
                      GC_scan_ptr, GC_objects_are_marked>>
    BY <1>5 DEF TypeOK, GC_free_internal
  <2> QED
    BY <2>1, <2>2, <2>3, <2>4, <2>5 DEF TypeOK, callVars, ctlVars
<1>6. ASSUME NEW s \in pend, GC_dirty(s) PROVE TypeOK'
  <2>1. s[1] \in Obj
    BY DEF TypeOK
  <2> QED
    BY <1>6, <2>1, ZenonT(30) DEF TypeOK, GC_dirty, Page
<1>7. ASSUME NEW b \in Block, GC_new_hblk(b) PROVE TypeOK'
  BY <1>7 DEF TypeOK, GC_new_hblk, GC_alloc_large, Holds, ObjsOf, WriteDirties
<1>8. ASSUME NEW b \in Block, GC_continue_reclaim(b) PROVE TypeOK'
  <2>1. ptr' \in Graphs
    BY <1>8, ClearedType DEF TypeOK, GC_continue_reclaim, GC_reclaim_generic
  <2> QED
    BY <1>8, <2>1 DEF TypeOK, GC_continue_reclaim, GC_reclaim_generic, MarksAfterSweep,
                      ObjsIn, WriteDirties
<1> QED
  BY <1>1, <1>2, <1>3, <1>4, <1>5, <1>6, <1>7, <1>8 DEF Mutator

(* GC_initiate_gc leaves a mark state and pages of the right type. *)
LEMMA InitiateType ==
    ASSUME TypeOK, NEW state \in MarkStates, GC_initiate_gc(state)
    PROVE  /\ GC_grungy_pages' \subseteq Block \cup Root
           /\ GC_dirty_pages' \subseteq Block \cup Root
           /\ GC_mark_state' \in MarkStates /\ GC_scan_ptr' \in 0..NBlocks + 1
<1>1. GC_scan_ptr' \in 0..NBlocks + 1
  BY HeapAssumption DEF GC_initiate_gc, GC_read_dirty
<1> QED
  BY <1>1 DEF TypeOK, GC_initiate_gc, GC_read_dirty, MarkStates

(* Starting a collection keeps the types. *)
LEMMA TypeStartGc ==
    ASSUME TypeOK, StartGc
    PROVE  TypeOK'
<1> USE HeapAssumption DEF Block, Node
<1>1. CASE MaybeGcPartial
  BY <1>1 DEF TypeOK, MaybeGcPartial, GC_initiate_gc, GC_read_dirty, GC_stopped_mark, MarkStates
<1>2. CASE MaybeGcFull
  <2>1. PICK S \in SUBSET reclaimq :
          GC_reclaim_generic(S) /\ GC_clear_marks(MarksAfterSweep(S))
    BY <1>2 DEF MaybeGcFull
  <2>2. ptr' \in Graphs
    BY <2>1, ClearedType DEF TypeOK, GC_reclaim_generic
  <2>3. /\ flist' \subseteq Obj /\ marked' \subseteq Obj /\ reclaimq' \subseteq Block
        /\ GC_grungy_pages' \subseteq Block \cup Root
        /\ GC_dirty_pages' \subseteq Block \cup Root
        /\ GC_mark_state' \in MarkStates /\ GC_scan_ptr' \in 0..NBlocks + 1
    BY <1>2, <2>1 DEF TypeOK, MaybeGcFull, GC_reclaim_generic, GC_clear_marks,
         MarksAfterSweep, ObjsIn, UncollObjs, GC_initiate_gc, GC_read_dirty, MarkStates
  <2>4. GC_objects_are_marked' \in BOOLEAN /\ GC_is_full_gc' \in BOOLEAN
        /\ mayStop' \in BOOLEAN
    BY <1>2, <2>1, Zenon DEF MaybeGcFull, GC_clear_marks, GC_stopped_mark
  <2> QED
    BY <1>2, <2>2, <2>3, <2>4 DEF TypeOK, MaybeGcFull, GC_stopped_mark
<1>3. ASSUME NEW canStop \in BOOLEAN, GC_try_to_collect_inner(canStop)
      PROVE  TypeOK'
  <2>1. ptr' \in Graphs
    BY <1>3, ClearedType DEF TypeOK, GC_reclaim_generic, GC_try_to_collect_inner
  <2>2. GC_mark_stack' \in Seq(Node) /\ Len(GC_mark_stack') <= GC_mark_stack_size
    BY <1>3 DEF TypeOK, GC_try_to_collect_inner
  <2>3. /\ flist' \subseteq Obj /\ marked' \subseteq Obj /\ reclaimq' \subseteq Block
    BY <1>3 DEF TypeOK, GC_try_to_collect_inner, GC_reclaim_generic, GC_clear_marks,
         MarksAfterSweep, ObjsIn, UncollObjs
  <2>5. /\ GC_grungy_pages' \subseteq Block \cup Root
        /\ GC_dirty_pages' \subseteq Block \cup Root
        /\ GC_mark_state' \in MarkStates /\ GC_scan_ptr' \in 0..NBlocks + 1
    <3>1. GC_initiate_gc("INVALID")
      BY <1>3 DEF GC_try_to_collect_inner
    <3> QED
      BY <3>1, InitiateType DEF MarkStates
  <2>4. GC_objects_are_marked' \in BOOLEAN /\ GC_is_full_gc' \in BOOLEAN
        /\ mayStop' \in BOOLEAN
    BY <1>3, Zenon DEF GC_try_to_collect_inner, GC_clear_marks, GC_stopped_mark
  <2> QED
    BY <1>3, <2>1, <2>2, <2>3, <2>4, <2>5 DEF TypeOK, GC_try_to_collect_inner, GC_stopped_mark
<1> QED
  BY <1>1, <1>2, <1>3 DEF StartGc

(* Abandoning a collection keeps the types. *)
LEMMA TypeAbandon ==
    ASSUME TypeOK, Abandon
    PROVE  TypeOK'
<1>1. GC_mark_stack' \in Seq(Node) /\ Len(GC_mark_stack') <= GC_mark_stack_size
  <2>1. CASE GC_mark_stack' = <<>>
    BY <2>1 DEF TypeOK
  <2>2. CASE UNCHANGED GC_mark_stack
    BY <2>2 DEF TypeOK
  <2> QED
    BY <2>1, <2>2 DEF Abandon
<1>2. GC_n_attempts' \in 0..MaxPriorAttempts
  BY MarkStackAssumption DEF TypeOK, Abandon, AttemptsAfterAbandon
<1> QED
  BY <1>1, <1>2, ZenonT(30) DEF TypeOK, Abandon, StoppedMarkReturns, MarkStates

(* The increments of GC_collect_a_little_inner keep the types. *)
LEMMA TypeLittle ==
    ASSUME TypeOK, CollectALittle
    PROVE  TypeOK'
<1>1. CASE LittleStart
  BY <1>1 DEF TypeOK, LittleStart
<1>2. CASE LittlePause
  BY <1>2 DEF TypeOK, LittlePause
<1>3. CASE LittleStop
  <2>1. mayStop' \in BOOLEAN
    BY <1>3 DEF LittleStop, GC_stopped_mark
  <2>2. /\ GC_grungy_pages' \subseteq Block \cup Root
        /\ GC_dirty_pages' \subseteq Block \cup Root
        /\ GC_mark_state' \in MarkStates /\ GC_scan_ptr' \in 0..NBlocks + 1
    BY <1>3, HeapAssumption DEF TypeOK, LittleStop, GC_initiate_gc, GC_read_dirty, MarkStates
  <2> QED
    BY <1>3, <2>1, <2>2 DEF TypeOK, LittleStop, GC_stopped_mark
<1> QED
  BY <1>1, <1>2, <1>3 DEF CollectALittle

(* What a step of the heap scan leaves behind. *)
LEMMA PushNextOfType ==
    ASSUME TypeOK, NEW Sel \in SUBSET Block, NEW pushRoots, NEW all,
           PushNextOf(Sel, pushRoots, all)
    PROVE  /\ pushing' \subseteq Node /\ stackWords' \subseteq Obj
           /\ inRoots' \in BOOLEAN /\ GC_objects_are_marked' \in BOOLEAN
           /\ GC_scan_ptr' \in 0..NBlocks + 1
           /\ reading' \subseteq Node \X Field /\ marked' \subseteq Obj
           /\ GC_mark_stack' \in Seq(Node) /\ Len(GC_mark_stack') <= GC_mark_stack_size
<1> USE HeapAssumption DEF Block, Node
<1>1. UNCHANGED <<reading, marked, GC_mark_stack>>
  BY DEF PushNextOf
<1>2. CASE /\ \E b \in NextBlocks(Sel) : GC_scan_ptr' = b + 1 /\ pushing' = ObjsOf(b) \cap marked
           /\ GC_objects_are_marked' = (GC_objects_are_marked \/ pushing' # {})
           /\ UNCHANGED <<stackWords, inRoots>>
  <2>1. GC_scan_ptr' \in 0..NBlocks + 1 /\ pushing' \subseteq Node
    BY <1>2 DEF NextBlocks, ObjsOf
  <2>2. GC_objects_are_marked' \in BOOLEAN
    BY <1>2, Zenon DEF TypeOK
  <2> QED
    BY <1>1, <1>2, <2>1, <2>2 DEF TypeOK
<1>3. CASE GC_push_roots(all)
  BY <1>1, <1>3 DEF TypeOK, GC_push_roots, GC_push_conditional_static,
         GC_push_all_stacks
<1>4. CASE GC_scan_ptr' = 0 /\ UNCHANGED <<pushing, stackWords, inRoots, GC_objects_are_marked>>
  BY <1>1, <1>4 DEF TypeOK
<1> QED
  BY <1>2, <1>3, <1>4, Zenon DEF PushNextOf

(* alloc_mark_stack never shrinks the mark stack. *)
LEMMA GrowType ==
    ASSUME TypeOK, GrowMarkStack
    PROVE  /\ GC_mark_stack_size' \in Nat /\ GC_mark_stack_size' >= GC_mark_stack_size
           /\ GC_mark_stack_too_small' \in BOOLEAN
<1>1. GC_mark_stack_size \in Nat
  BY DEF TypeOK
<1>2. GC_mark_stack_size' = 2 * GC_mark_stack_size \/ GC_mark_stack_size' = GC_mark_stack_size
  BY DEF GrowMarkStack
<1>3. GC_mark_stack_too_small' \in BOOLEAN
  BY Zenon DEF GrowMarkStack
<1>4. GC_mark_stack_size' \in Nat /\ GC_mark_stack_size' >= GC_mark_stack_size
  BY <1>1, <1>2
<1> QED
  BY <1>3, <1>4

(* A step of GC_mark_some keeps the types. *)
LEMMA TypeMarkSome ==
    ASSUME TypeOK, GC_mark_some
    PROVE  TypeOK'
<1> USE DEF CallUnchanged
<1>1. Uncollectable \in SUBSET Block /\ Block \cap GC_grungy_pages \in SUBSET Block
  BY HeapAssumption
<1>2. CASE MarkSomeRescuers
  <2>1. CASE GC_mark_from /\ GC_mark_stack_too_small' = TRUE
    <3>1. GC_mark_stack_too_small' \in BOOLEAN /\ GC_objects_are_marked' \in BOOLEAN
      BY <2>1, Zenon DEF GC_mark_from
    <3> QED
      BY <1>2, <2>1, <3>1, PopType DEF TypeOK, GC_mark_from, MarkSomeRescuers
  <2>2. CASE /\ PushNextOf(Block \cap GC_grungy_pages, TRUE, FALSE)
             /\ UNCHANGED <<GC_mark_stack_too_small, GC_mark_state>>
    BY <1>1, <1>2, <2>2, PushNextOfType, ZenonT(30) DEF TypeOK, MarkSomeRescuers
  <2> QED
    BY <1>2, <2>1, <2>2, Zenon DEF MarkSomeRescuers
<1>3. CASE MarkSomeUncollectable
  <2>1. CASE GC_mark_from
    <3>1. GC_objects_are_marked' \in BOOLEAN
      BY <2>1, Zenon DEF GC_mark_from
    <3> QED
      BY <1>3, <2>1, <3>1, PopType DEF TypeOK, GC_mark_from, MarkSomeUncollectable
  <2>2. CASE PushNextOf(Uncollectable, TRUE, TRUE) /\ UNCHANGED GC_mark_state
    BY <1>1, <1>3, <2>2, PushNextOfType, ZenonT(30) DEF TypeOK, MarkSomeUncollectable
  <2> QED
    BY <1>3, <2>1, <2>2, Zenon DEF MarkSomeUncollectable
<1>4. CASE MarkSomeRootsPushed
  <2>1. CASE GC_mark_from /\ UNCHANGED <<GC_mark_stack_too_small, GC_mark_stack_size, pc, caller, mayStop>>
    <3>1. GC_objects_are_marked' \in BOOLEAN
      BY <2>1, Zenon DEF GC_mark_from
    <3> QED
      BY <1>4, <2>1, <3>1, PopType DEF TypeOK, GC_mark_from, MarkSomeRootsPushed
  <2>2. CASE /\ GrowMarkStack /\ GC_mark_state' = "NONE"
             /\ \/ pc = "stopped" /\ pc' = "finish" /\ StoppedMarkReturns
                \/ pc = "little" /\ UNCHANGED <<pc, caller, mayStop>>
             /\ UNCHANGED <<callVars, marked, GC_scan_ptr, GC_objects_are_marked, GC_mark_stack>>
    <3>1. /\ GC_mark_stack_size' \in Nat /\ GC_mark_stack_size' >= GC_mark_stack_size
          /\ GC_mark_stack_too_small' \in BOOLEAN
      BY <2>2, GrowType
    <3>2. mayStop' \in BOOLEAN
      BY <2>2, Zenon DEF StoppedMarkReturns, TypeOK
    <3>3. /\ GC_mark_stack_size' >= InitialMarkStackSize
          /\ Len(GC_mark_stack') <= GC_mark_stack_size'
      BY <2>2, <3>1, MarkStackAssumption DEF TypeOK
    <3> QED
      BY <1>4, <2>2, <3>1, <3>2, <3>3 DEF TypeOK, MarkSomeRootsPushed, StoppedMarkReturns, MarkStates
  <2> QED
    BY <1>4, <2>1, <2>2, Zenon DEF MarkSomeRootsPushed
<1>5. CASE MarkSomeInvalid
  <2>1. CASE /\ GC_mark_state' = "PUSH_UNCOLLECTABLE"
             /\ UNCHANGED <<callVars, marked, GC_scan_ptr, GC_objects_are_marked, stackVars>>
    BY <1>5, <2>1 DEF TypeOK, MarkSomeInvalid, MarkStates
  <2>2. CASE GC_mark_from /\ UNCHANGED <<GC_mark_stack_too_small, GC_mark_stack_size>>
    <3>1. GC_objects_are_marked' \in BOOLEAN
      BY <2>2, Zenon DEF GC_mark_from
    <3> QED
      BY <1>5, <2>2, <3>1, PopType DEF TypeOK, GC_mark_from, MarkSomeInvalid
  <2>3. ASSUME NEW pushRoots, PushNextOf(Block, pushRoots, TRUE),
               GC_mark_state' \in {"PARTIALLY_INVALID", GC_mark_state},
               GrowMarkStack \/ UNCHANGED <<GC_mark_stack_size, GC_mark_stack_too_small>>
        PROVE  TypeOK'
    <3>1. /\ GC_mark_stack_size' \in Nat /\ GC_mark_stack_size' >= GC_mark_stack_size
          /\ GC_mark_stack_too_small' \in BOOLEAN
      BY <2>3, GrowType DEF TypeOK
    <3>2. Len(GC_mark_stack') <= GC_mark_stack_size /\ GC_mark_stack' \in Seq(Node)
      BY <2>3, PushNextOfType, ZenonT(30)
    <3>3. /\ GC_mark_stack_size' >= InitialMarkStackSize
          /\ Len(GC_mark_stack') <= GC_mark_stack_size'
      BY <3>1, <3>2, MarkStackAssumption DEF TypeOK
    <3> QED
      BY <1>5, <2>3, <3>1, <3>2, <3>3, PushNextOfType, ZenonT(30) DEF TypeOK, MarkSomeInvalid, MarkStates
  <2> QED
    BY <1>5, <2>1, <2>2, <2>3, Zenon DEF MarkSomeInvalid
<1>6. CASE PushNext
  <2> DEFINE n == CHOOSE x \in pushing : TRUE
  <2>1. n \in pushing /\ n \in Node
    BY <1>6 DEF PushNext, TypeOK
  <2>2. GC_ms_push_obj_descr(n) /\ pushing' = pushing \ {n}
    BY <1>6 DEF PushNext
  <2> QED
    BY <1>6, <2>1, <2>2, PushType DEF TypeOK, PushNext
<1>7. CASE ReadNext
  <2> DEFINE r == CHOOSE x \in reading : TRUE
             v == ptr[r[1]][r[2]]
  <2>1. r \in Node \X Field /\ v \in Obj \cup {Null}
    BY <1>7 DEF ReadNext, TypeOK, Graphs
  <2>2. reading' = reading \ {r} /\ (\/ v # Null /\ GC_ms_push_contents(v)
                                     \/ UNCHANGED <<marked, GC_mark_stack, GC_mark_state,
                                                    GC_mark_stack_too_small>>)
    BY <1>7, ZenonT(30) DEF ReadNext
  <2>3. CASE v # Null /\ GC_ms_push_contents(v)
    <3> HIDE DEF r, v
    <3> QED
      BY <1>7, <2>1, <2>2, <2>3, PushContentsType, ZenonT(30) DEF TypeOK, ReadNext
  <2>4. CASE UNCHANGED <<marked, GC_mark_stack, GC_mark_state, GC_mark_stack_too_small>>
    BY <1>7, <2>2, <2>4 DEF TypeOK, ReadNext
  <2> QED
    BY <2>2, <2>3, <2>4, ZenonT(30)
<1>8. CASE GC_mark_and_push_stack
  <2> DEFINE o == CHOOSE x \in stackWords : TRUE
  <2>1. o \in Obj
    BY <1>8 DEF GC_mark_and_push_stack, TypeOK
  <2>2. /\ stackWords' = stackWords \ {o} /\ GC_ms_push_contents(o)
        /\ GC_dirty_pages' \in {GC_dirty_pages, GC_dirty_pages \cup {Page(o)}}
    BY <1>8 DEF GC_mark_and_push_stack
  <2>3. GC_dirty_pages' \subseteq Block \cup Root
    BY <2>1, <2>2, HeapAssumption DEF TypeOK, Page
  <2> HIDE DEF o
  <2> QED
    BY <1>8, <2>1, <2>2, <2>3, PushContentsType DEF TypeOK, GC_mark_and_push_stack
<1>9. CASE RootsPushed
  BY <1>9, ZenonT(30) DEF TypeOK, RootsPushed, MarkStates
<1> QED
  BY <1>2, <1>3, <1>4, <1>5, <1>6, <1>7, <1>8, <1>9 DEF GC_mark_some

(* GC_finish_collection keeps the types. *)
LEMMA TypeFinish ==
    ASSUME TypeOK, GC_finish_collection
    PROVE  TypeOK'
<1>1. ptr' \in Graphs
  BY ClearedType DEF TypeOK, GC_finish_collection, GC_start_reclaim, GC_reclaim_block,
         GC_clear_fl_marks
<1>2. marked' \subseteq Obj /\ freeBlk' \subseteq Block /\ reclaimq' \subseteq Block
  BY DEF TypeOK, GC_finish_collection, GC_start_reclaim, GC_reclaim_block,
         GC_clear_fl_marks
<1>3. GC_n_attempts' \in 0..MaxPriorAttempts
  BY MarkStackAssumption DEF GC_finish_collection, GC_start_reclaim, GC_reclaim_block,
         GC_clear_fl_marks
<1>4. GC_is_full_gc' \in BOOLEAN
  BY Zenon DEF GC_finish_collection, GC_start_reclaim, GC_reclaim_block,
         GC_clear_fl_marks
<1> QED
  BY <1>1, <1>2, <1>3, <1>4 DEF TypeOK, GC_finish_collection, GC_start_reclaim, GC_reclaim_block,
         GC_clear_fl_marks

(* The initial state has the right types. *)
LEMMA InitType == Init => TypeOK
<1> SUFFICES ASSUME Init PROVE TypeOK
  OBVIOUS
<1>1. ptr \in Graphs
  BY DEF Init, Graphs
<1>2. GC_scan_ptr \in 0..NBlocks + 1 /\ GC_n_attempts \in 0..MaxPriorAttempts
  <2>1. GC_scan_ptr = 0 /\ GC_n_attempts = 0
    BY DEF Init
  <2>2. NBlocks \in Nat /\ MaxPriorAttempts \in Nat
    BY HeapAssumption, MarkStackAssumption
  <2> QED
    BY <2>1, <2>2
<1>3. /\ GC_mark_stack \in Seq(Node) /\ Len(GC_mark_stack) <= GC_mark_stack_size
      /\ GC_mark_stack_size \in Nat /\ GC_mark_stack_size >= InitialMarkStackSize
  BY MarkStackAssumption DEF Init
<1> QED
  BY <1>1, <1>2, <1>3, ZenonT(30) DEF Init, TypeOK, MarkStates

(* Type correctness of the collector, for every heap, mark-stack size and   *)
(* mode; the mark stack stays within its size whatever is pushed.          *)
THEOREM TypeCorrect == Spec => []TypeOK
<1>1. Init => TypeOK
  BY InitType
<1>2. TypeOK /\ [Next]_vars => TypeOK'
  <2> SUFFICES ASSUME TypeOK, [Next]_vars PROVE TypeOK'
    OBVIOUS
  <2>1. CASE UNCHANGED vars
    BY <2>1 DEF TypeOK, vars
  <2> QED
    BY <2>1, TypeMutator, TypeStartGc, TypeAbandon, TypeLittle, TypeMarkSome, TypeFinish
       DEF Next
<1> QED
  BY <1>1, <1>2, PTL DEF Spec
=============================================================================
