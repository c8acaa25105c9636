------------------------- MODULE CollectorTheorems -------------------------
(***************************************************************************)
(* The steps of the marking keep the inductive invariant of                *)
(* CollectorSafety.tla, and the theorems that follow from it.  The rest    *)
(* of the argument: a push keeps the edges of what it drops covered by the *)
(* mark state, a pop moves them to the words still to be read, and when    *)
(* nothing is left to push or to read the live marked objects are closed.  *)
(*                                                                         *)
(* The last theorem is the refinement: the collector implements the heap   *)
(* that its client sees (SafeHeap.tla), for every heap, mark stack and     *)
(* mode.  The steps of the marking are none of the heap's; a sweep, and    *)
(* the start of one, is Collect.  That only dead objects are handed out    *)
(* again, and that they are empty, comes from the invariant.               *)
(***************************************************************************)
EXTENDS CollectorSafety

(* The default provers in their order, then SMT once more with more time. *)
USE SMT, Zenon, SMTT(30)
USE DEF heapVars, blockVars, dirtyVars, stackVars, callVars, ctlVars, markVars

-----------------------------------------------------------------------------
(* GC_mark_some. *)

(* The steps of the marking change neither the client's state nor the       *)
(* blocks, and only add marks.                                             *)
LEMMA HeapMarkSome ==
    ASSUME TypeOK, HeapInv, UNCHANGED <<heapVars, blockVars>>, marked \subseteq marked',
           \/ UNCHANGED <<pc, caller, mayStop>>
           \/ pc = "stopped" /\ pc' = "finish" /\ Live \subseteq marked,
           pc # "finish"
    PROVE  HeapInv'
<1>1. /\ Live' = Live /\ FreeObjs' = FreeObjs /\ UncollObjs' = UncollObjs
      /\ ObjsIn(freeBlk)' = ObjsIn(freeBlk)
  BY LiveSame DEF FreeObjs, UncollObjs, ObjsIn
<1>2. SweepSafe' /\ CompleteAtFinish'
  BY <1>1 DEF HeapInv, SweepSafe, CompleteAtFinish
<1> QED
  BY <1>1, <1>2 DEF HeapInv, NoLiveReclaimed

(* After an overflow everything marked is exempt: it will be scanned again. *)
LEMMA MarkOverflow ==
    ASSUME GC_mark_state' = "INVALID", GC_objects_are_marked' \/ inRoots'
    PROVE  MarkInvariant'
<1>1. \A n : Exempt(n)'
  BY DEF Exempt
<1>2. RootsAhead' /\ \A r : RootExempt(r)'
  BY DEF RootsAhead, RootExempt
<1> QED
  BY <1>1, <1>2 DEF MarkInvariant

(* A push keeps the entries, unless the stack overflows. *)
LEMMA PushKeeps ==
    ASSUME TypeOK, NEW n \in Node, GC_ms_push_obj_descr(n)
    PROVE  \/ GC_mark_state' = "INVALID"
           \/ /\ GC_mark_state' = GC_mark_state
              /\ \E i \in DOMAIN GC_mark_stack' : GC_mark_stack'[i] = n
              /\ \A m : (\E i \in DOMAIN GC_mark_stack : GC_mark_stack[i] = m)
                    => (\E i \in DOMAIN GC_mark_stack' : GC_mark_stack'[i] = m)
<1>1. CASE Overflow
  BY <1>1 DEF GC_ms_push_obj_descr
<1>2. CASE ~Overflow
  <2>1. GC_mark_stack' = Append(GC_mark_stack, n) /\ GC_mark_state' = GC_mark_state
        /\ GC_mark_stack \in Seq(Node) /\ Len(GC_mark_stack) \in Nat
    BY <1>2 DEF GC_ms_push_obj_descr, TypeOK
  <2>2. /\ DOMAIN GC_mark_stack = 1..Len(GC_mark_stack)
        /\ DOMAIN GC_mark_stack' = 1..Len(GC_mark_stack) + 1
        /\ GC_mark_stack'[Len(GC_mark_stack) + 1] = n
        /\ \A i \in 1..Len(GC_mark_stack) : GC_mark_stack'[i] = GC_mark_stack[i]
    BY <2>1
  <2> QED
    BY <2>1, <2>2
<1> QED
  BY <1>1, <1>2

(* Popping an entry starts the reads of its fields. *)
LEMMA PopKeeps ==
    ASSUME TypeOK, GC_mark_from, reading = {}
    PROVE  \A n : \A f \in Field : Scanning(n, f) => Scanning(n, f)'
<1> DEFINE k == Len(GC_mark_stack)
<1>1. GC_mark_stack \in Seq(Node) /\ k \in Nat \ {0} /\ DOMAIN GC_mark_stack = 1..k
  BY DEF TypeOK, GC_mark_from
<1>2. /\ DOMAIN GC_mark_stack' = 1..k - 1
      /\ \A i \in 1..k - 1 : GC_mark_stack'[i] = GC_mark_stack[i]
  BY <1>1 DEF GC_mark_from
<1>3. ASSUME NEW n, NEW f \in Field, NEW i \in DOMAIN GC_mark_stack, GC_mark_stack[i] = n
      PROVE  Scanning(n, f)'
  <2>1. CASE i = k
    BY <1>3, <2>1 DEF GC_mark_from, Scanning
  <2>2. CASE i # k
    BY <1>1, <1>2, <1>3, <2>2 DEF Scanning
  <2> QED
    BY <2>1, <2>2
<1> QED
  BY <1>3, ZenonT(30) DEF GC_mark_from, Scanning

(* Popping an entry keeps MarkInvariant. *)
LEMMA MarkPop ==
    ASSUME TypeOK, MarkInvariant, AtCall, GC_mark_from,
           UNCHANGED <<heapVars, dirtyVars, pc>>
    PROVE  MarkInvariant'
<1>1. Live' = Live /\ UNCHANGED <<stackWords, marked>>
  BY LiveSame DEF GC_mark_from
<1>2. \A n : \A f \in Field : Covered(n, f) => Covered(n, f)'
  BY PopKeeps DEF GC_mark_from, Covered, AtCall, InCall, Running
<1>3. \A n : Exempt(n) => Exempt(n)'
  BY DEF GC_mark_from, Exempt, Ahead, Running
<1>4. /\ \A r : RootExempt(r) => RootExempt(r)'
      /\ RootsAhead => RootsAhead'
      /\ Running => Running'
  BY DEF GC_mark_from, RootExempt, RootsAhead, Running
<1> QED
  BY <1>1, <1>2, <1>3, <1>4 DEF MarkInvariant

(* A step of a scan of the heap: the marked objects of the block it passes  *)
(* are pushed, and those of later blocks are still ahead of it; past the   *)
(* last block nothing is ahead any more, and the roots are pushed.         *)
LEMMA MarkScan ==
    ASSUME TypeOK, HeapInv, MarkInvariant, AtCall, NEW Sel \in SUBSET Block,
           NEW pushRoots, pushRoots, NEW all, PushNextOf(Sel, pushRoots, all),
           UNCHANGED <<heapVars, blockVars, dirtyVars, pc>>,
           GC_mark_state' \in {"PUSH_RESCUERS", "PUSH_UNCOLLECTABLE", "PARTIALLY_INVALID"},
           \A n \in Live \cap marked, f \in Field :
              \/ Covered(n, f)
              \/ Running /\ ~Incremental
              \/ BlockOf[n] \in Sel /\ BlockOf[n] >= GC_scan_ptr,
           \A n \in Obj : BlockOf[n] \in Sel =>
              \/ GC_mark_state' = "PARTIALLY_INVALID"
              \/ GC_mark_state' = "PUSH_UNCOLLECTABLE" /\ BlockOf[n] \in Uncollectable
              \/ GC_mark_state' = "PUSH_RESCUERS" /\ BlockOf[n] \in GC_grungy_pages,
           \/ all /\ GC_mark_state' # "PUSH_RESCUERS"
           \/ UNCHANGED GC_mark_state /\ (all \/ GC_mark_state = "PUSH_RESCUERS")
    PROVE  MarkInvariant'
<1>1. /\ Live' = Live /\ UNCHANGED <<marked, reading, GC_mark_stack>> /\ pushing = {}
      /\ inRoots = FALSE
  BY LiveSame DEF PushNextOf, AtCall, InCall, TypeOK
<1>2. \A n, f : Covered(n, f) => Covered(n, f)'
  BY <1>1 DEF Covered, Scanning, Running
<1>3. ASSUME NEW n \in Live \cap marked, BlockOf[n] \in Sel, BlockOf[n] >= GC_scan_ptr
      PROVE  n \in Obj /\ BlockOf[n] \in NextBlocks(Sel)
  BY <1>3, LiveClosed DEF NextBlocks, HeapInv, NoLiveReclaimed, FreeObjs
<1>4. ASSUME NEW b \in NextBlocks(Sel), \A c \in NextBlocks(Sel) : b <= c,
             GC_scan_ptr' = b + 1, pushing' = ObjsOf(b) \cap marked,
             UNCHANGED <<stackWords, inRoots>>
      PROVE  MarkInvariant'
  <2>1. ASSUME NEW n \in Live' \cap marked', NEW f \in Field
        PROVE  Exempt(n)' \/ Covered(n, f)'
    <3>1. CASE Covered(n, f) \/ (Running /\ ~Incremental)
      BY <1>2, <3>1 DEF Exempt, Running
    <3>2. CASE BlockOf[n] \in Sel /\ BlockOf[n] >= GC_scan_ptr
      <4>1. n \in Obj /\ BlockOf[n] \in NextBlocks(Sel) /\ b <= BlockOf[n]
        BY <1>1, <1>3, <1>4, <3>2
      <4>2. CASE BlockOf[n] = b
        BY <1>1, <1>4, <4>1, <4>2 DEF Covered, Scanning, ObjsOf
      <4>3. CASE BlockOf[n] # b
        <5>1. BlockOf[n] \in Nat /\ b \in Nat
          BY <4>1, HeapAssumption DEF Block, NextBlocks
        <5>2. BlockOf[n] >= GC_scan_ptr'
          BY <1>4, <4>1, <4>3, <5>1
        <5> QED
          BY <1>1, <1>4, <3>2, <4>1, <5>2 DEF Exempt, Ahead
      <4> QED
        BY <4>2, <4>3
    <3> QED
      BY <1>1, <2>1, <3>1, <3>2
  <2>2. RootsAhead'
    BY <1>1, <1>4 DEF RootsAhead
  <2>3. ASSUME NEW r \in Root, NEW f \in Field PROVE RootExempt(r)' \/ Covered(r, f)'
    <3>1. CASE GC_mark_state' # "PUSH_RESCUERS"
      BY <2>2, <3>1 DEF RootExempt
    <3>2. CASE UNCHANGED GC_mark_state
      <4>1. RootExempt(r) => RootExempt(r)'
        BY <1>4, <3>2 DEF RootExempt, RootsAhead, Running
      <4> QED
        BY <1>2, <4>1 DEF MarkInvariant
    <3> QED
      BY <3>1, <3>2
  <2> QED
    BY <2>1, <2>2, <2>3 DEF MarkInvariant
<1>5. ASSUME NextBlocks(Sel) = {}, GC_push_roots(all)
      PROVE  MarkInvariant'
  <2>1. \A n \in Live' \cap marked', f \in Field : Exempt(n)' \/ Covered(n, f)'
    BY <1>1, <1>2, <1>3, <1>5 DEF Exempt, Running
  <2>2. ASSUME NEW r \in Root, NEW f \in Field PROVE RootExempt(r)' \/ Covered(r, f)'
    <3>1. CASE r \in pushing'
      BY <3>1 DEF Covered, Scanning
    <3>2. CASE r \notin pushing'
      <4>1. StaticVdb /\ ~all /\ r \notin GC_grungy_pages
        BY <1>5, <3>2 DEF GC_push_roots, GC_push_conditional_static,
         GC_push_all_stacks
      <4>2. GC_mark_state = "PUSH_RESCUERS"
        BY <4>1
      <4>3. ~RootExempt(r)
        BY <1>1, <4>1, <4>2 DEF RootExempt, RootsAhead
      <4> QED
        BY <1>2, <4>3 DEF MarkInvariant
    <3> QED
      BY <3>1, <3>2
  <2>3. stk' \subseteq stackWords'
    BY <1>5 DEF GC_push_roots, GC_push_conditional_static,
         GC_push_all_stacks
  <2> QED
    BY <2>1, <2>2, <2>3 DEF MarkInvariant
<1> QED
  BY <1>4, <1>5 DEF PushNextOf

(* GC_mark_some on a partial collection: the blocks written to. *)
LEMMA MarkRescuers ==
    ASSUME IInv, MarkSomeRescuers
    PROVE  MarkInvariant'
<1>1. TypeOK /\ HeapInv /\ MarkInvariant /\ AtCall /\ GC_mark_state = "PUSH_RESCUERS"
      /\ UNCHANGED <<heapVars, blockVars, dirtyVars, pc>>
  BY DEF IInv, MarkSomeRescuers, CallUnchanged
<1>2. CASE GC_mark_from
  BY <1>1, <1>2, MarkPop
<1>3. CASE PushNextOf(Block \cap GC_grungy_pages, TRUE, FALSE) /\ UNCHANGED GC_mark_state
  <2>1. \A n \in Live \cap marked, f \in Field :
           \/ Covered(n, f)
           \/ Running /\ ~Incremental
           \/ BlockOf[n] \in Block \cap GC_grungy_pages /\ BlockOf[n] >= GC_scan_ptr
    BY <1>1, LiveClosed, HeapAssumption DEF MarkInvariant, Exempt, Ahead
  <2> QED
    BY <1>1, <1>3, <2>1, MarkScan, ZenonT(30)
<1> QED
  BY <1>2, <1>3, ZenonT(30) DEF MarkSomeRescuers

(* On a full collection: the uncollectable objects. *)
LEMMA MarkUncollectable ==
    ASSUME IInv, MarkSomeUncollectable
    PROVE  MarkInvariant'
<1>1. TypeOK /\ HeapInv /\ MarkInvariant /\ AtCall /\ GC_mark_state = "PUSH_UNCOLLECTABLE"
      /\ UNCHANGED <<heapVars, blockVars, dirtyVars, pc>>
  BY DEF IInv, MarkSomeUncollectable, CallUnchanged
<1>2. CASE GC_mark_from
  BY <1>1, <1>2, MarkPop
<1>3. CASE PushNextOf(Uncollectable, TRUE, TRUE) /\ UNCHANGED GC_mark_state
  <2>1. \A n \in Live \cap marked, f \in Field :
           \/ Covered(n, f)
           \/ Running /\ ~Incremental
           \/ BlockOf[n] \in Uncollectable /\ BlockOf[n] >= GC_scan_ptr
    BY <1>1 DEF MarkInvariant, Exempt, Ahead
  <2>2. Uncollectable \in SUBSET Block
    BY HeapAssumption
  <2> QED
    BY <1>1, <1>3, <2>1, <2>2, MarkScan, ZenonT(30)
<1> QED
  BY <1>2, <1>3, ZenonT(30) DEF MarkSomeUncollectable

(* Recovery from an overflow: the whole heap is scanned, then the roots. *)
LEMMA MarkInvalid ==
    ASSUME IInv, MarkSomeInvalid
    PROVE  MarkInvariant'
<1>1. TypeOK /\ HeapInv /\ MarkInvariant /\ CtlInv /\ AtCall
      /\ GC_mark_state \in {"INVALID", "PARTIALLY_INVALID"} /\ inRoots = FALSE
      /\ UNCHANGED <<heapVars, blockVars, dirtyVars, pc>>
  BY DEF IInv, MarkSomeInvalid, CallUnchanged, AtCall, InCall, TypeOK
<1>2. CASE /\ ~GC_objects_are_marked /\ GC_mark_state' = "PUSH_UNCOLLECTABLE"
           /\ UNCHANGED <<callVars, marked, GC_scan_ptr, GC_objects_are_marked, stackVars>>
  <2>1. GC_mark_state = "INVALID" /\ GC_scan_ptr = 0 /\ Live' = Live
    BY <1>1, <1>2, LiveSame DEF CtlInv, AtCall
  <2>2. \A n, f : Covered(n, f) => Covered(n, f)'
    BY <1>1, <1>2 DEF Covered, Scanning, Running
  <2>3. ASSUME NEW n \in Live \cap marked PROVE Exempt(n) => Exempt(n)'
    <3>1. n \in Obj
      BY <1>1, LiveClosed
    <3>2. BlockOf[n] \in Nat
      BY <3>1, BlockPositive
    <3> QED
      BY <1>1, <1>2, <2>1, <3>2 DEF Exempt, Ahead, Running
  <2>4. RootsAhead' /\ \A r : RootExempt(r)'
    BY <1>1, <1>2 DEF RootsAhead, RootExempt
  <2> QED
    BY <1>1, <1>2, <2>1, <2>2, <2>3, <2>4 DEF MarkInvariant
<1>3. CASE GC_mark_from
  BY <1>1, <1>3, MarkPop
<1>4. ASSUME GC_objects_are_marked, NEW pushRoots, PushNextOf(Block, pushRoots, TRUE),
             \/ /\ GC_mark_state = "INVALID" /\ GC_scan_ptr = 0 /\ pushRoots
                /\ GC_mark_state' = "PARTIALLY_INVALID"
             \/ GC_mark_state = "INVALID" /\ GC_mark_state' = "INVALID"
             \/ /\ GC_mark_state = "PARTIALLY_INVALID" /\ pushRoots
                /\ GC_mark_state' = "PARTIALLY_INVALID"
      PROVE  MarkInvariant'
  <2>1. CASE GC_mark_state' = "INVALID"
    <3>1. GC_objects_are_marked' \/ inRoots'
      BY <1>4, ZenonT(30) DEF PushNextOf, GC_push_roots, GC_push_conditional_static,
         GC_push_all_stacks
    <3> QED
      BY <2>1, <3>1, MarkOverflow
  <2>2. CASE GC_mark_state' = "PARTIALLY_INVALID"
    <3>1. ASSUME NEW n \in Live \cap marked, NEW f \in Field
          PROVE  \/ Covered(n, f)
                 \/ Running /\ ~Incremental
                 \/ BlockOf[n] \in Block /\ BlockOf[n] >= GC_scan_ptr
      <4>0. n \in Obj
        BY <1>1, LiveClosed
      <4>1. BlockOf[n] \in Block /\ BlockOf[n] \in Nat
        BY <4>0, BlockPositive, HeapAssumption
      <4> QED
        BY <1>1, <1>4, <2>2, <4>1 DEF MarkInvariant, Exempt, Ahead
    <3> QED
      BY <1>1, <1>4, <2>2, <3>1, MarkScan, ZenonT(30)
  <2> QED
    BY <1>4, <2>1, <2>2
<1> QED
  BY <1>1, <1>2, <1>3, <1>4, ZenonT(30) DEF MarkSomeInvalid

(* The end of the marking.  With the world stopped nothing is pending, so   *)
(* the live marked objects are closed: everything live is marked.          *)
LEMMA StoppedMarkComplete ==
    ASSUME IInv, pc = "stopped", ~InCall, GC_mark_state = "ROOTS_PUSHED",
           GC_mark_stack = <<>>
    PROVE  Live \subseteq marked
<1>1. TypeOK /\ HeapInv /\ MarkInvariant
  BY DEF IInv
<1> DEFINE R == Live \cap marked
<1>2. ~Running /\ ~RootsAhead /\ \A n, f : ~Scanning(n, f)
  BY DEF Running, RootsAhead, Scanning, InCall
<1>3. stk \subseteq R /\ owned \subseteq R
  BY <1>1, <1>2, LiveClosed DEF MarkInvariant, HeapInv, InCall
<1>4. ASSUME NEW n \in R \cup Root, NEW f \in Field PROVE ptr[n][f] \in R \cup {Null}
  <2>1. Covered(n, f)
    BY <1>1, <1>2 DEF MarkInvariant, Exempt, Ahead, RootExempt
  <2>2. <<n, ptr[n][f]>> \in pend => ptr[n][f] \in stk
    BY <1>1 DEF HeapInv
  <2>3. ptr[n][f] \in marked \cup {Null}
    BY <1>2, <1>3, <2>1, <2>2 DEF Covered
  <2>4. ptr[n][f] \in Live \cup {Null}
    BY <1>1, LiveClosed
  <2> QED
    BY <2>3, <2>4
<1>5. R \in SUBSET Obj /\ Closed(ptr, R, stk \cup owned)
  BY <1>1, <1>3, <1>4, LiveClosed DEF Closed
<1>6. Live \subseteq R
  BY <1>5, ReachMinimal, ZenonT(30) DEF Live
<1> QED
  BY <1>6

(* The last call of GC_mark_some, and those before it that pop an entry. *)
LEMMA MarkRootsPushed ==
    ASSUME IInv, MarkSomeRootsPushed
    PROVE  HeapInv' /\ MarkInvariant'
<1>1. TypeOK /\ HeapInv /\ MarkInvariant /\ CtlInv /\ AtCall
      /\ GC_mark_state = "ROOTS_PUSHED" /\ UNCHANGED <<heapVars, blockVars, dirtyVars>>
      /\ pc # "finish"
  BY DEF IInv, MarkSomeRootsPushed, CallUnchanged, AtCall
<1>2. Live' = Live /\ UNCHANGED marked
  BY <1>1, LiveSame DEF MarkSomeRootsPushed, GC_mark_from
<1>3. CASE GC_mark_from /\ UNCHANGED <<pc, caller, mayStop>>
  BY <1>1, <1>2, <1>3, MarkPop, HeapMarkSome
<1>4. CASE GC_mark_stack = <<>> /\ pc = "stopped" /\ pc' = "finish"
  <2>1. Live \subseteq marked
    BY <1>1, <1>4, StoppedMarkComplete DEF AtCall
  <2>2. \A n \in Live' \cup Root, f \in Field : Covered(n, f)'
    BY <1>1, <1>2, <2>1, LiveClosed DEF Covered
  <2>3. Running'
    BY <1>4 DEF Running
  <2>4. HeapInv'
    BY <1>1, <1>2, <1>4, <2>1, HeapMarkSome
  <2> QED
    BY <2>2, <2>3, <2>4 DEF MarkInvariant
<1>5. CASE /\ GC_mark_stack = <<>> /\ GC_mark_state' = "NONE" /\ pc = "little"
           /\ UNCHANGED <<pc, caller, mayStop, callVars, marked, GC_mark_stack>>
  <2>1. Running /\ Running'
    BY <1>5 DEF Running
  <2>2. \A n : Exempt(n) => Exempt(n)'
    BY <1>1, <2>1 DEF Exempt, Ahead
  <2>3. \A r : RootExempt(r) => RootExempt(r)'
    BY <1>1, <2>1 DEF RootExempt, RootsAhead
  <2>4. \A n, f : Covered(n, f) => Covered(n, f)'
    BY <1>1, <1>5, <2>1 DEF Covered, Scanning
  <2>5. HeapInv'
    BY <1>1, <1>2, <1>5, HeapMarkSome
  <2> QED
    BY <1>1, <1>2, <2>1, <2>2, <2>3, <2>4, <2>5 DEF MarkInvariant
<1> QED
  BY <1>3, <1>4, <1>5 DEF MarkSomeRootsPushed

(* A push that keeps marks and entries keeps MarkInvariant; the new mark,   *)
(* if any, comes with its entry.                                           *)
LEMMA MarkPush ==
    ASSUME TypeOK, MarkInvariant, NEW o \in Obj, GC_ms_push_contents(o),
           GC_objects_are_marked \/ inRoots,
           UNCHANGED <<heapVars, GC_grungy_pages, pc, pushing, inRoots, GC_scan_ptr,
                       GC_objects_are_marked>>,
           GC_dirty_pages \subseteq GC_dirty_pages',
           \A n \in Live \cup Root, f \in Field : <<n, f>> \in reading \ reading'
              => ptr[n][f] = o,
           o \in Live => BlockOf[o] \notin freeBlk,
           stackWords \ {o} \subseteq stackWords'
    PROVE  MarkInvariant'
<1>1. CASE GC_mark_state' = "INVALID"
  BY <1>1, MarkOverflow
<1>2. CASE GC_mark_state' # "INVALID"
  <2>1. /\ GC_mark_state' = GC_mark_state /\ marked \subseteq marked'
        /\ marked' \subseteq marked \cup {o} /\ (o \in Live => o \in marked')
        /\ \A m : (\E i \in DOMAIN GC_mark_stack : GC_mark_stack[i] = m)
              => (\E i \in DOMAIN GC_mark_stack' : GC_mark_stack'[i] = m)
        /\ o \in marked' \ marked
              => \E i \in DOMAIN GC_mark_stack' : GC_mark_stack'[i] = o
    <3>1. CASE UNCHANGED <<marked, GC_mark_stack, GC_mark_state>>
               /\ (o \in marked \/ BlockOf[o] \in freeBlk)
      BY <3>1, ZenonT(30)
    <3>2. CASE marked' = marked \cup {o} /\ GC_ms_push_obj_descr(o)
      BY <1>2, <3>2, PushKeeps DEF Node
    <3> QED
      BY <3>1, <3>2, ZenonT(30) DEF GC_ms_push_contents
  <2>2. MarkFrame /\ Live' = Live
    BY <2>1, LiveSame DEF MarkFrame
  <2>3. ASSUME NEW n \in Live \cup Root, NEW f \in Field, Covered(n, f)
        PROVE  Covered(n, f)'
    <3>1. CASE <<n, f>> \in reading \ reading'
      <4>1. ptr[n][f] = o /\ ptr' = ptr
        BY <3>1
      <4>2. ptr[n][f] \in Live \cup {Null}
        BY LiveClosed
      <4>3. o # Null
        BY NodesDistinct
      <4>4. ptr'[n][f] = o /\ o \in Live
        BY <4>1, <4>2, <4>3
      <4> QED
        BY <2>1, <4>4, ZenonT(30) DEF Covered
    <3>2. CASE <<n, f>> \notin reading \ reading'
      <4>1. Scanning(n, f) => Scanning(n, f)'
        BY <2>1, <3>2, ZenonT(30) DEF Scanning
      <4> QED
        BY <2>1, <2>3, <4>1, ZenonT(30) DEF Covered, Running
    <3> QED
      BY <3>1, <3>2
  <2>4. ASSUME NEW n \in Live' \cap marked', NEW f \in Field
        PROVE  Exempt(n)' \/ Covered(n, f)'
    <3>1. CASE n \in marked
      BY <2>2, <2>3, <3>1, ExemptSame, ZenonT(30) DEF MarkInvariant
    <3>2. CASE n \notin marked
      BY <2>1, <2>4, <3>2 DEF Covered, Scanning
    <3> QED
      BY <3>1, <3>2, ZenonT(30)
  <2>5. RootsAhead' \/ Running' \/ stk' \subseteq marked' \cup stackWords'
    <3>1. CASE RootsAhead \/ Running
      BY <2>2, <3>1, ExemptSame DEF Running
    <3>2. CASE stk \subseteq marked \cup stackWords
      <4>1. stk' = stk /\ stk \subseteq Live
        BY LiveClosed
      <4>2. ASSUME NEW x \in stk PROVE x \in marked' \cup stackWords'
        <5>1. CASE x = o
          BY <2>1, <4>1, <5>1
        <5>2. CASE x # o
          BY <2>1, <3>2, <5>2
        <5> QED
          BY <5>1, <5>2
      <4> QED
        BY <4>1, <4>2
    <3> QED
      BY <3>1, <3>2, ZenonT(30) DEF MarkInvariant
  <2> QED
    BY <2>2, <2>3, <2>4, <2>5, ExemptSame, ZenonT(30) DEF MarkInvariant
<1> QED
  BY <1>1, <1>2

(* A step of GC_mark_some keeps the invariant. *)
LEMMA SafeMarkSome ==
    ASSUME IInv, GC_mark_some
    PROVE  IInv'
<1> SUFFICES HeapInv' /\ MarkInvariant'
  BY TypeMarkSome, CtlMarkSome DEF IInv
<1>1. TypeOK /\ HeapInv /\ MarkInvariant /\ CtlInv
  BY DEF IInv
<1>2. \A o \in Live : BlockOf[o] \notin freeBlk
  BY <1>1, LiveClosed DEF HeapInv, NoLiveReclaimed, FreeObjs
<1>3. CASE MarkSomeRescuers
  BY <1>1, <1>3, MarkRescuers, HeapMarkSome, ZenonT(30)
     DEF MarkSomeRescuers, CallUnchanged, AtCall, GC_mark_from, PushNextOf
<1>4. CASE MarkSomeUncollectable
  BY <1>1, <1>4, MarkUncollectable, HeapMarkSome, ZenonT(30)
     DEF MarkSomeUncollectable, CallUnchanged, AtCall, GC_mark_from, PushNextOf
<1>5. CASE MarkSomeRootsPushed
  BY <1>5, MarkRootsPushed
<1>6. CASE MarkSomeInvalid
  BY <1>1, <1>6, MarkInvalid, HeapMarkSome, ZenonT(30)
     DEF MarkSomeInvalid, CallUnchanged, AtCall, GC_mark_from, PushNextOf
<1>7. CASE PushNext
  <2> DEFINE n == CHOOSE x \in pushing : TRUE
  <2>1. /\ n \in pushing /\ n \in Node /\ GC_ms_push_obj_descr(n) /\ pushing' = pushing \ {n}
        /\ UNCHANGED <<heapVars, blockVars, dirtyVars, reading, stackWords, inRoots,
                       ctlVars, marked, GC_scan_ptr, GC_objects_are_marked>>
    BY <1>1, <1>7 DEF PushNext, TypeOK
  <2> HIDE DEF n
  <2>2. pc # "finish" /\ (GC_objects_are_marked \/ inRoots)
    BY <1>1, <2>1 DEF CtlInv, InCall
  <2>3. HeapInv'
    BY <1>1, <2>1, <2>2, HeapMarkSome
  <2>4. CASE GC_mark_state' = "INVALID"
    BY <2>1, <2>2, <2>3, <2>4, MarkOverflow
  <2>5. CASE GC_mark_state' # "INVALID"
    <3>1. /\ GC_mark_state' = GC_mark_state
          /\ \E i \in DOMAIN GC_mark_stack' : GC_mark_stack'[i] = n
          /\ \A m : (\E i \in DOMAIN GC_mark_stack : GC_mark_stack[i] = m)
                => (\E i \in DOMAIN GC_mark_stack' : GC_mark_stack'[i] = m)
      BY <1>1, <2>1, <2>5, PushKeeps, ZenonT(30)
    <3>2. MarkFrame /\ Live' = Live
      BY <2>1, <3>1, LiveSame, ZenonT(30) DEF MarkFrame
    <3>3. \A m, f : Scanning(m, f) => Scanning(m, f)'
      BY <2>1, <3>1 DEF Scanning
    <3>4. \A m, f : Covered(m, f) => Covered(m, f)'
      BY <2>1, <3>3 DEF Covered, Running
    <3>5. Running' <=> Running
      BY <2>1 DEF Running
    <3> QED
      BY <1>1, <2>1, <2>3, <3>2, <3>4, <3>5, ExemptSame DEF MarkInvariant
  <2> QED
    BY <2>4, <2>5
<1>8. CASE ReadNext
  <2> DEFINE r == CHOOSE x \in reading : TRUE
             v == ptr[r[1]][r[2]]
  <2>1. /\ r \in reading /\ r \in Node \X Field /\ reading' = reading \ {r}
        /\ v \in Obj \cup {Null}
        /\ \/ v # Null /\ GC_ms_push_contents(v)
           \/ v = Null /\ UNCHANGED <<marked, GC_mark_stack, GC_mark_state>>
        /\ UNCHANGED <<heapVars, blockVars, dirtyVars, pushing, stackWords, inRoots,
                       ctlVars, GC_scan_ptr, GC_objects_are_marked>>
    <3>1. r \in reading
      BY <1>8, ZenonT(30) DEF ReadNext
    <3>2. r \in Node \X Field
      BY <1>1, <3>1 DEF TypeOK
    <3>3. v \in Obj \cup {Null}
      <4>1. r[1] \in Node /\ r[2] \in Field
        <5> HIDE DEF r
        <5> QED
          BY <3>2
      <4>2. ptr \in [Node -> [Field -> Obj \cup {Null}]]
        BY <1>1 DEF TypeOK, Graphs
      <4> HIDE DEF r
      <4> QED
        BY <4>1, <4>2
    <3>4. /\ reading' = reading \ {r}
          /\ \/ v # Null /\ GC_ms_push_contents(v)
             \/ v = Null /\ UNCHANGED <<marked, GC_mark_stack, GC_mark_state>>
          /\ UNCHANGED <<heapVars, blockVars, dirtyVars, pushing, stackWords, inRoots,
                         ctlVars, GC_scan_ptr, GC_objects_are_marked>>
      BY <1>8, ZenonT(30) DEF ReadNext
    <3> QED
      BY <3>1, <3>2, <3>3, <3>4, ZenonT(30)
  <2>2. ASSUME NEW n, NEW f, <<n, f>> = r PROVE ptr[n][f] = v
    <3>1. r[1] = n /\ r[2] = f
      <4> HIDE DEF r
      <4> QED
        BY <2>2
    <3> QED
      BY <3>1
  <2> HIDE DEF r, v
  <2>3. pc # "finish" /\ GC_objects_are_marked
    BY <1>1, <2>1 DEF CtlInv, InCall
  <2>4. marked \subseteq marked'
    BY <2>1 DEF GC_ms_push_contents
  <2>5. HeapInv'
    BY <1>1, <2>1, <2>3, <2>4, HeapMarkSome
  <2>6. CASE v # Null /\ GC_ms_push_contents(v)
    <3>1. \A n \in Live \cup Root, f \in Field : <<n, f>> \in reading \ reading' => ptr[n][f] = v
      BY <2>1, <2>2, ZenonT(30)
    <3> QED
      BY <1>1, <1>2, <2>1, <2>3, <2>5, <2>6, <3>1, MarkPush, ZenonT(30)
  <2>7. CASE v = Null /\ UNCHANGED <<marked, GC_mark_stack, GC_mark_state>>
    <3>1. MarkFrame /\ Live' = Live
      BY <2>1, <2>7, LiveSame DEF MarkFrame
    <3>2. ASSUME NEW n, NEW f, Covered(n, f) PROVE Covered(n, f)'
      <4>1. CASE <<n, f>> = r
        BY <2>1, <2>2, <2>7, <4>1 DEF Covered
      <4>2. CASE <<n, f>> # r
        BY <2>1, <2>7, <3>2, <4>2, ZenonT(30) DEF Covered, Scanning, Running
      <4> QED
        BY <4>1, <4>2
    <3>3. Running' <=> Running
      BY <2>1 DEF Running
    <3> QED
      BY <1>1, <2>1, <2>5, <2>7, <3>1, <3>2, <3>3, ExemptSame, ZenonT(30) DEF MarkInvariant
  <2> QED
    BY <2>1, <2>6, <2>7
<1>9. CASE GC_mark_and_push_stack
  <2> DEFINE o == CHOOSE x \in stackWords : TRUE
  <2>1. /\ o \in Obj /\ stackWords # {} /\ stackWords' = stackWords \ {o}
        /\ GC_ms_push_contents(o) /\ GC_dirty_pages \subseteq GC_dirty_pages'
        /\ UNCHANGED <<heapVars, blockVars, GC_grungy_pages, pushing, reading, inRoots,
                       ctlVars, GC_scan_ptr, GC_objects_are_marked>>
    BY <1>1, <1>9, ZenonT(30) DEF GC_mark_and_push_stack, TypeOK
  <2> HIDE DEF o
  <2>2. pc # "finish" /\ inRoots
    BY <1>1, <2>1 DEF CtlInv, InCall
  <2>3. marked \subseteq marked'
    BY <2>1, ZenonT(30) DEF GC_ms_push_contents
  <2>4. HeapInv'
    BY <1>1, <2>1, <2>2, <2>3, HeapMarkSome
  <2> QED
    BY <1>1, <1>2, <2>1, <2>2, <2>4, MarkPush, ZenonT(30)
<1>10. CASE RootsPushed
  <2>1. /\ inRoots /\ ~inRoots' /\ GC_objects_are_marked' /\ stackWords = {}
        /\ GC_mark_state' = IF GC_mark_state = "INVALID" THEN "INVALID" ELSE "ROOTS_PUSHED"
        /\ UNCHANGED <<heapVars, blockVars, dirtyVars, stackVars, pushing, reading,
                       stackWords, ctlVars, marked, GC_scan_ptr>>
    BY <1>10 DEF RootsPushed
  <2>2. pc # "finish"
    BY <1>1, <2>1 DEF CtlInv, InCall
  <2>3. HeapInv'
    BY <1>1, <2>1, <2>2, HeapMarkSome
  <2>4. CASE GC_mark_state = "INVALID"
    BY <2>1, <2>3, <2>4, MarkOverflow
  <2>5. CASE GC_mark_state # "INVALID"
    <3>1. (\A n : Exempt(n) => Exempt(n)') /\ ~RootsAhead /\ (Running' <=> Running)
      BY <2>1, <2>5 DEF Exempt, Ahead, RootsAhead, Running
    <3>2. \A r : RootExempt(r) => RootExempt(r)'
      BY <3>1 DEF RootExempt
    <3>3. \A n, f : Covered(n, f) => Covered(n, f)'
      BY <2>1, ZenonT(30) DEF Covered, Scanning, Running
    <3>4. Live' = Live
      BY <2>1, LiveSame
    <3> QED
      BY <1>1, <2>1, <2>3, <3>1, <3>2, <3>3, <3>4 DEF MarkInvariant
  <2> QED
    BY <2>4, <2>5
<1> QED
  BY <1>3, <1>4, <1>5, <1>6, <1>7, <1>8, <1>9, <1>10 DEF GC_mark_some

-----------------------------------------------------------------------------
(* An empty heap satisfies the invariant. *)
LEMMA InitSafe ==
    ASSUME Init
    PROVE  IInv
<1>1. TypeOK
  BY InitType
<1>2. Live = {}
  <2>1. ptr \in Graphs /\ \A n \in Root, f \in Field : ptr[n][f] = Null
    BY DEF Init, Graphs, Node
  <2>2. {} \in SUBSET Obj /\ Closed(ptr, {}, stk \cup owned)
    BY <2>1 DEF Closed, Init
  <2> QED
    BY <2>2, ReachMinimal DEF Live
<1>3. CtlInv
  BY DEF Init, CtlInv, InCall
<1>4. HeapInv
  <2>1. \A o \in FreeObjs, f \in Field : ptr[o][f] = Null
    BY DEF Init, FreeObjs, Node
  <2>2. NoLiveReclaimed /\ SweepSafe /\ CompleteAtFinish
    BY <1>2 DEF NoLiveReclaimed, SweepSafe, CompleteAtFinish, Init
  <2> QED
    BY <1>2, <2>1, <2>2 DEF HeapInv, Init
<1>5. MarkInvariant
  <2>1. \A r \in Root, f \in Field : Covered(r, f)
    BY DEF Init, Covered, Node
  <2> QED
    BY <1>2, <2>1 DEF MarkInvariant, Running, Init
<1> QED
  BY <1>1, <1>3, <1>4, <1>5 DEF IInv

(* The inductive invariant holds throughout, provided that a client with a  *)
(* manual VDB keeps the stored pointer until it has called GC_dirty.       *)
THEOREM Invariance == ManualContract => (Spec => []IInv)
<1> SUFFICES ASSUME ManualContract PROVE Spec => []IInv
  OBVIOUS
<1>1. Init => IInv
  BY InitSafe
<1>2. IInv /\ [Next]_vars => IInv'
  <2> SUFFICES ASSUME IInv, [Next]_vars PROVE IInv'
    OBVIOUS
  <2>1. CASE UNCHANGED vars
    <3>1. UNCHANGED <<heapVars, blockVars, dirtyVars, stackVars, callVars, ctlVars, markVars>>
      BY <2>1 DEF vars
    <3>2. TypeOK' /\ CtlInv'
      BY <3>1, ZenonT(30) DEF IInv, TypeOK, CtlInv, InCall
    <3>3. /\ Live' = Live /\ FreeObjs' = FreeObjs /\ UncollObjs' = UncollObjs
          /\ ObjsIn(freeBlk)' = ObjsIn(freeBlk)
      BY <3>1, LiveSame DEF FreeObjs, UncollObjs, ObjsIn
    <3>4. HeapInv'
      BY <3>1, <3>3, ZenonT(30) DEF IInv, HeapInv, NoLiveReclaimed, SweepSafe, CompleteAtFinish
    <3>5. (\A n, f : Covered(n, f)' <=> Covered(n, f)) /\ (Running' <=> Running) /\ MarkFrame
      BY <3>1, ZenonT(30) DEF Covered, Scanning, Running, MarkFrame
    <3>6. MarkInvariant'
      BY <3>1, <3>3, <3>5, ExemptSame DEF IInv, MarkInvariant
    <3> QED
      BY <3>2, <3>4, <3>6 DEF IInv
  <2> QED
    BY <2>1, SafeMutator, SafeStartGc, SafeAbandon, SafeLittle, SafeMarkSome, SafeFinish
       DEF Next
<1> QED
  BY <1>1, <1>2, PTL DEF Spec

(* No object the client can reach is ever on a free list or in a free       *)
(* block, whatever it does between the increments of the marking.          *)
THEOREM Safety == ManualContract => (Spec => []NoLiveReclaimed)
<1>1. IInv => NoLiveReclaimed
  BY DEF IInv, HeapInv
<1> QED
  BY <1>1, Invariance, PTL

(* Invariant "I" of gc_pmark.h. *)
THEOREM InvariantI == ManualContract => (Spec => []MarkInvariant)
<1>1. IInv => MarkInvariant
  BY DEF IInv
<1> QED
  BY <1>1, Invariance, PTL

(* A collection that completes has marked everything live. *)
THEOREM Completeness == ManualContract => (Spec => []CompleteAtFinish)
<1>1. IInv => CompleteAtFinish
  BY DEF IInv, HeapInv
<1> QED
  BY <1>1, Invariance, PTL

(* No sweep puts an object on a free list that holds it already. *)
THEOREM SweepOnce == ManualContract => (Spec => []NoDoubleInsert)
<1>1. IInv => NoDoubleInsert
  BY DEF IInv, HeapInv, CtlInv, SweepSafe, NoDoubleInsert, LockFree
<1> QED
  BY <1>1, Invariance, PTL

-----------------------------------------------------------------------------
(* The heap that the client sees. *)

(* The heap's notions are the collector's. *)
LEMMA SameGraph ==
    /\ Heap!Node = Node
    /\ \A g, S : Heap!Reach(g, S) = Reach(g, S)
    /\ \A g, D : Heap!Cleared(g, D) = Cleared(g, D)
    /\ Heap!Live = Live
<1>1. Heap!Node = Node
  BY DEF Heap!Node, Node
<1>2. \A g, R, S : Heap!Closed(g, R, S) <=> Closed(g, R, S)
  BY DEF Heap!Closed, Closed
<1>3. \A g, S : Heap!Reach(g, S) = Reach(g, S)
  BY <1>2 DEF Heap!Reach, Reach
<1>4. \A g, D : Heap!Cleared(g, D) = Cleared(g, D)
  BY <1>1 DEF Heap!Cleared, Cleared
<1> QED
  BY <1>1, <1>3, <1>4 DEF Heap!Live, Live

(* What is free depends on the free lists and the free blocks only. *)
LEMMA FreeSame ==
    ASSUME UNCHANGED <<flist, freeBlk>>
    PROVE  FreeObjs' = FreeObjs
  BY DEF FreeObjs

-----------------------------------------------------------------------------
(* The client's steps. *)

(* A load of a pointer is a Read. *)
LEMMA LoadIs ==
    ASSUME NEW n \in Node, NEW f \in Field, Load(n, f)
    PROVE  Heap!Read(n, f)
  BY FreeSame DEF Load, Holds, Heap!Read

(* A store, with its write fault or its pending GC_dirty, is a Write. *)
LEMMA StoreIs ==
    ASSUME NEW n \in Node, NEW f \in Field, NEW v \in Obj \cup {Null}, Store(n, f, v)
    PROVE  Heap!Write(n, f, v)
  BY FreeSame DEF Store, Heap!Write

(* A pointer that leaves stacks and registers is dropped. *)
LEMMA DropIs ==
    ASSUME NEW o \in Obj, Drop(o)
    PROVE  Heap!Drop(o)
  BY FreeSame DEF Drop, Heap!Drop

(* GC_malloc hands out an object of a free list: it is empty, and in no free *)
(* block.                                                                    *)
LEMMA MallocIs ==
    ASSUME IInv, NEW o \in Obj, GC_malloc(o)
    PROVE  Heap!Allocate(o)
<1>1. /\ o \in flist /\ flist' = flist \ {o} /\ stk' = stk \cup {o}
      /\ owned' \in {owned, owned \cup {o}} /\ UNCHANGED <<ptr, freeBlk>>
  BY ZenonT(30) DEF GC_malloc, Holds
<1>2. o \in FreeObjs /\ BlockOf[o] \notin freeBlk
  BY <1>1 DEF FreeObjs, IInv, HeapInv, ObjsIn
<1>3. \A f \in Field : ptr[o][f] = Null
  BY <1>2 DEF IInv, HeapInv
<1>4. FreeObjs' = FreeObjs \ {o}
  BY <1>1, <1>2 DEF FreeObjs
<1> QED
  BY <1>1, <1>2, <1>3, <1>4, ZenonT(30) DEF Heap!Allocate

(* GC_alloc_large hands out the one object of a free block; GC_new_hblk only *)
(* moves objects from a free block to a free list.                           *)
LEMMA NewHblkIs ==
    ASSUME IInv, NEW b \in Block, GC_new_hblk(b)
    PROVE  (\E o \in Obj : Heap!Allocate(o)) \/ UNCHANGED Heap!heap
<1>1. b \in freeBlk /\ freeBlk' = freeBlk \ {b} /\ UNCHANGED <<ptr, owned>>
  BY DEF GC_new_hblk
<1>2. CASE b \in Large /\ GC_alloc_large(b)
  <2>1. PICK o \in Obj : ObjsOf(b) = {o}
    BY <1>2, HeapAssumption
  <2>2. stk' = stk \cup {o} /\ flist' = flist
    BY <1>2, <2>1 DEF GC_alloc_large, Holds
  <2>3. o \in FreeObjs /\ o \notin flist
    BY <1>1, <2>1 DEF FreeObjs, ObjsOf, IInv, HeapInv, ObjsIn
  <2>4. \A f \in Field : ptr[o][f] = Null
    BY <2>3 DEF IInv, HeapInv
  <2>5. FreeObjs' = FreeObjs \ {o}
    BY <1>1, <2>1, <2>2, <2>3 DEF FreeObjs, ObjsOf
  <2> QED
    BY <1>1, <2>2, <2>3, <2>4, <2>5 DEF Heap!Allocate
<1>3. CASE flist' = flist \cup ObjsOf(b) /\ UNCHANGED stk
  <2>1. FreeObjs' = FreeObjs
    BY <1>1, <1>3 DEF FreeObjs, ObjsOf
  <2> QED
    BY <1>1, <1>3, <2>1 DEF Heap!heap
<1> QED
  BY <1>2, <1>3 DEF GC_new_hblk

(* GC_free_internal frees an object that nothing else leads to, and clears it. *)
LEMMA FreeIs ==
    ASSUME NEW o \in Obj, GC_free_internal(o)
    PROVE  Heap!Free(o)
<1>1. /\ o \notin Reach(ptr, (stk \cup owned) \ {o}) /\ ptr' = Cleared(ptr, {o})
      /\ stk' = stk \ {o} /\ owned' = owned \ {o}
  BY ZenonT(30) DEF GC_free_internal
<1>2. FreeObjs' = FreeObjs \cup {o}
  <2>1. CASE flist' = flist \cup {o} /\ UNCHANGED freeBlk
    BY <2>1 DEF FreeObjs
  <2>2. CASE BlockOf[o] \in Large /\ freeBlk' = freeBlk \cup {BlockOf[o]} /\ UNCHANGED flist
    <3>1. ObjsOf(BlockOf[o]) = {o}
      BY <2>2, HeapAssumption DEF ObjsOf
    <3> QED
      BY <2>2, <3>1 DEF FreeObjs, ObjsOf
  <2> QED
    BY <2>1, <2>2, ZenonT(30) DEF GC_free_internal
<1> QED
  BY <1>1, <1>2, SameGraph DEF Heap!Free

-----------------------------------------------------------------------------
(* The collector's steps. *)

(* A step that clears and frees dead objects is a Collect. *)
LEMMA CollectIs ==
    ASSUME NEW D \in SUBSET Obj, D \cap Live = {}, ptr' = Cleared(ptr, D),
           FreeObjs' \subseteq Obj, FreeObjs' \cap Live = {}, UNCHANGED <<stk, owned>>
    PROVE  Heap!Collect
<1>1. D \in SUBSET (Obj \ Heap!Live) /\ FreeObjs' \in SUBSET (Obj \ Heap!Live)
  BY SameGraph
<1>2. ptr' = Heap!Cleared(ptr, D)
  BY SameGraph
<1> QED
  BY <1>1, <1>2 DEF Heap!Collect

(* Sweeping queued blocks, when allocating or before a full collection. *)
LEMMA SweepIs ==
    ASSUME IInv, pc = "idle", NEW S \in SUBSET reclaimq, GC_reclaim_generic(S),
           UNCHANGED <<stk, owned, freeBlk>>
    PROVE  Heap!Collect
<1> DEFINE dead == ObjsIn(S) \ marked
<1>1. flist' = flist \cup dead /\ ptr' = Cleared(ptr, dead)
  BY DEF GC_reclaim_generic
<1>2. \A b \in reclaimq : ObjsOf(b) \cap Live \subseteq marked
  BY DEF IInv, HeapInv, SweepSafe, CtlInv
<1>3. dead \in SUBSET Obj /\ dead \cap Live = {}
  BY <1>2 DEF ObjsIn, ObjsOf
<1>4. FreeObjs' = FreeObjs \cup dead /\ FreeObjs \subseteq Obj /\ FreeObjs \cap Live = {}
  BY <1>1, ZenonT(30) DEF FreeObjs, IInv, TypeOK, HeapInv, NoLiveReclaimed
<1> HIDE DEF dead
<1> QED
  BY <1>1, <1>3, <1>4, CollectIs

(* GC_finish_collection: the blocks it frees hold no marked object. *)
LEMMA FinishIs ==
    ASSUME IInv, GC_finish_collection
    PROVE  Heap!Collect
<1> DEFINE marks == marked \ flist
           empty == {b \in Block \ freeBlk : ObjsOf(b) \cap marks = {}}
<1>1. /\ freeBlk' = freeBlk \cup empty /\ flist' = {} /\ ptr' = Cleared(ptr, ObjsIn(empty))
      /\ UNCHANGED <<stk, owned>> /\ pc = "finish"
  BY DEF GC_finish_collection, GC_start_reclaim, GC_reclaim_block, GC_clear_fl_marks
<1>2. Live \subseteq marks
  BY <1>1, ZenonT(30) DEF IInv, HeapInv, CompleteAtFinish, NoLiveReclaimed, FreeObjs
<1>3. ObjsIn(empty) \in SUBSET Obj /\ ObjsIn(empty) \cap Live = {}
  BY <1>2 DEF ObjsIn, ObjsOf
<1>4. FreeObjs' \subseteq FreeObjs \cup ObjsIn(empty) /\ FreeObjs \subseteq Obj
  BY <1>1 DEF FreeObjs, ObjsIn, IInv, TypeOK
<1>5. FreeObjs \cap Live = {}
  BY DEF IInv, HeapInv, NoLiveReclaimed
<1> HIDE DEF empty
<1> QED
  BY <1>1, <1>3, <1>4, <1>5, CollectIs

(* Starting a collection sweeps first, or changes nothing the client sees. *)
LEMMA StartIs ==
    ASSUME IInv, StartGc
    PROVE  Heap!Collect \/ UNCHANGED Heap!heap
<1>1. CASE MaybeGcPartial
  BY <1>1, FreeSame DEF MaybeGcPartial, Heap!heap
<1>2. CASE MaybeGcFull
  BY <1>2, SweepIs DEF MaybeGcFull, LockFree
<1>3. ASSUME NEW canStop \in BOOLEAN, GC_try_to_collect_inner(canStop)
      PROVE  Heap!Collect
  BY <1>3, SweepIs DEF GC_try_to_collect_inner, LockFree
<1> QED
  BY <1>1, <1>2, <1>3 DEF StartGc

(* The marking, with the world running or stopped, and the pauses between its  *)
(* parts change nothing the client sees.                                       *)
LEMMA MarkingIsNone ==
    ASSUME Abandon \/ CollectALittle \/ GC_mark_some
    PROVE  UNCHANGED Heap!heap
<1>1. UNCHANGED <<ptr, stk, owned, flist, freeBlk>>
  BY ZenonT(30) DEF Abandon, CollectALittle, LittleStart, LittlePause, LittleStop, GC_mark_some,
         MarkSomeRescuers, MarkSomeUncollectable, MarkSomeRootsPushed, MarkSomeInvalid,
         CallUnchanged, PushNext, ReadNext, GC_mark_and_push_stack, RootsPushed
<1> QED
  BY <1>1, FreeSame DEF Heap!heap

-----------------------------------------------------------------------------
(* The refinement. *)

(* Every step of the collector is a step of the heap, or none. *)
LEMMA StepIs ==
    ASSUME IInv, [Next]_vars
    PROVE  [Heap!Next]_(Heap!heap)
<1>1. CASE UNCHANGED vars
  BY <1>1, FreeSame DEF vars, Heap!heap
<1>2. CASE Mutator
  <2>1. ASSUME NEW n \in Node, NEW f \in Field, Load(n, f) PROVE Heap!Next
    BY <2>1, LoadIs, SameGraph DEF Heap!Next
  <2>2. ASSUME NEW n \in Node, NEW f \in Field, NEW v \in Obj \cup {Null}, Store(n, f, v)
        PROVE  Heap!Next
    BY <2>2, StoreIs, SameGraph DEF Heap!Next
  <2>3. ASSUME NEW o \in Obj, Drop(o) \/ GC_malloc(o) \/ GC_free_internal(o) PROVE Heap!Next
    BY <2>3, DropIs, MallocIs, FreeIs DEF Heap!Next
  <2>4. ASSUME NEW s \in pend, GC_dirty(s) PROVE UNCHANGED Heap!heap
    BY <2>4, FreeSame DEF GC_dirty, Heap!heap
  <2>5. ASSUME NEW b \in Block, GC_new_hblk(b) PROVE [Heap!Next]_(Heap!heap)
    BY <2>5, NewHblkIs DEF Heap!Next
  <2>6. ASSUME NEW b \in Block, GC_continue_reclaim(b) PROVE Heap!Next
    <3>1. /\ pc = "idle" /\ {b} \in SUBSET reclaimq /\ GC_reclaim_generic({b})
          /\ UNCHANGED <<stk, owned, freeBlk>>
      BY <2>6 DEF GC_continue_reclaim, LockFree
    <3> QED
      BY <3>1, SweepIs DEF Heap!Next
  <2> QED
    BY <1>2, <2>1, <2>2, <2>3, <2>4, <2>5, <2>6 DEF Mutator
<1>3. CASE StartGc
  BY <1>3, StartIs DEF Heap!Next
<1>4. CASE Abandon \/ CollectALittle \/ GC_mark_some
  BY <1>4, MarkingIsNone
<1>5. CASE GC_finish_collection
  BY <1>5, FinishIs DEF Heap!Next
<1> QED
  BY <1>1, <1>2, <1>3, <1>4, <1>5 DEF Next

(* An empty heap is an initial state of SafeHeap. *)
LEMMA InitIs ==
    ASSUME Init
    PROVE  Heap!Init
<1>1. FreeObjs = Obj
  BY HeapAssumption DEF Init, FreeObjs
<1> QED
  BY <1>1, SameGraph DEF Init, Heap!Init

(* The collector is a heap whose objects keep their contents while the client  *)
(* can reach them, whatever is collected, swept or abandoned meanwhile, if a   *)
(* client with a manual VDB keeps a stored pointer until it called GC_dirty.   *)
THEOREM Refinement == ManualContract => (Spec => ImplementsSafeHeap)
<1> SUFFICES ASSUME ManualContract PROVE Spec => ImplementsSafeHeap
  OBVIOUS
<1>1. Init => Heap!Init
  BY InitIs
<1>2. IInv /\ [Next]_vars => [Heap!Next]_(Heap!heap)
  BY StepIs
<1>3. Spec => []IInv
  BY Invariance
<1> QED
  BY <1>1, <1>2, <1>3, PTL DEF Spec, ImplementsSafeHeap, Heap!Spec
=============================================================================
