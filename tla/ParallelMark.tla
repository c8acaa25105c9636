---------------------------- MODULE ParallelMark ----------------------------
(***************************************************************************)
(* The parallel marker (mark.c, GC_mark_thread in pthread_support.c).  The *)
(* thread that holds the allocator lock and its helpers steal entries of   *)
(* the main mark stack, mark from local stacks and copy what is too much   *)
(* back, until the main stack is empty and nobody is active.               *)
(*                                                                         *)
(* An entry of the main stack is read and cleared in two steps, a mark bit *)
(* is tested and set in two, GC_first_nonempty and GC_mark_stack_top are   *)
(* read without the mark lock where the code does.  A critical section of  *)
(* the mark lock is one step.  GC_mark_from returns after any number of    *)
(* objects.  What the serial marker does between two calls of              *)
(* GC_do_parallel_mark is its outcome: the marked objects that still have  *)
(* unmarked successors are on the main stack.                              *)
(***************************************************************************)
EXTENDS Integers, Sequences, SequencesExt, FiniteSets

CONSTANTS Marker, MainMarker,   \* the helpers and the thread with the lock
          MarkObj, NoObj,       \* objects, a cleared entry
          HeapShapes,           \* what the objects may point to
          LocalSizes,           \* values of LOCAL_MARK_STACK_SIZE
          LocalDiscards,        \* GC_MARK_STACK_DISCARDS
          EntriesToGet,         \* ENTRIES_TO_GET
          InitialSize, SizeBound,   \* the size of the main stack and its bound
          MaxRoots,             \* bound on the roots of a collection
          MaxMarkNo             \* bound on GC_mark_no

\* What is assumed of the constants.
ParallelMarkAssumption ==
    /\ MainMarker \in Marker /\ NoObj \notin MarkObj
    /\ HeapShapes \subseteq [MarkObj -> SUBSET MarkObj]
    /\ \A n \in LocalSizes : n \in Nat /\ LocalDiscards \in 1 .. n
    /\ InitialSize \in 1 .. SizeBound /\ MaxRoots \in 1 .. InitialSize
    /\ EntriesToGet \in Nat \ {0} /\ MaxMarkNo \in Nat

VARIABLES
    kids, localSize,      \* the heap and the size of a local stack, constant
    markBits,             \* marked objects
    roots,                \* what the collection started from
    mstack, mtop,         \* GC_mark_stack, index GC_mark_stack_top
    msize, tooSmall,      \* GC_mark_stack_size, GC_mark_stack_too_small
    GC_first_nonempty,    \* an index
    markState,            \* GC_mark_state
    GC_help_wanted, GC_helper_count, GC_active_count,
    GC_mark_no,
    mk,                   \* the locals of every marker
    sleeping              \* markers in GC_wait_marker

markHeapVars == <<kids, localSize, roots>>
mainStackVars == <<mstack, mtop, msize, tooSmall>>
helpVars == <<GC_help_wanted, GC_helper_count, GC_active_count, GC_mark_no>>
parallelMarkVars == <<markHeapVars, markBits, mainStackVars, GC_first_nonempty, markState, helpVars,
                      mk, sleeping>>

Helpers == Marker \ {MainMarker}
StackIndex == 0 .. SizeBound - 1
Locals == [pc |-> "help", first |-> 0, top |-> -1, seen |-> 0, n |-> 0, got |-> 0,
           local |-> <<>>, held |-> {}, ret |-> <<>>, no |-> 0]
Standing == {"serial", "help", "standby", "cleanup", "done"}
Working == {"loop", "cas", "top", "lock", "read", "clear", "mark", "push", "local", "inactive",
            "return", "notify"}

\* Types of the stacks, the counts and the markers.
ParallelMarkTypeOK ==
    /\ kids \in HeapShapes /\ localSize \in LocalSizes /\ roots \subseteq MarkObj
    /\ markBits \subseteq MarkObj
    /\ mstack \in [StackIndex -> MarkObj \cup {NoObj}] /\ mtop \in -1 .. msize - 1
    /\ msize \in 1 .. SizeBound /\ tooSmall \in BOOLEAN
    /\ GC_first_nonempty \in 0 .. msize
    /\ markState \in {"NONE", "ROOTS_PUSHED", "INVALID"}
    /\ GC_help_wanted \in BOOLEAN /\ GC_mark_no \in 0 .. MaxMarkNo
    /\ GC_active_count \in 0 .. GC_helper_count /\ GC_helper_count \in 0 .. Cardinality(Marker)
    /\ \A m \in Marker :
        /\ mk[m].pc \in Standing \cup Working
        /\ Len(mk[m].local) <= localSize /\ mk[m].held \subseteq MarkObj
    /\ sleeping \subseteq Marker

ParallelMarkInit ==
    /\ kids \in HeapShapes /\ localSize \in LocalSizes
    /\ markBits = {} /\ roots = {}
    /\ mstack = [i \in StackIndex |-> NoObj] /\ mtop = -1 /\ msize = InitialSize /\ tooSmall = FALSE
    /\ GC_first_nonempty = 0 /\ markState = "NONE"
    /\ GC_help_wanted = FALSE /\ GC_helper_count = 0 /\ GC_active_count = 0 /\ GC_mark_no = 0
    /\ mk = [m \in Marker |-> [Locals EXCEPT !.pc = IF m = MainMarker THEN "serial" ELSE "help"]]
    /\ sleeping = {}

Broadcast == sleeping' = {}
Sleep(m) == sleeping' = sleeping \cup {m}
MarkerIs(m, pc) == mk[m].pc = pc /\ m \notin sleeping
To(m, pc) == mk' = [mk EXCEPT ![m].pc = pc]

(***************************************************************************)
(* The serial marker, between the parallel phases.                         *)
(***************************************************************************)
MarkedFrom(R) ==
    {o \in MarkObj : \A S \in SUBSET MarkObj :
                        R \subseteq S /\ (\A x \in S : kids[x] \subseteq S) => o \in S}
StackOf(S) == [i \in StackIndex |-> IF i < Cardinality(S) THEN SetToSeq(S)[i + 1] ELSE NoObj]
Unfinished(S) == {o \in S : ~(kids[o] \subseteq S)}

\* A new collection: the mark bits are cleared, the roots are marked and pushed.
PushRoots ==
    /\ MarkerIs(MainMarker, "serial") /\ markState = "NONE" /\ GC_mark_no < MaxMarkNo
    /\ \E R \in SUBSET MarkObj :
        /\ Cardinality(R) \in 1 .. MaxRoots
        /\ roots' = R /\ markBits' = R
        /\ mstack' = StackOf(R) /\ mtop' = Cardinality(R) - 1
    /\ markState' = "ROOTS_PUSHED"
    /\ UNCHANGED <<kids, localSize, msize, tooSmall, GC_first_nonempty, helpVars, mk, sleeping>>

\* The heap is scanned for marked objects after an overflow.
Recover ==
    /\ MarkerIs(MainMarker, "serial") /\ markState = "INVALID" /\ GC_mark_no < MaxMarkNo
    /\ \E M \in SUBSET MarkedFrom(roots) :
        /\ markBits \cup roots \subseteq M /\ Cardinality(Unfinished(M)) <= msize
        /\ markBits' = M
        /\ mstack' = StackOf(Unfinished(M)) /\ mtop' = Cardinality(Unfinished(M)) - 1
    /\ markState' = "ROOTS_PUSHED"
    /\ UNCHANGED <<markHeapVars, msize, tooSmall, GC_first_nonempty, helpVars, mk, sleeping>>

\* The start of GC_do_parallel_mark, with the entry of GC_mark_local.
GC_do_parallel_mark ==
    /\ MarkerIs(MainMarker, "serial") /\ markState = "ROOTS_PUSHED"
    /\ GC_first_nonempty' = 0
    /\ GC_helper_count' = 1 /\ GC_active_count' = 1 /\ GC_help_wanted' = TRUE
    /\ Broadcast
    /\ mk' = [mk EXCEPT ![MainMarker].pc = "loop", ![MainMarker].first = 0]
    /\ UNCHANGED <<markHeapVars, markBits, mainStackVars, markState, GC_mark_no>>

\* Its end, once the helpers have left: GC_mark_no is incremented.
CleanUp ==
    /\ MarkerIs(MainMarker, "cleanup")
    /\ IF GC_helper_count > 0 THEN Sleep(MainMarker) /\ UNCHANGED <<mk, GC_mark_no>>
       ELSE /\ GC_mark_no' = GC_mark_no + 1
            /\ To(MainMarker, "done") /\ UNCHANGED sleeping
    /\ UNCHANGED <<markHeapVars, markBits, mainStackVars, GC_first_nonempty, markState,
                   GC_help_wanted, GC_helper_count, GC_active_count>>

\* The helpers are told of the new number; the case MS_ROOTS_PUSHED of
\* GC_mark_some empties the main stack and has it enlarged if need be.
MarkSomeDone ==
    /\ MarkerIs(MainMarker, "done")
    /\ Broadcast
    /\ mtop' = -1 /\ mstack' = [i \in StackIndex |-> NoObj]
    /\ \/ tooSmall /\ 2 * msize <= SizeBound /\ msize' = 2 * msize /\ tooSmall' = FALSE
       \/ UNCHANGED <<msize, tooSmall>>
    /\ markState' = IF markState = "ROOTS_PUSHED" THEN "NONE" ELSE markState
    /\ To(MainMarker, "serial")
    /\ UNCHANGED <<markHeapVars, markBits, GC_first_nonempty, helpVars>>

(***************************************************************************)
(* A helper waits for work (GC_mark_thread, GC_help_marker).               *)
(***************************************************************************)
\* The next value of my_mark_no; the difference is that of unsigned numbers.
NextMarkNo(n) == IF n + 1 - GC_mark_no \in 0 .. 2 THEN n + 1 ELSE GC_mark_no

GC_help_marker(h) ==
    /\ MarkerIs(h, "help")
    /\ LET no == mk[h].no
       IN CASE GC_mark_no < no \/ (~GC_help_wanted /\ GC_mark_no = no) ->
                 Sleep(h) /\ UNCHANGED <<mk, GC_helper_count, GC_active_count>>
            [] GC_mark_no > no \/ (GC_mark_no = no /\ GC_help_wanted
                                     /\ GC_helper_count > Cardinality(Helpers)) ->
                 /\ mk' = [mk EXCEPT ![h].no = NextMarkNo(no)]
                 /\ UNCHANGED <<sleeping, GC_helper_count, GC_active_count>>
            [] OTHER ->
                 /\ GC_helper_count' = GC_helper_count + 1 /\ GC_active_count' = GC_active_count + 1
                 /\ mk' = [mk EXCEPT ![h].pc = "loop", ![h].first = GC_first_nonempty]
                 /\ UNCHANGED sleeping
    /\ UNCHANGED <<markHeapVars, markBits, mainStackVars, GC_first_nonempty, markState, GC_help_wanted,
                   GC_mark_no>>

SpuriousWake(m) ==
    /\ m \in sleeping /\ sleeping' = sleeping \ {m}
    /\ UNCHANGED <<markHeapVars, markBits, mainStackVars, GC_first_nonempty, markState, helpVars, mk>>

(***************************************************************************)
(* GC_mark_local: the loop of a marker.                                    *)
(***************************************************************************)
\* GC_first_nonempty is loaded and compared with the marker's own.
LoadFirst(m) ==
    /\ MarkerIs(m, "loop")
    /\ LET mine == mk[m].first
       IN mk' = [mk EXCEPT ![m].first = IF mine < GC_first_nonempty THEN GC_first_nonempty ELSE mine,
                           ![m].seen = GC_first_nonempty,
                           ![m].pc = IF GC_first_nonempty < mine THEN "cas" ELSE "top"]
    /\ UNCHANGED <<markHeapVars, markBits, mainStackVars, GC_first_nonempty, markState, helpVars, sleeping>>

CompareAndSwapFirst(m) ==
    /\ MarkerIs(m, "cas")
    /\ GC_first_nonempty' = IF GC_first_nonempty = mk[m].seen THEN mk[m].first ELSE GC_first_nonempty
    /\ To(m, "top")
    /\ UNCHANGED <<markHeapVars, markBits, mainStackVars, markState, helpVars, sleeping>>

\* What GC_steal_mark_stack may take of n entries.
ToGet(n) == IF n < 2 * EntriesToGet THEN 1 ELSE EntriesToGet

\* GC_mark_stack_top is loaded without the lock.
LoadTop(m) ==
    /\ MarkerIs(m, "top")
    /\ mk' = [mk EXCEPT ![m].top = mtop, ![m].got = 0, ![m].n = ToGet(mtop - mk[m].first + 1),
                        ![m].pc = IF mtop < mk[m].first THEN "lock" ELSE "read"]
    /\ UNCHANGED <<markHeapVars, markBits, mainStackVars, GC_first_nonempty, markState, helpVars, sleeping>>

\* Leaving GC_mark_local: the main marker stops asking for help, a helper goes
\* back to GC_mark_thread.
LeaveMarkLocal(m, active, asleep) ==
    /\ GC_active_count' = active
    /\ GC_helper_count' = GC_helper_count - 1
    /\ sleeping' = IF GC_helper_count = 1 THEN {} ELSE asleep
    /\ mk' = IF m = MainMarker THEN [mk EXCEPT ![m].pc = "cleanup"]
             ELSE [mk EXCEPT ![m].pc = "help", ![m].no = NextMarkNo(@)]
    /\ GC_help_wanted' = IF m = MainMarker THEN FALSE ELSE GC_help_wanted

BackToWork(m, active, asleep) ==
    /\ GC_active_count' = active + 1 /\ sleeping' = asleep /\ To(m, "loop")
    /\ UNCHANGED <<GC_helper_count, GC_help_wanted>>

\* What an inactive marker does when it holds the mark lock, with that many
\* active ones left: it waits, leaves, or becomes active again.
LeaveOrWait(m, active, asleep) ==
    CASE active > 0 /\ mtop < GC_first_nonempty ->
           /\ GC_active_count' = active /\ sleeping' = asleep \cup {m} /\ To(m, "standby")
           /\ UNCHANGED <<GC_helper_count, GC_help_wanted>>
      [] active = 0 /\ mtop < GC_first_nonempty -> LeaveMarkLocal(m, active, asleep)
      [] OTHER -> BackToWork(m, active, asleep)

\* ... and again with it; a marker that finds nothing is not active any more.
LockTop(m) ==
    /\ MarkerIs(m, "lock")
    /\ IF mtop >= mk[m].first
       THEN /\ mk' = [mk EXCEPT ![m].top = mtop, ![m].n = ToGet(mtop - mk[m].first + 1), ![m].pc = "read"]
            /\ UNCHANGED <<GC_active_count, GC_helper_count, GC_help_wanted, sleeping>>
       ELSE LeaveOrWait(m, GC_active_count - 1, IF GC_active_count = 1 THEN {} ELSE sleeping)
    /\ UNCHANGED <<markHeapVars, markBits, mainStackVars, GC_first_nonempty, markState, GC_mark_no>>

\* GC_wait_marker has returned.
Standby(m) ==
    /\ MarkerIs(m, "standby")
    /\ LeaveOrWait(m, GC_active_count, sleeping)
    /\ UNCHANGED <<markHeapVars, markBits, mainStackVars, GC_first_nonempty, markState, GC_mark_no>>

(***************************************************************************)
(* GC_steal_mark_stack: mk[m].first is the entry looked at, p.             *)
(***************************************************************************)
StealRead(m) ==
    /\ MarkerIs(m, "read")
    /\ LET p == mk[m].first
       IN CASE p > mk[m].top \/ mk[m].got > mk[m].n -> To(m, "mark")
            [] p <= mk[m].top /\ mk[m].got <= mk[m].n /\ mstack[p] = NoObj ->
                 mk' = [mk EXCEPT ![m].first = p + 1]
            [] OTHER -> mk' = [mk EXCEPT ![m].pc = "clear", ![m].got = @ + 1,
                                         ![m].local = Append(@, mstack[p])]
    /\ UNCHANGED <<markHeapVars, markBits, mainStackVars, GC_first_nonempty, markState, helpVars, sleeping>>

StealClear(m) ==
    /\ MarkerIs(m, "clear")
    /\ mstack' = [mstack EXCEPT ![mk[m].first] = NoObj]
    /\ mk' = [mk EXCEPT ![m].pc = "read", ![m].first = @ + 1]
    /\ UNCHANGED <<markHeapVars, markBits, mtop, msize, tooSmall, GC_first_nonempty, markState, helpVars,
                   sleeping>>

(***************************************************************************)
(* GC_do_local_mark: GC_mark_from on the local stack, then sharing.        *)
(***************************************************************************)
\* The mark bits of the successors of the top object are tested.
MarkTest(m) ==
    /\ MarkerIs(m, "mark")
    /\ IF mk[m].local = <<>> THEN To(m, "loop")
       ELSE mk' = [mk EXCEPT ![m].pc = "push", ![m].local = Front(@),
                             ![m].held = kids[Last(mk[m].local)] \ markBits]
    /\ UNCHANGED <<markHeapVars, markBits, mainStackVars, GC_first_nonempty, markState, helpVars, sleeping>>

\* PUSH_OBJ with GC_signal_mark_stack_overflow.
PushObj(acc, o) ==
    IF Len(acc.local) < localSize THEN [acc EXCEPT !.local = Append(@, o)]
    ELSE [local |-> Append(SubSeq(acc.local, 1, localSize - LocalDiscards), o), lost |-> TRUE]

\* ... set, and the objects are pushed.
MarkPush(m) ==
    /\ MarkerIs(m, "push")
    /\ LET res == FoldLeft(PushObj, [local |-> mk[m].local, lost |-> FALSE], SetToSeq(mk[m].held))
       IN /\ markState' = IF res.lost THEN "INVALID" ELSE markState
          /\ \E pc \in {"mark", "local"} :
                mk' = [mk EXCEPT ![m].pc = pc, ![m].local = res.local, ![m].held = {}]
    /\ markBits' = markBits \cup mk[m].held
    /\ UNCHANGED <<markHeapVars, mainStackVars, GC_first_nonempty, helpVars, sleeping>>

\* After GC_mark_from: half of the local stack, or all, may go back.
LocalCheck(m) ==
    /\ MarkerIs(m, "local")
    /\ LET loc == mk[m].local
       IN mk' = CASE loc = <<>> -> [mk EXCEPT ![m].pc = "loop"]
                  [] loc # <<>> /\ Len(loc) - 1 >= localSize \div 2 ->
                       [mk EXCEPT ![m].pc = "return", ![m].ret = loc, ![m].local = <<>>]
                  [] OTHER -> [mk EXCEPT ![m].pc = IF mtop < GC_first_nonempty /\ Len(loc) > 2
                                                   THEN "inactive" ELSE "mark"]
    /\ UNCHANGED <<markHeapVars, markBits, mainStackVars, GC_first_nonempty, markState, helpVars, sleeping>>

\* has_inactive_helpers.
ShareLoad(m) ==
    /\ MarkerIs(m, "inactive")
    /\ LET loc == mk[m].local
           half == (Len(loc) - 1) \div 2
       IN mk' = IF GC_active_count < GC_helper_count
                THEN [mk EXCEPT ![m].pc = "return", ![m].ret = SubSeq(loc, 1, half),
                                ![m].local = SubSeq(loc, half + 1, Len(loc))]
                ELSE [mk EXCEPT ![m].pc = "mark"]
    /\ UNCHANGED <<markHeapVars, markBits, mainStackVars, GC_first_nonempty, markState, helpVars, sleeping>>

\* Mutant: a full main stack drops the entries without saying so.
ReturnSilently(m) ==
    /\ MarkerIs(m, "return")
    /\ LET ret == mk[m].ret
       IN IF mtop + 1 + Len(ret) > msize THEN UNCHANGED <<mstack, mtop>>
          ELSE /\ mstack' = [i \in StackIndex |-> IF i - mtop \in 1 .. Len(ret) THEN ret[i - mtop] ELSE mstack[i]]
               /\ mtop' = mtop + Len(ret)
    /\ mk' = [mk EXCEPT ![m].pc = "notify", ![m].ret = <<>>]
    /\ UNCHANGED <<markHeapVars, markBits, msize, tooSmall, GC_first_nonempty, markState, helpVars, sleeping>>

GC_return_mark_stack(m) ==
    /\ MarkerIs(m, "return")
    /\ LET ret == mk[m].ret
       IN IF mtop + 1 + Len(ret) > msize
          THEN /\ markState' = "INVALID" /\ tooSmall' = TRUE
               /\ UNCHANGED <<mstack, mtop>>
          ELSE /\ mstack' = [i \in StackIndex |-> IF i - mtop \in 1 .. Len(ret) THEN ret[i - mtop] ELSE mstack[i]]
               /\ mtop' = mtop + Len(ret)
               /\ UNCHANGED <<markState, tooSmall>>
    /\ mk' = [mk EXCEPT ![m].pc = "notify", ![m].ret = <<>>]
    /\ UNCHANGED <<markHeapVars, markBits, msize, GC_first_nonempty, helpVars, sleeping>>

\* The broadcast comes after the lock has been released.
ReturnNotify(m) ==
    /\ MarkerIs(m, "notify") /\ To(m, "mark") /\ Broadcast
    /\ UNCHANGED <<markHeapVars, markBits, mainStackVars, GC_first_nonempty, markState, helpVars>>

MarkerStep(m) ==
    \/ LoadFirst(m) \/ CompareAndSwapFirst(m) \/ LoadTop(m) \/ LockTop(m) \/ Standby(m)
    \/ StealRead(m) \/ StealClear(m) \/ MarkTest(m) \/ MarkPush(m) \/ LocalCheck(m)
    \/ ShareLoad(m) \/ GC_return_mark_stack(m) \/ ReturnNotify(m)
SerialStep == GC_do_parallel_mark \/ CleanUp \/ MarkSomeDone

ParallelMarkNext ==
    \/ PushRoots \/ Recover \/ SerialStep
    \/ \E h \in Helpers : GC_help_marker(h)
    \/ \E m \in Marker : MarkerStep(m) \/ SpuriousWake(m)

(***************************************************************************)
(* Properties.                                                             *)
(***************************************************************************)
\* GC_first_nonempty has a meaning during GC_do_parallel_mark only.
FirstNonempty == IF GC_helper_count = 0 THEN 0 ELSE GC_first_nonempty

\* The objects some marker or the main stack still has to mark from.
Pending ==
    {mstack[i] : i \in FirstNonempty .. mtop}
    \cup UNION {ToSet(mk[m].local) \cup ToSet(mk[m].ret) : m \in Marker}

\* While nothing has been dropped, a marked object with an unmarked successor is
\* on the main stack from GC_first_nonempty up, on a local stack, or its
\* successor is about to be marked by the marker that has tested it: however the
\* entries are stolen twice, returned and shared, none is lost.
NoWorkLost ==
    markState = "ROOTS_PUSHED" =>
        \A o \in markBits \ Pending : \A k \in kids[o] \ markBits : \E m \in Marker : k \in mk[m].held

\* Every entry below GC_first_nonempty, and below the place a marker has got to,
\* has been taken by a marker that cleared it.
TakenBelowFirst ==
    \A i \in 0 .. mtop :
        (i < FirstNonempty \/ \E m \in Marker : mk[m].pc \in Working /\ i < mk[m].first)
            => mstack[i] = NoObj

\* GC_helper_count and GC_active_count count the markers in GC_mark_local and
\* the ones of them that are working, and no helper touches the main stack
\* outside of GC_do_parallel_mark, where the serial marker uses it.
CountsExact ==
    /\ GC_active_count = Cardinality({m \in Marker : mk[m].pc \in Working})
    /\ GC_helper_count = Cardinality({m \in Marker : mk[m].pc \in Working \cup {"standby"}})
    /\ mk[MainMarker].pc \in {"serial", "done"} => GC_helper_count = 0

\* The marking that ends without an overflow has marked all that is reachable.
MarkingComplete ==
    markState = "NONE" => roots \subseteq markBits /\ \A o \in markBits : kids[o] \subseteq markBits

\* The main marker is in GC_do_parallel_mark, or has returned from it.
MarkingInParallel == mk[MainMarker].pc \in Working
MarkingSerially == mk[MainMarker].pc = "serial"
=============================================================================
