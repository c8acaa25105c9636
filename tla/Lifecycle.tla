----------------------------- MODULE Lifecycle -----------------------------
(***************************************************************************)
(* The lives of a collector instance: GC_init, the switch to incremental   *)
(* mode, GC_deinit, another GC_init, and the final destruction (misc.c);   *)
(* and the tables of object kinds and mark procedures that the facilities  *)
(* built on the collector extend on first use (typd_mlc.c, fnlz_mlc.c,     *)
(* gcj_mlc.c).  GC_deinit clears GC_arrays and resets the tables but not   *)
(* the static variables in which a facility keeps the indices it was       *)
(* given: these are guarded by flags of GC_arrays.                         *)
(*                                                                         *)
(* `isolate` tells a build with GC_THREAD_ISOLATE and MPROTECT_VDB.  A kind *)
(* is its owner with its descriptor; a mark procedure is its owner.  A     *)
(* block is one header in use.  The collections made here are left out.    *)
(* GC_init and GC_deinit are called by one thread while the others are     *)
(* outside of the collector, as gc.h asks for.  Bounds: MaxLives calls of  *)
(* GC_init, MaxClientKinds kinds made by the client, the sections of       *)
(* HeapSect, and a descriptor changed only between the two values of       *)
(* KDescr.                                                                 *)
(***************************************************************************)
EXTENDS Integers, Sequences, FiniteSets

CONSTANTS LThr,          \* threads
          HeapSect,      \* heap sections that can be obtained
          KBlk,          \* blocks
          MAXOBJKINDS, MaxLives, MaxClientKinds

Facility == {"typed", "finalized", "gcj"}
KDescr == {0, 1}
Kind(owner, d) == [owner |-> owner, descr |-> d]
StandardKinds == [i \in 1..4 |-> Kind("gc", 0)]
NoBlock == [kind |-> 0, descr |-> 0, of |-> "none"]

VARIABLES
  lives,            \* calls of GC_init that did something
  is_initialized, destroyed,
  isolate, incremental, dirty_on,
  sects, recorded,  \* heap sections; those in the cross-isolate registry
  obj_kinds,        \* GC_obj_kinds[0..GC_n_kinds-1], index + 1
  mark_procs,       \* GC_mark_procs from GC_RESERVED_MARK_PROCS on
  flags,            \* the facilities whose GC_arrays flag says "initialised"
  first_kind, first_proc,   \* the indices kept by each facility
  hblks,            \* [KBlk -> header]
  typing            \* [LThr -> "out", "locking"]: inside GC_make_descriptor

coreVars == <<lives, is_initialized, destroyed>>
incVars == <<isolate, incremental, dirty_on, sects, recorded>>
kindVars == <<obj_kinds, mark_procs, flags, first_kind, first_proc, hblks>>
lifeVars == <<coreVars, incVars, kindVars, typing>>

LifecycleInit ==
  /\ lives = 0 /\ is_initialized = FALSE /\ destroyed = FALSE
  /\ incremental = FALSE /\ dirty_on = FALSE
  /\ isolate \in BOOLEAN
  /\ sects = {} /\ recorded = {}
  /\ obj_kinds = StandardKinds /\ mark_procs = <<>> /\ flags = {}
  /\ first_kind = [f \in Facility |-> 0] /\ first_proc = [f \in Facility |-> 0]
  /\ hblks = [b \in KBlk |-> NoBlock]
  /\ typing = [t \in LThr |-> "out"]

Quiet == \A t \in LThr : typing[t] = "out"

-----------------------------------------------------------------------------
(* GC_init *)

\* The tests at its beginning: a destroyed runtime aborts.
InitTests == ~destroyed /\ ~is_initialized /\ lives < MaxLives

\* set_incremental_mode_on: with manual_vdb_allowed off, what GC_dirty_init says.
set_incremental_mode_on(ok) == incremental' = ok /\ dirty_on' = ok

\* The initial heap.  A section added while incremental is recorded in the
\* cross-isolate registry.
InitialHeap(new) ==
  /\ sects' = sects \cup new
  /\ recorded' = recorded \cup (IF isolate /\ incremental' THEN new ELSE {})

\* The body, with the environment's GC_ENABLE_INCREMENTAL.
InitBody(wanted) ==
  \E env_incremental, ok \in BOOLEAN, s \in SUBSET HeapSect :
    /\ lives' = lives + 1
    /\ IF wanted \/ env_incremental THEN set_incremental_mode_on(ok)
       ELSE incremental' = FALSE /\ UNCHANGED dirty_on
    /\ s \cap recorded = {}          \* memory in use is not handed out again
    /\ Cardinality(s) <= 1
    /\ InitialHeap(s)
    /\ is_initialized' = TRUE

GC_init_ ==
  /\ Quiet /\ InitTests
  /\ InitBody(FALSE)
  /\ UNCHANGED <<destroyed, isolate, kindVars, typing>>

\* GC_enable_incremental.  In an isolate build an initialised
\* instance stays as it is.
EnableTest == ~(isolate /\ is_initialized)

GC_enable_incremental ==
  /\ Quiet /\ ~incremental /\ EnableTest
  /\ \/ InitTests /\ InitBody(TRUE)
     \/ /\ is_initialized
        /\ \E ok \in BOOLEAN : set_incremental_mode_on(ok)
        /\ UNCHANGED <<lives, is_initialized, sects, recorded>>
  /\ UNCHANGED <<destroyed, isolate, kindVars, typing>>

\* GC_add_to_heap, later.
GC_expand(s) ==
  /\ is_initialized /\ s \notin sects
  /\ sects' = sects \cup {s}
  /\ recorded' = IF isolate /\ incremental THEN recorded \cup {s} ELSE recorded
  /\ UNCHANGED <<coreVars, isolate, incremental, dirty_on, kindVars, typing>>

-----------------------------------------------------------------------------
(* GC_deinit and the final destruction *)

\* GC_isolate_vdb_deinit: nothing was registered unless incremental.
VdbDeinit == recorded' = IF isolate /\ incremental THEN recorded \ sects ELSE recorded

\* BZERO(&GC_arrays), then the variables outside of it.
ArraysCleared ==
  /\ is_initialized' = FALSE /\ incremental' = FALSE /\ sects' = {}
  /\ flags' = {}
  /\ hblks' = [b \in KBlk |-> NoBlock]

GC_reset_obj_kinds == obj_kinds' = StandardKinds

ResetProcs == mark_procs' = <<>>

GC_deinit_ ==
  /\ Quiet /\ is_initialized
  /\ dirty_on' = FALSE                       \* GC_dirty_deinit
  /\ VdbDeinit
  /\ ArraysCleared
  /\ GC_reset_obj_kinds
  /\ ResetProcs
  /\ UNCHANGED <<lives, destroyed, isolate, first_kind, first_proc, typing>>

\* GC_destroy_runtime_for_shared_library_unload, after GC_deinit has run or
\* found nothing to do; a second call aborts.
GC_destroy_runtime ==
  /\ Quiet /\ ~destroyed /\ ~is_initialized
  /\ destroyed' = TRUE
  /\ UNCHANGED <<lives, is_initialized, incVars, kindVars, typing>>

-----------------------------------------------------------------------------
(* Kinds and mark procedures *)

\* GC_new_kind_inner: "Too many kinds" aborts.
GC_new_kind_inner(owner, ds) ==
  /\ Len(obj_kinds) + Len(ds) <= MAXOBJKINDS
  /\ obj_kinds' = obj_kinds \o [i \in DOMAIN ds |-> Kind(owner, ds[i])]

GC_new_proc_inner(owner, n) == mark_procs' = mark_procs \o [i \in 1..n |-> owner]

\* GC_new_kind, GC_new_kind_enumerable and GC_new_kind_32bit by the client.
GC_new_kind ==
  /\ is_initialized
  /\ Cardinality({i \in DOMAIN obj_kinds : obj_kinds[i].owner = "client"}) < MaxClientKinds
  /\ GC_new_kind_inner("client", <<0>>)
  /\ UNCHANGED <<coreVars, incVars, mark_procs, flags, first_kind, first_proc, hblks, typing>>

\* The indices a facility records for itself; its flag is set.
Started(f) ==
  /\ flags' = flags \cup {f}
  /\ first_kind' = [first_kind EXCEPT ![f] = Len(obj_kinds) + 1]

\* GC_init_explicit_typing: two kinds, two mark procedures.
GC_init_explicit_typing ==
  /\ GC_new_proc_inner("typed", 2)
  /\ GC_new_kind_inner("typed", <<0, 0>>)
  /\ first_proc' = [first_proc EXCEPT !["typed"] = Len(mark_procs) + 1]
  /\ Started("typed")

\* GC_make_descriptor: the flag is read without the lock, and again with it.
GC_make_descriptor_(t) ==
  /\ is_initialized /\ typing[t] = "out" /\ "typed" \notin flags
  /\ typing' = [typing EXCEPT ![t] = "locking"]
  /\ UNCHANGED <<coreVars, incVars, kindVars>>

\* A mutant: nobody looks again.
RecheckNot == TRUE
Recheck == "typed" \notin flags

MakeDescriptorLocked(t) ==
  /\ typing[t] = "locking"
  /\ typing' = [typing EXCEPT ![t] = "out"]
  /\ IF Recheck THEN GC_init_explicit_typing
     ELSE UNCHANGED <<obj_kinds, mark_procs, flags, first_kind, first_proc>>
  /\ UNCHANGED <<coreVars, incVars, hblks>>

\* GC_init_finalized_malloc: the flag is GC_finalized_kind, in GC_arrays.
GC_init_finalized_malloc ==
  /\ is_initialized /\ "finalized" \notin flags
  /\ GC_new_kind_inner("finalized", <<0, 0>>)
  /\ Started("finalized")
  /\ UNCHANGED <<coreVars, incVars, mark_procs, first_proc, hblks, typing>>

\* GC_init_gcj_malloc_mp: the flag is GC_gcjobjfreelist, in GC_arrays; the
\* mark procedure has a reserved index.  With GC_IGNORE_GCJ_INFO one kind.
GC_init_gcj_malloc_mp ==
  /\ is_initialized /\ "gcj" \notin flags
  /\ \E ds \in {<<0>>, <<0, 0>>} : GC_new_kind_inner("gcj", ds)
  /\ Started("gcj")
  /\ UNCHANGED <<coreVars, incVars, mark_procs, first_proc, hblks, typing>>

\* A block set up (setup_header) for an object a facility allocates with the
\* kind it remembers.
AllocateFor(f, b) ==
  /\ is_initialized /\ f \in flags /\ hblks[b] = NoBlock
  /\ hblks' = [hblks EXCEPT ![b] =
                 [kind |-> first_kind[f], descr |-> obj_kinds[first_kind[f]].descr, of |-> f]]
  /\ UNCHANGED <<coreVars, incVars, obj_kinds, mark_procs, flags, first_kind, first_proc, typing>>

\* ... or the client, with a kind of its own.
AllocateKind(k, b) ==
  /\ is_initialized /\ hblks[b] = NoBlock
  /\ k \in DOMAIN obj_kinds /\ obj_kinds[k].owner = "client"
  /\ hblks' = [hblks EXCEPT ![b] = [kind |-> k, descr |-> obj_kinds[k].descr, of |-> "client"]]
  /\ UNCHANGED <<coreVars, incVars, obj_kinds, mark_procs, flags, first_kind, first_proc, typing>>

FreeBlock(b) ==
  /\ hblks[b] # NoBlock
  /\ hblks' = [hblks EXCEPT ![b] = NoBlock]
  /\ UNCHANGED <<coreVars, incVars, obj_kinds, mark_procs, flags, first_kind, first_proc, typing>>

\* GC_change_kind_descriptor: the table, then the headers in use.
HeaderChange(h, k, d) == IF h.kind = k THEN [h EXCEPT !.descr = d] ELSE h

GC_change_kind_descriptor(k, d) ==
  /\ is_initialized
  /\ k \in DOMAIN obj_kinds /\ obj_kinds[k].owner = "client" /\ obj_kinds[k].descr # d
  /\ obj_kinds' = [obj_kinds EXCEPT ![k].descr = d]
  /\ hblks' = [b \in KBlk |-> HeaderChange(hblks[b], k, d)]
  /\ UNCHANGED <<coreVars, incVars, mark_procs, flags, first_kind, first_proc, typing>>

LifecycleNext ==
  \/ GC_init_ \/ GC_enable_incremental \/ GC_deinit_ \/ GC_destroy_runtime
  \/ GC_new_kind \/ GC_init_finalized_malloc \/ GC_init_gcj_malloc_mp
  \/ \E s \in HeapSect : GC_expand(s)
  \/ \E t \in LThr : GC_make_descriptor_(t) \/ MakeDescriptorLocked(t)
  \/ \E b \in KBlk, f \in Facility : AllocateFor(f, b)
  \/ \E b \in KBlk, k \in 1..MAXOBJKINDS : AllocateKind(k, b)
  \/ \E b \in KBlk : FreeBlock(b)
  \/ \E k \in 1..MAXOBJKINDS, d \in KDescr : GC_change_kind_descriptor(k, d)

LifecycleSpec == LifecycleInit /\ [][LifecycleNext]_lifeVars

-----------------------------------------------------------------------------

LifecycleTypeOK ==
  /\ lives \in 0..MaxLives /\ sects \subseteq HeapSect
  /\ Len(obj_kinds) \in 4..MAXOBJKINDS
  /\ \A b \in KBlk : hblks[b].kind \in 0..Len(obj_kinds)
  /\ flags \subseteq Facility
  /\ ~is_initialized => sects = {} /\ flags = {} /\ ~dirty_on

\* A facility whose flag is set holds indices of this life: its kind and
\* its mark procedures are the ones it made, once, whatever was made in an
\* earlier life or by a thread racing it (GC_deinit resets the tables but
\* not these indices).
KindsOwn ==
  \A f \in flags :
    /\ first_kind[f] \in DOMAIN obj_kinds
    /\ obj_kinds[first_kind[f]].owner = f
    /\ \A i \in DOMAIN obj_kinds : obj_kinds[i].owner = f => i - first_kind[f] \in 0..1
    /\ f = "typed" => \A i \in 0..1 : first_proc[f] + i \in DOMAIN mark_procs
                                      /\ mark_procs[first_proc[f] + i] = f

\* Every block in use is scanned by the current descriptor of the kind its
\* object was allocated with, and that kind is its owner's, after any
\* number of descriptor changes.
BlockDescrCurrent ==
  \A b \in KBlk : hblks[b] # NoBlock =>
    /\ obj_kinds[hblks[b].kind].owner = hblks[b].of
    /\ hblks[b].descr = obj_kinds[hblks[b].kind].descr

\* The cross-isolate registry names exactly the sections of an incremental
\* instance: none is missing (a write of another isolate there would look
\* like a genuine fault), and none outlives the instance.
SectionsRecorded ==
  recorded = IF isolate /\ is_initialized /\ incremental THEN sects ELSE {}

\* What holds through every life of the collector: the indices and headers that
\* GC_deinit leaves behind, or does not, never mislead the next one.
LivesApart == KindsOwn /\ BlockDescrCurrent /\ SectionsRecorded
=============================================================================
