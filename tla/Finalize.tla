------------------------------ MODULE Finalize ------------------------------
(***************************************************************************)
(* Finalization (finalize.c): finalizable objects with their four mark     *)
(* procedures, short and long disappearing links, toggle references, the   *)
(* queue of objects awaiting finalization, and the threads that empty it.  *)
(*                                                                         *)
(* The objects and the pointers between them are fixed; what the client    *)
(* can see (held: stacks, registers, static data) changes.  A link is a    *)
(* word that lies in an object or in static data and holds the disguised   *)
(* address of its target; the client reads it with the allocator lock.     *)
(* The lock is held from the stopped mark to the end of GC_finalize, while *)
(* the client runs: gcAt is then "marked" and only steps without the lock  *)
(* are possible.  A registration that runs out of memory releases the lock *)
(* for GC_oom_fn and starts over, so it is a registration that starts late.*)
(***************************************************************************)
EXTENDS Naturals, FiniteSets, Sequences, SequencesExt

CONSTANTS
    FObj,          \* objects
    NoFObj,        \* the null pointer
    FShapes,       \* candidate heaps: sets of functions from FObj to SUBSET FObj
    Link,          \* words that may be registered as links
    LinkIn,        \* the object in which a link lies, NoFObj for static data
    FThr,          \* threads that run finalizers
    GC_interrupt_finalizers,   \* 0: no limit per invocation
    MaxRegs,       \* bound on the number of registrations
    MaxNesting     \* bound on nested invocations in a thread

VARIABLES
    points,        \* points[o]: the objects that o points to
    alive,         \* objects not reclaimed
    held,          \* objects that the client has a pointer to
    slot,          \* slot[l]: the disguised contents of l
    dl_hashtbl,    \* dl_hashtbl[kind][l]: target of the entry for l
    foTable,       \* foTable[o]: mark procedures of the entries for o, newest first
    finalize_now,  \* GC_fnlz_roots.finalize_now
    toggles,       \* <<object, strength>> in GC_toggleref_arr
    GC_java_finalization,
    finalizerNested,   \* finalizer_nested of each thread
    frames_,       \* frames_[t]: invoke_finalizers_internal calls of t, innermost last
    gcAt,          \* "idle", or "marked" while the collector holds the lock
    fmarks,        \* mark bits when GC_finalize is called
    collectorThr,  \* the thread that collects
    regs,          \* registrations so far
    owed           \* owed[o]: registered finalizers of o neither run nor cancelled

clientVars == <<points, alive, held, slot>>
tableVars_ == <<dl_hashtbl, foTable, toggles, regs, owed>>
invokeVars == <<finalize_now, finalizerNested, frames_>>
collectVars == <<gcAt, fmarks, collectorThr, GC_java_finalization>>
finalizeVars == <<clientVars, tableVars_, invokeVars, collectVars>>

MarkProcs == {"normal", "ignore_self", "null", "unreachable"}
LinkKinds == {"short", "long"}
FrameAt == {"all", "test", "lock", "run"}

FinalizeTypeOK ==
    /\ points \in [FObj -> SUBSET FObj] /\ alive \subseteq FObj /\ held \subseteq FObj
    /\ slot \in [Link -> FObj \cup {NoFObj}]
    /\ dl_hashtbl \in [LinkKinds -> [Link -> FObj \cup {NoFObj}]]
    /\ foTable \in [FObj -> Seq(MarkProcs)]
    /\ finalize_now \in Seq([obj : FObj, mp : MarkProcs])
    /\ toggles \subseteq FObj \X {"strong", "weak"}
    /\ GC_java_finalization \in BOOLEAN
    /\ finalizerNested \in [FThr -> 0..1]
    /\ frames_ \in [FThr -> Seq([at : FrameAt, obj : FObj \cup {NoFObj},
                                 count : Nat, all : BOOLEAN])]
    /\ gcAt \in {"idle", "marked"} /\ fmarks \subseteq FObj
    /\ collectorThr \in FThr /\ regs \in 0..MaxRegs /\ owed \in [FObj -> Nat]

FinalizeInit ==
    /\ points \in FShapes /\ alive = FObj /\ held = FObj
    /\ slot = [l \in Link |-> NoFObj]
    /\ dl_hashtbl = [k \in LinkKinds |-> [l \in Link |-> NoFObj]]
    /\ foTable = [o \in FObj |-> <<>>] /\ toggles = {}
    /\ finalize_now = <<>> /\ frames_ = [t \in FThr |-> <<>>]
    /\ finalizerNested = [t \in FThr |-> 0]
    /\ GC_java_finalization \in BOOLEAN
    /\ gcAt = "idle" /\ fmarks = {} /\ collectorThr \in FThr
    /\ regs = 0 /\ owed = [o \in FObj |-> 0]

\* What is reachable from S by zero or more pointers.
Reached(S) ==
    LET within[n \in 0..Cardinality(FObj)] ==
            IF n = 0 THEN S
            ELSE within[n - 1] \cup UNION {points[o] : o \in within[n - 1]}
    IN within[Cardinality(FObj)]

Queued(q) == {q[i].obj : i \in DOMAIN q}
Running == {frames_[t][i].obj : <<t, i>> \in
               {p \in FThr \X (1..MaxNesting) : p[2] <= Len(frames_[p[1]])}} \ {NoFObj}
Strong == {o \in FObj : <<o, "strong">> \in toggles}
\* GC_push_finalizer_structures, the stacks and the static data
VisibleRoots == held \cup Running \cup Queued(finalize_now) \cup Strong

Unlocked == gcAt = "idle"
\* t is in client code: outside, or in a finalizer.
CallsOut(t) == frames_[t] # <<>> => Last(frames_[t]).at = "run"

-----------------------------------------------------------------------------
\* The client.

Drop(o) ==
    /\ o \in held /\ held' = held \ {o}
    /\ UNCHANGED <<points, alive, slot, tableVars_, invokeVars, collectVars>>

\* The client, or a running finalizer, follows pointers.  (Without the Java
\* post-pass a no-order finalizer must leave alone what is already gone.)
Load(o) ==
    /\ o \in (alive \cap Reached(held \cup Running)) \ held /\ held' = held \cup {o}
    /\ UNCHANGED <<points, alive, slot, tableVars_, invokeVars, collectVars>>

Accessible(l) == LinkIn[l] = NoFObj \/ LinkIn[l] \in held

\* GC_call_with_alloc_lock and GC_REVEAL_POINTER
ReadLink(l) ==
    /\ Unlocked /\ Accessible(l) /\ slot[l] \notin {NoFObj} \cup held
    /\ held' = held \cup {slot[l]}
    /\ UNCHANGED <<points, alive, slot, tableVars_, invokeVars, collectVars>>

Register == Unlocked /\ regs < MaxRegs /\ regs' = regs + 1

\* The client uses a link for one table at a time.
GC_register_disappearing_link_inner(k, l, o) ==
    /\ Register /\ Accessible(l) /\ o \in held
    /\ \A j \in LinkKinds \ {k} : dl_hashtbl[j][l] = NoFObj
    /\ slot' = [slot EXCEPT ![l] = o]
    /\ dl_hashtbl' = [dl_hashtbl EXCEPT ![k][l] = o]
    /\ UNCHANGED <<points, alive, held, foTable, toggles, owed, invokeVars, collectVars>>

\* The client clears the word.
GC_unregister_disappearing_link_inner(k, l) ==
    /\ Unlocked /\ Accessible(l) /\ dl_hashtbl[k][l] # NoFObj
    /\ slot' = [slot EXCEPT ![l] = NoFObj]
    /\ dl_hashtbl' = [dl_hashtbl EXCEPT ![k][l] = NoFObj]
    /\ UNCHANGED <<points, alive, held, foTable, toggles, regs, owed, invokeVars, collectVars>>

\* Both words in the same critical section; a registered new_link is refused.
GC_move_disappearing_link_inner(k, l, new) ==
    /\ Unlocked /\ Accessible(l) /\ Accessible(new)
    /\ dl_hashtbl[k][l] # NoFObj /\ new # l
    /\ \A j \in LinkKinds : dl_hashtbl[j][new] = NoFObj
    /\ slot' = [slot EXCEPT ![new] = slot[l], ![l] = NoFObj]
    /\ dl_hashtbl' = [dl_hashtbl EXCEPT ![k][new] = dl_hashtbl[k][l], ![k][l] = NoFObj]
    /\ UNCHANGED <<points, alive, held, foTable, toggles, regs, owed, invokeVars, collectVars>>

\* A second registration replaces the entry found first.
GC_register_finalizer_inner(o, mp) ==
    /\ Register /\ o \in held /\ mp \in MarkProcs
    /\ mp = "unreachable" => GC_java_finalization
    /\ foTable' = [foTable EXCEPT ![o] = <<mp>> \o SubSeq(@, 2, Len(@))]
    /\ owed' = [owed EXCEPT ![o] = IF foTable[o] = <<>> THEN @ + 1 ELSE @]
    /\ UNCHANGED <<clientVars, dl_hashtbl, toggles, invokeVars, collectVars>>

\* GC_register_finalizer with a null procedure
UnregisterFinalizer(o) ==
    /\ Unlocked /\ o \in held /\ foTable[o] # <<>>
    /\ foTable' = [foTable EXCEPT ![o] = Tail(@)]
    /\ owed' = [owed EXCEPT ![o] = @ - 1]
    /\ UNCHANGED <<clientVars, dl_hashtbl, toggles, regs, invokeVars, collectVars>>

GC_toggleref_add(o, s) ==
    /\ Register /\ o \in held /\ toggles' = toggles \cup {<<o, s>>}
    /\ UNCHANGED <<clientVars, dl_hashtbl, foTable, owed, invokeVars, collectVars>>

-----------------------------------------------------------------------------
\* The collection.

\* The callback decides anew about every entry.
GC_process_togglerefs ==
    \E verdict \in [toggles -> {"drop", "strong", "weak"}] :
        toggles' = {<<p[1], verdict[p]>> : p \in {r \in toggles : verdict[r] # "drop"}}

GC_stopped_mark(t) ==
    /\ Unlocked /\ CallsOut(t)
    /\ GC_process_togglerefs
    /\ gcAt' = "marked" /\ collectorThr' = t
    /\ fmarks' = Reached(held \cup Running \cup Queued(finalize_now)
                         \cup {p[1] : p \in {r \in toggles' : r[2] = "strong"}})
    /\ UNCHANGED <<clientVars, dl_hashtbl, foTable, regs, owed, invokeVars, GC_java_finalization>>

\* What a mark procedure pushes.
Pushes(o, mp) == CASE mp = "null" -> {}
                   [] mp = "ignore_self" -> points[o] \ {o}
                   [] OTHER -> points[o]

\* The first loop: what the unmarked finalizable objects lead to.
MarkFinalizable(M) ==
    M \cup Reached(UNION {UNION {Pushes(o, foTable[o][i]) : i \in DOMAIN foTable[o]} : o \in FObj \ M})

\* Entries of the unmarked objects; without the Java post-pass the object is
\* marked with its first entry, and a second one stays.
ToQueue(M) ==
    {<<o, i>> \in (FObj \ M) \X (1..MaxRegs) :
        i <= Len(foTable[o]) /\ (i = 1 \/ GC_java_finalization)}

\* The Java post-pass over the queue q.
MarkFromQueue(M, q) ==
    M \cup Reached(UNION {points[q[i].obj] : i \in {j \in DOMAIN q : q[j].mp = "null" /\ q[j].obj \notin M}})
      \cup {q[i].obj : i \in {j \in DOMAIN q : q[j].mp # "unreachable"}}

\* Positions of the entries taken back: already marked when they are reached.
Revived(M, q) ==
    {i \in DOMAIN q : /\ q[i].mp = "unreachable"
                      /\ \/ q[i].obj \in M
                         \/ \E j \in 1..(i - 1) : q[j] = q[i]}

\* A mutant: what is taken back stays queued as well.
KeepAll(q, I) == q
Without(q, I) ==
    LET keep == SetToSortSeq(DOMAIN q \ I, LAMBDA i, j : i < j)
    IN [n \in DOMAIN keep |-> q[keep[n]]]

\* GC_make_disappearing_links_disappear: the entries that go.
Vanishing(k, M) == {l \in Link : dl_hashtbl[k][l] \in FObj \ M}
Dangling(k, M) == {l \in Link : dl_hashtbl[k][l] # NoFObj /\ LinkIn[l] \in FObj \ M}

\* The long links are looked at last, with the final marks.
LongMarks(early, final) == final

GC_finalize(allocFailed) ==
    /\ gcAt = "marked"
    /\ LET M0 == fmarks \cup Reached(Strong)                    \* GC_mark_togglerefs
           M1 == MarkFinalizable(M0)
       IN \E order \in SetToSeqs(ToQueue(M1)) :
            LET q == [n \in DOMAIN order |-> [obj |-> order[n][1],
                                              mp |-> foTable[order[n][1]][order[n][2]]]]
                     \o finalize_now
                M2 == IF GC_java_finalization THEN MarkFromQueue(M1, q)
                      ELSE M1 \cup {p[1] : p \in ToQueue(M1)}
                back == IF GC_java_finalization THEN Revived(M2, q) ELSE {}
                M == M2 \cup Queued(q)
                gone == [k \in LinkKinds |-> Vanishing(k, IF k = "short" THEN M0 ELSE LongMarks(M0, M))]
            IN /\ finalize_now' = Without(q, back)
               /\ foTable' = [o \in FObj |->
                     [i \in 1..Cardinality({j \in back : q[j].obj = o}) |-> "unreachable"]
                     \o SubSeq(foTable[o], 1 + Cardinality({p \in ToQueue(M1) : p[1] = o}), Len(foTable[o]))]
               /\ slot' = [l \in Link |-> IF \E k \in LinkKinds : l \in gone[k] THEN NoFObj ELSE slot[l]]
               /\ dl_hashtbl' = [k \in LinkKinds |-> [l \in Link |->
                     IF l \in gone[k] \cup Dangling(k, M) THEN NoFObj ELSE dl_hashtbl[k][l]]]
               /\ toggles' = {p \in toggles : p[2] = "strong" \/ p[1] \in M}
               /\ alive' = alive \cap M
    /\ finalizerNested' = IF allocFailed THEN [finalizerNested EXCEPT ![collectorThr] = 0]
                          ELSE finalizerNested
    /\ gcAt' = "idle" /\ fmarks' = {}
    /\ UNCHANGED <<points, held, regs, owed, frames_, collectorThr, GC_java_finalization>>

-----------------------------------------------------------------------------
\* Threads that run finalizers.

Enter(t, at, all) ==
    /\ CallsOut(t) /\ Len(frames_[t]) < MaxNesting
    /\ frames_' = [frames_ EXCEPT ![t] = Append(@, [at |-> at, obj |-> NoFObj, count |-> 0, all |-> all])]

\* GC_invoke_finalizers; GC_notify_or_invoke_finalizers without on-demand mode
GC_invoke_finalizers(t) ==
    /\ Unlocked /\ finalizerNested[t] = 0                       \* GC_check_finalizer_nested
    /\ finalizerNested' = [finalizerNested EXCEPT ![t] = 1]
    /\ Enter(t, "test", FALSE)
    /\ UNCHANGED <<clientVars, tableVars_, collectVars, finalize_now>>

GC_finalize_all(t) ==
    /\ Enter(t, "all", TRUE)
    /\ UNCHANGED <<clientVars, tableVars_, collectVars, finalize_now, finalizerNested>>

InFrame(t, at) == frames_[t] # <<>> /\ Last(frames_[t]).at = at
FrameTo(t, at, o, n) ==
    frames_' = [frames_ EXCEPT ![t][Len(frames_[t])] = [@ EXCEPT !.at = at, !.obj = o, !.count = n]]

\* The end of invoke_finalizers_internal: back to the loop of GC_finalize_all,
\* or out of GC_invoke_finalizers.
EndInvoke(t) ==
    \/ /\ Last(frames_[t]).all /\ FrameTo(t, "all", NoFObj, 0)
       /\ UNCHANGED finalizerNested
    \/ /\ ~Last(frames_[t]).all /\ frames_' = [frames_ EXCEPT ![t] = Front(@)]
       /\ finalizerNested' = [finalizerNested EXCEPT ![t] = 0]

\* The test without the lock.
GC_should_invoke_finalizers(t) ==
    /\ InFrame(t, "test")
    /\ \/ /\ finalize_now # <<>> /\ FrameTo(t, "lock", NoFObj, Last(frames_[t]).count)
          /\ UNCHANGED finalizerNested
       \/ finalize_now = <<>> /\ EndInvoke(t)
    /\ UNCHANGED <<clientVars, tableVars_, collectVars, finalize_now>>

Interrupted(t) ==
    LET f == Last(frames_[t])
    IN f.count > 0 /\ GC_interrupt_finalizers # 0 /\ ~f.all /\ f.count >= GC_interrupt_finalizers

\* The queue is looked at again with the lock held.
StillQueued == finalize_now # <<>>
TakeFinalizer(t) ==
    /\ Unlocked /\ InFrame(t, "lock")
    /\ \/ /\ (Interrupted(t) \/ ~StillQueued) /\ EndInvoke(t)
          /\ UNCHANGED <<finalize_now, owed>>
       \/ /\ ~Interrupted(t) /\ StillQueued
          /\ LET o == Head(finalize_now).obj
             IN /\ FrameTo(t, "run", o, Last(frames_[t]).count)
                /\ owed' = [owed EXCEPT ![o] = @ - 1]
          /\ finalize_now' = Tail(finalize_now)
          /\ UNCHANGED finalizerNested
    /\ UNCHANGED <<clientVars, dl_hashtbl, foTable, toggles, regs, collectVars>>

\* The client's finalizer returns.
FinalizerReturns(t) ==
    /\ InFrame(t, "run") /\ FrameTo(t, "test", NoFObj, Last(frames_[t]).count + 1)
    /\ UNCHANGED <<clientVars, tableVars_, collectVars, finalize_now, finalizerNested>>

Entries == {<<o, i>> \in FObj \X (1..MaxRegs) : i <= Len(foTable[o])}

\* A round of GC_finalize_all
GC_enqueue_all_finalizers(t) ==
    /\ Unlocked /\ InFrame(t, "all")
    /\ \/ /\ Entries = {} /\ frames_' = [frames_ EXCEPT ![t] = Front(@)]
          /\ UNCHANGED <<finalize_now, foTable>>
       \/ /\ Entries # {} /\ FrameTo(t, "test", NoFObj, 0)
          /\ \E order \in SetToSeqs(Entries) :
                finalize_now' = [n \in DOMAIN order |-> [obj |-> order[n][1],
                                                         mp |-> foTable[order[n][1]][order[n][2]]]]
                                \o finalize_now
          /\ foTable' = [o \in FObj |-> <<>>]
    /\ UNCHANGED <<clientVars, dl_hashtbl, toggles, regs, owed, finalizerNested, collectVars>>

FinalizeNext ==
    \/ \E o \in FObj : Drop(o) \/ Load(o) \/ UnregisterFinalizer(o)
    \/ \E o \in FObj, mp \in MarkProcs : GC_register_finalizer_inner(o, mp)
    \/ \E o \in FObj, s \in {"strong", "weak"} : GC_toggleref_add(o, s)
    \/ \E l \in Link : ReadLink(l)
    \/ \E k \in LinkKinds, l \in Link :
          \/ GC_unregister_disappearing_link_inner(k, l)
          \/ \E o \in FObj : GC_register_disappearing_link_inner(k, l, o)
          \/ \E new \in Link : GC_move_disappearing_link_inner(k, l, new)
    \/ \E failed \in BOOLEAN : GC_finalize(failed)
    \/ \E t \in FThr :
          \/ GC_stopped_mark(t) \/ GC_invoke_finalizers(t) \/ GC_finalize_all(t)
          \/ GC_should_invoke_finalizers(t) \/ TakeFinalizer(t) \/ FinalizerReturns(t)
          \/ GC_enqueue_all_finalizers(t)

FinalizeSpec == FinalizeInit /\ [][FinalizeNext]_finalizeVars

-----------------------------------------------------------------------------
\* Nothing refers to a reclaimed object: no entry of a table, no link the
\* client can read, no toggle reference, and no entry for a link that lay in
\* a reclaimed object (GC_make_disappearing_links_disappear would write
\* through it).
WeakRefsValid ==
    /\ \A o \in FObj : foTable[o] # <<>> => o \in alive
    /\ \A k \in LinkKinds, l \in Link : dl_hashtbl[k][l] # NoFObj =>
          dl_hashtbl[k][l] \in alive /\ LinkIn[l] \in alive \cup {NoFObj}
    /\ \A l \in Link : Accessible(l) => slot[l] \in alive \cup {NoFObj}
    /\ \A p \in toggles : p[1] \in alive

\* With the Java post-pass, every object that the client or a finalizer that
\* has yet to run can reach is kept, whatever the mark procedures are.
FinalizedKept == GC_java_finalization => Reached(VisibleRoots) \subseteq alive

\* Every registered finalizer runs once, unless it is cancelled: it is in the
\* table or in the queue until a thread takes it, also when GC_finalize takes
\* it back from the queue, and also when threads race for the queue.
RunOnce ==
    \A o \in FObj : owed[o] = Len(foTable[o])
                              + Cardinality({i \in DOMAIN finalize_now : finalize_now[i].obj = o})

\* An object that a collection queues is not reachable by one or more pointers
\* from an object whose finalizer respects the order: pointed-to objects are
\* finalized last, and cycles never.
FinalizationOrderStep ==
    gcAt = "marked" =>
     \A o \in Queued(finalize_now') \ Queued(finalize_now), p \in FObj :
         \A i \in DOMAIN foTable[p] : o \notin Reached(Pushes(p, foTable[p][i]))
FinalizationOrder == [][FinalizationOrderStep]_finalizeVars

\* Short links to an object are cleared before its finalizer is queued; a long
\* link goes only together with its target.
LinksOutliveStep ==
    gcAt = "marked" =>
     /\ \A l \in Link : dl_hashtbl'["short"][l] \notin Queued(finalize_now') \ Queued(finalize_now)
     /\ \A l \in Link : slot'[l] # slot[l] /\ dl_hashtbl["long"][l] # NoFObj => slot[l] \notin alive'
LinksOutlive == [][LinksOutliveStep]_finalizeVars
=============================================================================
