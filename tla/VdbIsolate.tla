----------------------------- MODULE VdbIsolate -----------------------------
(***************************************************************************)
(* Writes of a thread into the write-protected heap of another isolate:    *)
(* the fault handler of the writer (GC_write_fault_handler, os_dep.c)      *)
(* queues the page for the owner and unprotects it; the owner claims the   *)
(* queued pages when it starts a collection (GC_initiate_gc, mark.c),      *)
(* takes its dirty bits and protects its heap again.  No isolate is ever   *)
(* stopped by another, so the steps of the two interleave.                 *)
(*                                                                         *)
(* The blocks of a section are taken to be in use, with pointers in them,  *)
(* as long as they are mapped.                                             *)
(***************************************************************************)
EXTENDS IsolateRanges

CONSTANTS Thread,          \* the isolates and the threads without a collector
          PendingBound     \* bound on the queue, where realloc fails for good

\* What is assumed of the constants.
ThreadsAssumption == Isolate \subseteq Thread /\ PendingBound \in Nat

VARIABLES
    prot,             \* write-protected blocks
    GC_dirty_pages,   \* of every isolate
    pending_queue,
    pending_capacity,
    gcpc,             \* where every isolate is in GC_initiate_gc
    rescan,           \* what its collection will scan: GC_grungy_pages, or all
    wpc,              \* where every thread is in its fault handler
    waddr,            \* and the address of the fault
    aborted,          \* the fault handler has called ABORT
    written,          \* blocks written since a collection could last see them
    overtaken,        \* threads whose queued page was claimed and protected again
    late              \* blocks unprotected by such a thread

handlerVars == <<wpc, waddr, aborted>>
ghostVars == <<written, overtaken, late>>
pageVars == <<prot, GC_dirty_pages, gcpc, rescan>>
queueVars == <<pending_queue, pending_capacity>>
vars == <<rangeVars, pageVars, queueVars, handlerVars, ghostVars>>

\* The blocks of the page of block h.
OnPage(h) == {x \in Hblk : x \div HblksPerPage = h \div HblksPerPage}
Mapped(i) == Own(i) \ decommitted
OwnersOf(h) == {i \in Isolate : h \in Own(i)}
Queued == ToSet(pending_queue)

\* Types of the page state, the queue and the fault handlers.
TypeOK ==
    /\ TypeOKRanges
    /\ prot \subseteq Hblk /\ written \subseteq Hblk /\ late \subseteq Hblk
    /\ GC_dirty_pages \in [Isolate -> SUBSET Hblk] /\ rescan \in [Isolate -> SUBSET Hblk]
    /\ pending_queue \in Seq(Hblk)
    /\ pending_capacity \in Nat /\ Len(pending_queue) <= pending_capacity
    /\ gcpc \in [Isolate -> {"idle", "drained", "read"}]
    /\ wpc \in [Thread -> {"run", "classify", "push", "unprotect", "retry"}]
    /\ waddr \in [Thread -> Hblk]
    /\ aborted \in BOOLEAN /\ overtaken \subseteq Thread

Init ==
    /\ InitRanges
    /\ prot = {} /\ written = {} /\ late = {} /\ overtaken = {}
    /\ GC_dirty_pages = [i \in Isolate |-> {}] /\ rescan = [i \in Isolate |-> {}]
    /\ pending_queue = <<>> /\ pending_capacity = 0
    /\ gcpc = [i \in Isolate |-> "idle"]
    /\ wpc = [t \in Thread |-> "run"] /\ waddr = [t \in Thread |-> 0]
    /\ aborted = FALSE

\* The thread of the isolate runs client code or its own allocator.
Idle(i) == gcpc[i] = "idle" /\ wpc[i] = "run"
NotWritten(S) == \A t \in Thread : wpc[t] # "run" => waddr[t] \notin S

(***************************************************************************)
(* The heap of an isolate.                                                 *)
(***************************************************************************)
\* Newly used blocks are unprotected and dirty (GC_remove_protection).
Fresh(i, S) ==
    /\ prot' = prot \ S
    /\ GC_dirty_pages' =
          IF i \in Incremental THEN [GC_dirty_pages EXCEPT ![i] = @ \cup S] ELSE GC_dirty_pages

AddSection(i, s, e) ==
    /\ Idle(i)
    /\ GC_add_to_heap(i, s, e)
    /\ Fresh(i, Interval(s, e))
    /\ UNCHANGED <<queueVars, gcpc, rescan, handlerVars, ghostVars>>

\* No one writes to a free block, so none that is being written is unmapped.
Unmap(i, s, e) ==
    /\ Idle(i) /\ NotWritten(Interval(s, e))
    /\ GC_unmap(i, s, e)
    /\ written' = written \ Interval(s, e)
    /\ UNCHANGED <<pageVars, queueVars, handlerVars, overtaken, late>>

Remap(i, s, e) ==
    /\ Idle(i)
    /\ GC_remap(i, s, e)
    /\ Fresh(i, Interval(s, e))
    /\ UNCHANGED <<queueVars, gcpc, rescan, handlerVars, ghostVars>>

\* The loop that takes the entries in S out of the pending queue.
RECURSIVE RemoveFrom(_, _, _)
RemoveFrom(q, S, i) ==
    IF i > Len(q) THEN q
    ELSE IF q[i] \in S THEN RemoveFrom(SwapOut(q, i), S, i) ELSE RemoveFrom(q, S, i + 1)

\* GC_deinit, with GC_isolate_vdb_deinit.  Once the instance is gone nobody
\* writes to its heap any more.
Deinit(i) ==
    /\ Idle(i) /\ NotWritten(Own(i))
    /\ GC_deinit(i)
    /\ pending_queue' = IF i \in Incremental THEN RemoveFrom(pending_queue, Own(i), 1)
                        ELSE pending_queue
    /\ prot' = prot \ Own(i)
    /\ GC_dirty_pages' = [GC_dirty_pages EXCEPT ![i] = {}]
    /\ rescan' = [rescan EXCEPT ![i] = {}]
    /\ written' = written \ Own(i) /\ late' = late \ Own(i)
    /\ UNCHANGED <<pending_capacity, gcpc, handlerVars, overtaken>>

(***************************************************************************)
(* GC_initiate_gc of isolate i.                                            *)
(***************************************************************************)
\* A page is claimed when the isolate has a header for it.
GC_isolate_vdb_drain_pending(i) ==
    /\ i \in Incremental /\ Idle(i) /\ heapSects[i] # <<>>
    /\ gcpc' = [gcpc EXCEPT ![i] = "drained"]
    /\ pending_queue' = RemoveFrom(pending_queue, Mapped(i), 1)
    /\ GC_dirty_pages' = [GC_dirty_pages EXCEPT ![i] = @ \cup (Queued \cap Mapped(i))]
    /\ UNCHANGED <<rangeVars, prot, rescan, pending_capacity, handlerVars, ghostVars>>

\* GC_read_dirty takes the dirty bits; a full collection scans everything.
GC_read_dirty(i, outputUnneeded) ==
    /\ gcpc[i] = "drained"
    /\ gcpc' = [gcpc EXCEPT ![i] = "read"]
    /\ rescan' = [rescan EXCEPT ![i] = IF outputUnneeded THEN Own(i) ELSE GC_dirty_pages[i]]
    /\ GC_dirty_pages' = [GC_dirty_pages EXCEPT ![i] = {}]
    /\ UNCHANGED <<rangeVars, prot, queueVars, handlerVars, ghostVars>>

\* GC_protect_heap.  Writes up to here are seen by the scans that follow.
GC_protect_heap(i) ==
    /\ gcpc[i] = "read"
    /\ gcpc' = [gcpc EXCEPT ![i] = "idle"]
    /\ prot' = prot \cup Mapped(i)
    /\ written' = written \ rescan[i]
    /\ rescan' = [rescan EXCEPT ![i] = {}]
    /\ overtaken' = overtaken \cup {t \in Thread : /\ wpc[t] = "unprotect"
                                                   /\ waddr[t] \in Own(i) \ Queued}
    /\ late' = late \ (Own(i) \ written')
    /\ UNCHANGED <<rangeVars, GC_dirty_pages, queueVars, handlerVars>>

(***************************************************************************)
(* Writes.                                                                 *)
(***************************************************************************)
\* An isolate writes to its own heap; a fault unprotects and dirties the page.
OwnWrite(i, h) ==
    /\ Idle(i) /\ h \in Mapped(i)
    /\ \/ /\ h \in prot
          /\ prot' = prot \ OnPage(h)
          /\ GC_dirty_pages' = [GC_dirty_pages EXCEPT ![i] = @ \cup OnPage(h)]
       \/ h \notin prot /\ UNCHANGED <<prot, GC_dirty_pages>>
    /\ written' = IF i \in Incremental THEN written \cup {h} ELSE written
    /\ UNCHANGED <<rangeVars, queueVars, gcpc, rescan, handlerVars, overtaken, late>>

\* Thread t writes to block h of another isolate.
ForeignWrite(t, h) ==
    /\ wpc[t] = "run" /\ (t \in Isolate => gcpc[t] = "idle")
    /\ \E i \in OwnersOf(h) \ {t} : h \in Mapped(i)
    /\ \/ /\ h \notin prot
          /\ written' = IF OwnersOf(h) \subseteq Incremental THEN written \cup {h} ELSE written
          /\ UNCHANGED <<wpc, waddr>>
       \/ /\ h \in prot
          /\ wpc' = [wpc EXCEPT ![t] = "classify"]
          /\ waddr' = [waddr EXCEPT ![t] = h]
          /\ UNCHANGED written
    /\ UNCHANGED <<rangeVars, pageVars, queueVars, aborted, overtaken, late>>

\* The steps of GC_write_fault_handler for an address with no header here.
Classify(t) ==
    /\ wpc[t] = "classify"
    /\ \/ /\ GC_isolate_vdb_classify_fault(waddr[t]) = "CROSS_ISOLATE"
          /\ wpc' = [wpc EXCEPT ![t] = "push"]
          /\ UNCHANGED aborted
       \/ /\ GC_isolate_vdb_classify_fault(waddr[t]) # "CROSS_ISOLATE"
          /\ aborted' = TRUE
          /\ UNCHANGED wpc
    /\ UNCHANGED <<rangeVars, pageVars, queueVars, waddr, ghostVars>>

\* Mutant: a page that cannot be queued is unprotected all the same.
PushOrGoOn(t) ==
    /\ wpc[t] = "push"
    /\ \E g \in Ensure(pending_capacity, Len(pending_queue) + HblksPerPage) :
          /\ g.fits => g.cap <= PendingBound
          /\ pending_capacity' = g.cap
          /\ failed' = (failed \/ ~g.fits)
          /\ pending_queue' = IF g.fits THEN pending_queue \o SetToSeq(OnPage(waddr[t]))
                              ELSE pending_queue
    /\ wpc' = [wpc EXCEPT ![t] = "unprotect"]
    /\ UNCHANGED <<range_registry, range_capacity, heapSects, decommitted, pageVars, waddr,
                   aborted, ghostVars>>

\* All the blocks of the page are queued, or none and the handler aborts.
GC_isolate_vdb_push_pending(t) ==
    /\ wpc[t] = "push"
    /\ \E g \in Ensure(pending_capacity, Len(pending_queue) + HblksPerPage) :
          /\ g.fits => g.cap <= PendingBound
          /\ pending_capacity' = g.cap
          /\ failed' = (failed \/ ~g.fits)
          /\ \/ /\ g.fits
                /\ pending_queue' = pending_queue \o SetToSeq(OnPage(waddr[t]))
                /\ wpc' = [wpc EXCEPT ![t] = "unprotect"]
                /\ UNCHANGED aborted
             \/ /\ ~g.fits
                /\ aborted' = TRUE
                /\ UNCHANGED <<pending_queue, wpc>>
    /\ UNCHANGED <<range_registry, range_capacity, heapSects, decommitted, pageVars, waddr,
                   ghostVars>>

\* MP_PROTECT_INNER(h, GC_page_size, TRUE), and the handler returns.
Unprotect(t) ==
    /\ wpc[t] = "unprotect"
    /\ prot' = prot \ OnPage(waddr[t])
    /\ wpc' = [wpc EXCEPT ![t] = "retry"]
    /\ late' = IF t \in overtaken THEN late \cup OnPage(waddr[t]) ELSE late
    /\ overtaken' = overtaken \ {t}
    /\ UNCHANGED <<rangeVars, GC_dirty_pages, gcpc, rescan, queueVars, waddr, aborted, written>>

\* The write is executed again, and may fault again.
Retry(t) ==
    /\ wpc[t] = "retry"
    /\ \/ /\ waddr[t] \in prot
          /\ wpc' = [wpc EXCEPT ![t] = "classify"]
          /\ UNCHANGED <<waddr, written>>
       \/ /\ waddr[t] \notin prot
          /\ wpc' = [wpc EXCEPT ![t] = "run"]
          /\ waddr' = [waddr EXCEPT ![t] = 0]
          /\ written' = written \cup {waddr[t]}
    /\ UNCHANGED <<rangeVars, pageVars, queueVars, aborted, overtaken, late>>

HeapStep(i) ==
    \/ Deinit(i)
    \/ \E x \in Sections : AddSection(i, x[1], x[2])
    \/ \E x \in Extents : Unmap(i, x[1], x[2]) \/ Remap(i, x[1], x[2])
    \/ \E h \in Hblk : OwnWrite(i, h)

GC_initiate_gc(i) ==
    \/ GC_isolate_vdb_drain_pending(i)
    \/ \E full \in BOOLEAN : GC_read_dirty(i, full)
    \/ GC_protect_heap(i)

GC_write_fault_handler(t) ==
    \/ Classify(t) \/ GC_isolate_vdb_push_pending(t) \/ Unprotect(t) \/ Retry(t)

Next ==
    /\ ~aborted
    /\ \/ \E i \in Isolate : HeapStep(i) \/ GC_initiate_gc(i)
       \/ \E t \in Thread : GC_write_fault_handler(t) \/ \E h \in Hblk : ForeignWrite(t, h)

Spec == Init /\ [][Next]_vars
-----------------------------------------------------------------------------
\* The next collection of its owner will scan block h again.
Recorded(h) ==
    \/ h \in Queued
    \/ \E i \in OwnersOf(h) : h \in GC_dirty_pages[i] \cup rescan[i]

(* Every write to an incremental isolate's heap, by whatever thread, is     *)
(* recorded for the next collection of the owner: what the fault handler   *)
(* says of a page that has been queued before it is unprotected.           *)
WritesRecorded == \A h \in written : Recorded(h)

(* A write can go unrecorded only through one window: the owner claims the  *)
(* queued page and protects its heap again before the writer's handler     *)
(* unprotects the page.                                                    *)
LostOnlyIfOvertaken == \A h \in written : Recorded(h) \/ h \in late

(* A write into a live heap takes the process down only when realloc has    *)
(* failed: no sequence of adding sections, unmapping, remapping and leaving *)
(* isolates makes the handler abort on a mapped block.                     *)
AbortOnlyOnFailure == aborted => failed

(* When the last isolate is gone both registries are empty, as              *)
(* GC_isolate_vdb_destroy_for_shared_library_unload asserts.               *)
EmptyAtUnload ==
    (\A i \in Isolate : heapSects[i] = <<>>) => range_registry = <<>> /\ pending_queue = <<>>

(* A queued page has been claimed by its owner, or its block was unmapped   *)
(* first or a handler has aborted the process.                             *)
ClaimedOrGone(h) == h \notin Queued \/ h \in decommitted \/ aborted
=============================================================================
