------------------------------ MODULE DirtyBits ------------------------------
(***************************************************************************)
(* Virtual dirty bits by write protection (os_dep.c): the collector        *)
(* protects the pages of the heap each time it reads the dirty bits, and   *)
(* the first write to a page is caught.  Who catches it depends on vdb:    *)
(*                                                                         *)
(*   mprotect  the SIGSEGV handler of the writing thread, with the suspend *)
(*             signal blocked;                                             *)
(*   mach      the thread GC_mprotect_thread, which the world-stopping     *)
(*             code stops and resumes by messages (Darwin);                *)
(*   uffd      the thread uffdwp_monitor_thread, which nothing stops.      *)
(*                                                                         *)
(* A heap section is SectBlks blocks.  A block is allocated, swept and     *)
(* written as a whole, and a write matters when the block may hold         *)
(* pointers.  PHT_HASH maps blocks to bits, so bits are shared.            *)
(***************************************************************************)
EXTENDS Integers, Sequences, FiniteSets, FiniteSetsExt

CONSTANTS
    Writer,       \* client threads
    VdbBuilds,    \* records vdb, pageBlks, spare (DONT_PROTECT_PTRFREE)
    NSects, SectBlks,
    HashSize,     \* number of entries of a page_hash_table
    MaxReads      \* bound of the number of GC_read_dirty

VARIABLES
    vbuild,     \* the build
    vdb,        \* what GC_dirty_init chose; "none" is no incremental mode
    kind,       \* of each block: none (not in the heap), free, ptrfree, composite
    protect,    \* the write-protected pages
    uffdwp_registered_sects,
    GC_dirty_pages,
    GC_grungy_pages,  \* forgotten when the collection that reads them is over
    world,      \* running, suspending, stopped, copied, cleared, resuming
    unneeded,   \* the argument of the GC_read_dirty in progress
    w,          \* each writer: at run, fault, unprotected or gone, and a block
    port,       \* messages for the mach or the monitor thread, not yet read
    mon,        \* that thread: its place, the pages it read, its stop request
    mprotect_state,
    deinit,     \* GC_deinit: no, joining or done
    reads,
    written,    \* ghost: composite blocks written since the last read
    missed,     \* ghost: written blocks a read did not report
    overtaken   \* ghost: pages that stay unprotected with their bits not set

heapBits == <<kind, protect, uffdwp_registered_sects>>
bitVars == <<GC_dirty_pages, GC_grungy_pages>>
ghostVars == <<written, missed, overtaken>>
dirtyBitsVars == <<vbuild, vdb, heapBits, bitVars, world, unneeded, w, port,
                   mon, mprotect_state, deinit, reads, ghostVars>>

\* What is assumed of the constants.
DirtyBitsAssumption ==
    /\ {NSects, SectBlks, HashSize, MaxReads} \subseteq Nat \ {0}
    /\ \A b \in VdbBuilds : SectBlks % b.pageBlks = 0

VBlk == 0 .. NSects * SectBlks - 1
PageOf_(b) == b \div vbuild.pageBlks
BlksOf(p) == {b \in VBlk : PageOf_(b) = p}
InHeap_ == {b \in VBlk : kind[b] # "none"}
Sects == Cardinality(InHeap_) \div SectBlks
Hash(B) == {b % HashSize : b \in B}

NoMon == [at |-> "gone", todo |-> <<>>, stop |-> FALSE]
AtRun == [at |-> "run", blk |-> 0]

DirtyBitsTypeOK ==
    /\ vbuild \in VdbBuilds
    /\ vdb \in {"none", "mprotect", "mach", "uffd"}
    /\ kind \in [VBlk -> {"none", "free", "ptrfree", "composite"}]
    /\ deinit # "done" => protect \subseteq {PageOf_(b) : b \in InHeap_}
    /\ GC_dirty_pages \subseteq 0 .. HashSize - 1
    /\ GC_grungy_pages \subseteq 0 .. HashSize - 1
    /\ \A t \in Writer : w[t].at \in {"run", "fault", "unprotected", "gone"}
    /\ deinit # "done" => uffdwp_registered_sects <= Sects

DirtyBitsInit ==
    /\ vbuild \in VdbBuilds /\ vdb = "none"
    /\ kind = [b \in VBlk |-> "none"]
    /\ protect = {} /\ uffdwp_registered_sects = 0
    /\ GC_dirty_pages = {} /\ GC_grungy_pages = {}
    /\ world = "running" /\ unneeded = FALSE
    /\ w = [t \in Writer |-> AtRun]
    /\ port = <<>> /\ mon = NoMon /\ mprotect_state = "normal"
    /\ deinit = "no" /\ reads = 0
    /\ written = {} /\ missed = {} /\ overtaken = {}

-----------------------------------------------------------------------------
(* The heap, under the allocator lock, with the other threads running.     *)

\* GC_protect_heap: the pages it protects, whole sections unless a page is
\* one block or pointer-free blocks are spared.
GC_protect_heap ==
    IF vbuild.pageBlks # 1 /\ ~vbuild.spare
    THEN {PageOf_(b) : b \in InHeap_}
    ELSE {PageOf_(b) : b \in {c \in VBlk : kind[c] = "composite"}}

\* A mutant: only the blocks it is called for are marked dirty.
RedirtiedOwn(B, ptrfree) == IF ptrfree THEN {} ELSE B

\* The blocks GC_remove_protection marks dirty: all of the pages it
\* unprotects, but not the pointer-free blocks it is called for.
Redirtied(B, ptrfree) ==
    LET pages == {PageOf_(b) : b \in B}
    IN  {b \in VBlk : PageOf_(b) \in pages /\ (ptrfree => b \notin B)}

\* GC_remove_protection for the blocks B, with the bits set first.
GC_remove_protection(B, ptrfree) ==
    IF vdb = "none" \/ (vbuild.spare /\ ptrfree)
    THEN UNCHANGED <<protect, GC_dirty_pages, uffdwp_registered_sects>>
    ELSE /\ GC_dirty_pages' =
                GC_dirty_pages \union Hash(Redirtied(B, ptrfree))
         /\ protect' = protect \ {PageOf_(b) : b \in B}
         /\ uffdwp_registered_sects' =
                IF vdb = "uffd" THEN Sects ELSE uffdwp_registered_sects

Calm == world = "running" /\ deinit = "no"

\* is_hblks_mix_in_page, of the page at the start of a free block: its first
\* occupied block decides.
MixInPage(h, k) ==
    LET Occupied == {c \in BlksOf(PageOf_(h)) : kind[c] \in {"ptrfree", "composite"}}
    IN  Occupied # {} /\ kind[Min(Occupied)] # k

\* GC_allochblk_nth up to its GC_remove_protection: n blocks of the free
\* block at h become an object.
AllocHblk(h, b, n, k) ==
    LET B == b .. b + n - 1
    IN  /\ Calm /\ h <= b /\ h .. b + n - 1 \subseteq VBlk
        /\ \A c \in h .. b + n - 1 : kind[c] = "free"
        /\ vbuild.spare /\ vbuild.pageBlks # 1 => ~MixInPage(h, k)
        /\ kind' = [c \in VBlk |-> IF c \in B THEN k ELSE kind[c]]
        /\ GC_remove_protection(B, k = "ptrfree")
        /\ UNCHANGED <<vbuild, vdb, GC_grungy_pages, world, unneeded, w, port,
                       mon, mprotect_state, deinit, reads, ghostVars>>

\* GC_reclaim_generic, which writes free-list links.
Sweep(b) ==
    /\ Calm /\ kind[b] \in {"ptrfree", "composite"}
    /\ GC_remove_protection({b}, kind[b] = "ptrfree")
    /\ UNCHANGED <<vbuild, vdb, kind, GC_grungy_pages, world, unneeded, w, port,
                   mon, mprotect_state, deinit, reads, ghostVars>>

\* GC_freehblk: protection and bits stay.
FreePage(b) ==
    /\ Calm /\ kind[b] \in {"ptrfree", "composite"}
    /\ kind' = [kind EXCEPT ![b] = "free"] /\ written' = written \ {b}
    /\ UNCHANGED <<vbuild, vdb, protect, uffdwp_registered_sects, bitVars,
                   world, unneeded, w, port, mon, mprotect_state, deinit,
                   reads, missed, overtaken>>

\* GC_add_to_heap, and GC_handle_protected_regions_limit when it finds the
\* heap too large for mprotect: the incremental mode ends.
AddPages ==
    LET n == Sects * SectBlks
    IN  /\ Calm /\ Sects < NSects
        /\ kind' = [b \in VBlk |->
                      IF b \in n .. n + SectBlks - 1 THEN "free" ELSE kind[b]]
        /\ \/ UNCHANGED <<vdb, protect, ghostVars>>
           \/ /\ vdb = "mprotect" /\ vdb' = "none" /\ protect' = {}
              /\ written' = {} /\ UNCHANGED <<missed, overtaken>>
        /\ UNCHANGED <<vbuild, uffdwp_registered_sects, bitVars, world,
                       unneeded, w, port, mon, mprotect_state, deinit, reads>>

-----------------------------------------------------------------------------
(* Turning the incremental mode on.                                        *)

\* What GC_dirty_init may choose: a kernel without userfaultfd, or a failing
\* pipe, malloc or pthread_create, falls back to mprotect, and a client may
\* disallow that.
GC_dirty_init ==
    CASE vbuild.vdb = "uffd" -> {"uffd", "mprotect", "none"}
      [] vbuild.vdb = "mach" -> {"mach", "none"}
      [] OTHER -> {"mprotect", "none"}

\* GC_enable_incremental once GC_init is done, after a collection or with
\* nothing allocated since one: no object is unmarked, so what was written
\* before does not matter.  The world runs.  A mode that was dropped for the
\* regions limit may be turned on again.
GC_enable_incremental ==
    /\ Calm /\ vdb = "none"
    /\ vdb' \in GC_dirty_init \ {"none"}
    /\ mon' = IF vdb' \in {"uffd", "mach"} THEN [NoMon EXCEPT !.at = "poll"]
              ELSE mon
    /\ GC_dirty_pages' = {} /\ protect' = GC_protect_heap
    /\ uffdwp_registered_sects' = IF vdb' = "uffd" THEN Sects ELSE 0
    /\ written' = {}
    /\ UNCHANGED <<vbuild, kind, GC_grungy_pages, world, unneeded, w, port,
                   mprotect_state, deinit, reads, missed, overtaken>>

-----------------------------------------------------------------------------
(* Client writes and the faults they take.                                 *)

\* A write to a page that is not protected.
WriteThrough(t, b) ==
    /\ world = "running" /\ w[t].at = "run" /\ deinit = "no"
    /\ kind[b] \in {"ptrfree", "composite"} /\ PageOf_(b) \notin protect
    /\ written' = IF kind[b] = "composite" THEN written \union {b} ELSE written
    /\ UNCHANGED <<vbuild, vdb, heapBits, bitVars, world, unneeded, w, port,
                   mon, mprotect_state, deinit, reads, missed, overtaken>>

\* A write to a protected page: the thread waits for it to be writable.
WriteFaults(t, b) ==
    /\ world = "running" /\ w[t].at = "run" /\ deinit = "no"
    /\ kind[b] \in {"ptrfree", "composite"} /\ PageOf_(b) \in protect
    /\ w' = [w EXCEPT ![t] = [at |-> "fault", blk |-> b]]
    /\ port' = IF vdb = "mprotect" THEN port ELSE Append(port, t)
    /\ UNCHANGED <<vbuild, vdb, heapBits, bitVars, world, unneeded, mon,
                   mprotect_state, deinit, reads, ghostVars>>

\* GC_write_fault_handler, in the faulting thread: unprotect the page, then
\* set the bits of its blocks.
HandlerUnprotects(t) ==
    /\ w[t].at = "fault" /\ vbuild.vdb # "mach" /\ mon.at = "gone"
    /\ protect' = protect \ {PageOf_(w[t].blk)}
    /\ w' = [w EXCEPT ![t].at = "unprotected"]
    /\ UNCHANGED <<vbuild, vdb, kind, uffdwp_registered_sects, bitVars, world,
                   unneeded, port, mon, mprotect_state, deinit, reads,
                   ghostVars>>

HandlerSetsBits(t) ==
    /\ w[t].at = "unprotected"
    /\ GC_dirty_pages' =
           GC_dirty_pages \union Hash(BlksOf(PageOf_(w[t].blk)))
    /\ w' = [w EXCEPT ![t] = AtRun]
    /\ UNCHANGED <<vbuild, vdb, heapBits, GC_grungy_pages, world, unneeded,
                   port, mon, mprotect_state, deinit, reads, ghostVars>>

\* GC_mprotect_thread, catch_exception_raise: in the normal state the page is
\* unprotected and its bits are set, in another the thread is let fault again.
MachReceives ==
    /\ vbuild.vdb = "mach" /\ mon.at = "poll" /\ port # <<>>
    /\ port' = Tail(port)
    /\ LET m == Head(port) IN
       \/ /\ m \in Writer /\ mprotect_state = "normal"
          /\ protect' = protect \ {PageOf_(w[m].blk)}
          /\ mon' = [mon EXCEPT !.at = "set", !.todo = <<m>>]
          /\ UNCHANGED <<w, mprotect_state, world>>
       \/ /\ m \in Writer /\ mprotect_state # "normal"
          /\ w' = [w EXCEPT ![m] = AtRun]
          /\ UNCHANGED <<protect, mon, mprotect_state, world>>
       \/ /\ m = "ID_STOP"
          /\ mprotect_state' = IF mprotect_state = "normal" THEN "discarding"
                               ELSE "aborted"
          /\ UNCHANGED <<w, protect, mon, world>>
       \/ /\ m = "ID_RESUME"
          /\ mprotect_state' = IF mprotect_state = "stopped" THEN "normal"
                               ELSE "aborted"
          /\ world' = IF world = "resuming" THEN "running" ELSE world
          /\ UNCHANGED <<w, protect, mon>>
    /\ UNCHANGED <<vbuild, vdb, kind, uffdwp_registered_sects, bitVars,
                   unneeded, deinit, reads, ghostVars>>

MachSetsBits ==
    /\ vbuild.vdb = "mach" /\ mon.at = "set"
    /\ LET t == Head(mon.todo) IN
       /\ GC_dirty_pages' =
              GC_dirty_pages \union Hash(BlksOf(PageOf_(w[t].blk)))
       /\ w' = [w EXCEPT ![t] = AtRun]
    /\ mon' = [mon EXCEPT !.at = "poll", !.todo = <<>>]
    /\ UNCHANGED <<vbuild, vdb, heapBits, GC_grungy_pages, world, unneeded,
                   port, mprotect_state, deinit, reads, ghostVars>>

\* A receive that times out: no more messages to discard.
MachStopped ==
    /\ mon.at = "poll" /\ mprotect_state = "discarding" /\ port = <<>>
    /\ mprotect_state' = "stopped"
    /\ world' = IF world = "suspending" THEN "stopped" ELSE world
    /\ UNCHANGED <<vbuild, vdb, heapBits, bitVars, unneeded, w, port, mon,
                   deinit, reads, ghostVars>>

\* uffdwp_monitor_thread: the events that are there, a page at a time; the
\* bits first, then the protection, which wakes all that wait for the page.
MonitorReads ==
    /\ vbuild.vdb = "uffd" /\ mon.at = "poll" /\ ~mon.stop /\ port # <<>>
    /\ mon' = [mon EXCEPT !.at = "set",
                          !.todo = [i \in DOMAIN port |-> PageOf_(w[port[i]].blk)]]
    /\ port' = <<>>
    /\ UNCHANGED <<vbuild, vdb, heapBits, bitVars, world, unneeded, w,
                   mprotect_state, deinit, reads, ghostVars>>

MonitorSetsBits ==
    /\ vbuild.vdb = "uffd" /\ mon.at = "set"
    /\ GC_dirty_pages' = GC_dirty_pages \union Hash(BlksOf(Head(mon.todo)))
    /\ mon' = [mon EXCEPT !.at = "unprotect"]
    /\ UNCHANGED <<vbuild, vdb, heapBits, GC_grungy_pages, world, unneeded, w,
                   port, mprotect_state, deinit, reads, ghostVars>>

\* A mutant: UFFDIO_WRITEPROTECT_MODE_DONTWAKE, no thread is woken.
WakeNone(P) == UNCHANGED <<w, port>>

\* The threads that wait for the pages P run again, and their events go.
Wake(P) ==
    LET Woken == {t \in Writer : w[t].at = "fault" /\ PageOf_(w[t].blk) \in P}
    IN  /\ w' = [t \in Writer |-> IF t \in Woken THEN AtRun ELSE w[t]]
        /\ port' = SelectSeq(port, LAMBDA t : t \notin Woken)

MonitorUnprotects ==
    /\ mon.at = "unprotect"
    /\ protect' = protect \ {Head(mon.todo)} /\ Wake({Head(mon.todo)})
    /\ mon' = [mon EXCEPT !.at = IF Len(mon.todo) = 1 THEN "poll" ELSE "set",
                          !.todo = Tail(mon.todo)]
    /\ UNCHANGED <<vbuild, vdb, kind, uffdwp_registered_sects, bitVars, world,
                   unneeded, mprotect_state, deinit, reads, ghostVars>>

\* Its stop request is looked at first; closing the descriptor ends the
\* protection of all pages.
MonitorExits ==
    /\ mon.at = "poll" /\ mon.stop
    /\ mon' = NoMon /\ protect' = {} /\ Wake(protect)
    /\ UNCHANGED <<vbuild, vdb, kind, uffdwp_registered_sects, bitVars, world,
                   unneeded, mprotect_state, deinit, reads, ghostVars>>

-----------------------------------------------------------------------------
(* A collection stops the world and reads the bits (GC_read_dirty).        *)

\* The suspend signal waits for a SIGSEGV handler to return.  It interrupts
\* the wait for the monitor, so the thread will fault again.  Threads that
\* wait for the mach thread are suspended as they are, and that thread is
\* then told to stop.
StopWorldForRead ==
    /\ Calm /\ vdb # "none" /\ reads < MaxReads
    /\ vdb = "mprotect" => \A t \in Writer : w[t].at \in {"run", "gone"}
    /\ world' = IF vdb = "mach" THEN "suspending" ELSE "stopped"
    /\ port' = CASE vdb = "mach" -> Append(port, "ID_STOP")
                 [] vdb = "uffd" -> <<>>
                 [] OTHER -> port
    /\ w' = IF vdb = "uffd"
            THEN [t \in Writer |-> IF w[t].at = "fault" THEN AtRun ELSE w[t]]
            ELSE w
    /\ UNCHANGED <<vbuild, vdb, heapBits, bitVars, unneeded, mon,
                   mprotect_state, deinit, reads, ghostVars>>

\* GC_read_dirty copies the bits, unless a full collection will not use
\* them, clears them and protects the heap.
CopyBits ==
    /\ world = "stopped" /\ world' = "copied"
    /\ unneeded' \in BOOLEAN
    /\ GC_grungy_pages' = IF unneeded' THEN GC_grungy_pages ELSE GC_dirty_pages
    /\ UNCHANGED <<vbuild, vdb, heapBits, GC_dirty_pages, w, port, mon,
                   mprotect_state, deinit, reads, ghostVars>>

ClearBits ==
    /\ world = "copied" /\ world' = "cleared" /\ GC_dirty_pages' = {}
    /\ UNCHANGED <<vbuild, vdb, heapBits, GC_grungy_pages, unneeded, w, port,
                   mon, mprotect_state, deinit, reads, ghostVars>>

\* The collection looks at the bits it copied, and the world starts again; on
\* Darwin when the mach thread has resumed.
ProtectAndStart ==
    /\ world = "cleared" /\ reads' = reads + 1 /\ unneeded' = FALSE
    /\ protect' = protect \union GC_protect_heap
    /\ uffdwp_registered_sects' =
           IF vdb = "uffd" THEN Sects ELSE uffdwp_registered_sects
    /\ written' = {}
    /\ missed' = IF unneeded THEN missed
                 ELSE missed \union {b \in written : b % HashSize \notin GC_grungy_pages}
    /\ overtaken' = IF mon.at = "unprotect"
                    THEN overtaken \union {Head(mon.todo)} ELSE overtaken
    /\ GC_grungy_pages' = {}
    /\ world' = IF vdb = "mach" THEN "resuming" ELSE "running"
    /\ port' = IF vdb = "mach" THEN Append(port, "ID_RESUME") ELSE port
    /\ UNCHANGED <<vbuild, vdb, kind, GC_dirty_pages, w, mon, mprotect_state,
                   deinit>>

-----------------------------------------------------------------------------
(* The end of a collector instance, and fork.                              *)

\* GC_dirty_deinit asks the monitor to stop.  No thread uses the heap.
GC_dirty_deinit ==
    /\ Calm /\ \A t \in Writer : w[t].at \in {"run", "gone"}
    /\ deinit' = "joining"
    /\ mon' = IF vdb = "uffd" THEN [mon EXCEPT !.stop = TRUE] ELSE mon
    /\ UNCHANGED <<vbuild, vdb, heapBits, bitVars, world, unneeded, w, port,
                   mprotect_state, reads, ghostVars>>

\* pthread_join has returned.
MonitorJoined == deinit = "joining" /\ (vdb = "uffd" => mon.at = "gone")

\* The rest of GC_deinit: GC_arrays is cleared.
DeinitEnds ==
    /\ MonitorJoined
    /\ deinit' = "done" /\ vdb' = "none"
    /\ kind' = [b \in VBlk |-> "none"]
    /\ GC_dirty_pages' = {} /\ GC_grungy_pages' = {}
    /\ uffdwp_registered_sects' = 0 /\ written' = {}
    /\ UNCHANGED <<vbuild, protect, world, unneeded, w, port, mon,
                   mprotect_state, reads, missed, overtaken>>

\* GC_dirty_update_child: the monitor or mach thread did not survive, so the
\* child gives the incremental mode up and its pages are writable.
GC_dirty_update_child ==
    IF vdb = "mprotect" THEN UNCHANGED <<vdb, protect>>
    ELSE vdb' = "none" /\ protect' = {}

\* fork() by t outside a collection; the child goes on.
ForkChild(t) ==
    /\ Calm /\ w[t].at = "run"
    /\ GC_dirty_update_child
    /\ w' = [u \in Writer |-> IF u = t THEN AtRun ELSE [AtRun EXCEPT !.at = "gone"]]
    /\ port' = <<>> /\ mon' = NoMon
    /\ uffdwp_registered_sects' = 0
    /\ written' = IF vdb' = "none" THEN {} ELSE written
    /\ overtaken' = overtaken \union
           {PageOf_(w[u].blk) : u \in {x \in Writer \ {t} : w[x].at = "unprotected"}}
    /\ UNCHANGED <<vbuild, kind, bitVars, world, unneeded, mprotect_state,
                   deinit, reads, missed>>

-----------------------------------------------------------------------------

HandlerStep == \E t \in Writer : HandlerUnprotects(t) \/ HandlerSetsBits(t)
MachStep == MachReceives \/ MachSetsBits \/ MachStopped
MonitorStep == MonitorReads \/ MonitorSetsBits \/ MonitorUnprotects \/ MonitorExits
ReadStep == CopyBits \/ ClearBits \/ ProtectAndStart

DirtyBitsNext ==
    \/ \E h \in VBlk, b \in VBlk, n \in 1 .. SectBlks,
          k \in {"ptrfree", "composite"} : AllocHblk(h, b, n, k)
    \/ \E b \in VBlk : Sweep(b) \/ FreePage(b)
    \/ AddPages \/ GC_enable_incremental
    \/ \E t \in Writer, b \in VBlk : WriteThrough(t, b) \/ WriteFaults(t, b)
    \/ HandlerStep \/ MachStep \/ MonitorStep
    \/ StopWorldForRead \/ ReadStep
    \/ GC_dirty_deinit \/ DeinitEnds
    \/ \E t \in Writer : ForkChild(t)

DirtyBitsSpec == DirtyBitsInit /\ [][DirtyBitsNext]_dirtyBitsVars

-----------------------------------------------------------------------------

\* Every block with pointers that was written since the last time the dirty
\* bits were read is reported by the next GC_read_dirty a collection uses,
\* except for the pages of two races: the userfaultfd monitor unprotects a
\* page after a read has taken its bits, and a thread forks while another is
\* in the fault handler between the unprotecting and the bits.
WritesReported == missed \subseteq UNION {BlksOf(p) : p \in overtaken}

\* A page that is protected has someone to unprotect it: the fault handler,
\* the mach thread or the monitor; also in a forked child.
ProtectedIsCaught ==
    protect # {} /\ deinit = "no" => vdb = "mprotect" \/ mon.at # "gone"

\* Once GC_deinit has cleared the bits nobody sets one: the monitor thread
\* has ended.
NoBitAfterDeinit ==
    deinit = "done" /\ vbuild.vdb = "uffd" =>
        mon.at = "gone" /\ GC_dirty_pages = {}

\* The mach thread takes its stop and resume requests in turn and never
\* aborts with "Out of order mprotect thread request" and the like.
MachInOrder == mprotect_state # "aborted"

\* GC_write_fault_handler's comment says "We need to make sure that no
\* collection occurs between the unprotect action and the setting of the
\* dirty bit", and that the reverse order is as bad: with the monitor thread
\* of userfaultfd no write is missed either.
NoWriteMissed == vdb = "uffd" => missed = {}

\* A thread is in a fault on a protected page, and is over it.
Faulted(t) == w[t].at \in {"fault", "unprotected"}
Resumed(t) == w[t].at \in {"run", "gone"}
=============================================================================
