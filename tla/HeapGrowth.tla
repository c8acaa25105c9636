------------------------------ MODULE HeapGrowth -----------------------------
(***************************************************************************)
(* When the collector collects and when it takes memory from the system:   *)
(* the loops of GC_alloc_large (malloc.c) and GC_allocobj (alloc.c) around *)
(* GC_collect_or_expand, and the counters they decide by.  Sizes are in    *)
(* heap blocks.  Whether the free blocks hold a run that suits a request   *)
(* is left open (HblkAlloc and BlackList model that), so is what a stop    *)
(* function answers and whether the system has memory.  A request holds    *)
(* the allocator lock from its first attempt to its answer.                *)
(*                                                                         *)
(* The functions of alloc.c map the record g of the globals to the set of  *)
(* what they may leave there; ok is the result of the last one.            *)
(***************************************************************************)
EXTENDS Integers, FiniteSets, FiniteSetsExt

CONSTANTS
    Modes,              \* the settings: records of mode below
    Needs,              \* the sizes of requests
    SystemMem,          \* the blocks the system has
    TopAddr, StartAddr, \* the address space, and where memory is given from
    MAXHINCR_, MINHINCR,
    GC_free_space_divisor, GC_allocd_bytes_per_finalizer,
    MIN_BYTES_BEFORE_COLLECT,
    RootSize, MaxFo, MaxScratch,
    MaxAllocd           \* bound of what is allocated between collections

VARIABLES
    mode,      \* incremental, dont_expand, autoOff, max, retries, grows
    dont_gc,   \* GC_dont_gc # 0
    g,         \* the globals of the heap
    req,       \* the request in progress
    scratch,   \* blocks of scratch memory that may be recycled
    attempts   \* collections for want of memory since the last allocation

heapGrowthVars == <<mode, dont_gc, g, req, scratch, attempts>>

NoReq == [need |-> 0, at |-> "none", retry |-> FALSE, minor |-> FALSE,
          small |-> FALSE]

\* What is assumed of the constants.
HeapGrowthAssumption ==
    /\ {SystemMem, TopAddr, StartAddr, MAXHINCR_, MINHINCR,
        GC_free_space_divisor} \subseteq Nat \ {0}
    /\ Needs \subseteq Nat \ {0} /\ StartAddr < TopAddr

Free(s) == s.heapsize - s.live - s.garbage

HeapGrowthTypeOK ==
    /\ mode \in Modes /\ dont_gc \in BOOLEAN
    /\ g.live \in Nat /\ g.garbage \in Nat /\ Free(g) \in Nat
    /\ g.allocd \in Nat /\ g.freed \in Nat
    /\ req.at \in {"none", "try", "grow", "null"}

HeapGrowthInit ==
    /\ mode \in Modes /\ dont_gc = FALSE /\ req = NoReq
    /\ scratch = {} /\ attempts = 0
    /\ g = [heapsize |-> 0, live |-> 0, garbage |-> 0, allocd |-> 0,
            freed |-> 0, inUse |-> 0, grewNow |-> FALSE, fresh |-> FALSE,
            lastMin |-> 0, fails |-> 0, fo |-> 0, lastFo |-> 0,
            finalized |-> 0, lastFinalized |-> 0, unmapBase |-> 0,
            started |-> FALSE, inProgress |-> FALSE,
            ourMem |-> 0, least |-> TopAddr, greatest |-> 0, lastAddr |-> 0,
            sects |-> {}, ok |-> TRUE]

-----------------------------------------------------------------------------
(* The policy.                                                             *)

AtLeast(a, b) == IF a > b THEN a ELSE b
AtMost(a, b) == IF a < b THEN a ELSE b

min_bytes_allocd(s) ==
    LET scan == (2 * s.inUse + RootSize) \div GC_free_space_divisor
    IN AtLeast(IF mode.incremental THEN scan \div 2 ELSE scan, 1)

GC_adj_bytes_allocd(s) ==
    AtLeast(AtMost(s.allocd - s.freed, s.allocd) + s.finalized,
            s.allocd \div 8)

Refreshed(s) ==
    IF s.fresh THEN s
    ELSE [s EXCEPT !.fresh = TRUE, !.lastMin = min_bytes_allocd(s)]

\* GC_should_collect; what it leaves is AfterShouldCollect.
GC_should_collect(s) ==
    \/ s.started
    \/ /\ ~mode.autoOff
       /\ s.grewNow \/ GC_adj_bytes_allocd(s) >= Refreshed(s).lastMin

AfterShouldCollect(s) == [Refreshed(s) EXCEPT !.started = FALSE]

GC_should_collect_before_hblk_alloc(s) ==
    /\ ~dont_gc /\ ~mode.incremental /\ ~mode.autoOff
    /\ GC_adj_bytes_allocd(s) >
          AtLeast(MIN_BYTES_BEFORE_COLLECT, s.heapsize \div 3)

-----------------------------------------------------------------------------
(* A collection: GC_try_to_collect_inner_ and GC_finish_collection.         *)

Completed(s) ==
    {[s EXCEPT !.garbage = 0, !.inUse = s.live, !.allocd = 0, !.freed = 0,
               !.grewNow = FALSE, !.fresh = FALSE, !.lastMin = 0,
               !.inProgress = FALSE,
               !.finalized = f, !.fo = s.fo - f, !.ok = TRUE]
       : f \in 0..AtMost(s.garbage, s.fo)}

Stopped(s) ==
    {[s EXCEPT !.ok = FALSE],
     [s EXCEPT !.ok = FALSE, !.inProgress = mode.incremental]}

\* The default stop function may answer "stop" whenever it is asked.
GC_try_to_collect_inner_(s, mayStop) ==
    IF dont_gc THEN {[s EXCEPT !.ok = FALSE]}
    ELSE Completed(s) \union (IF mayStop THEN Stopped(s) ELSE {})

GC_gcollect_inner(s) == GC_try_to_collect_inner_(s, FALSE)

\* GC_collect_a_little_inner, with GC_maybe_gc: some steps of marking.
GC_collect_a_little_inner(s) ==
    IF mode.incremental /\ s.inProgress
    THEN {s} \union (IF dont_gc THEN {} ELSE Completed(s))
    ELSE IF dont_gc THEN {s}
    ELSE IF ~GC_should_collect(s) THEN {AfterShouldCollect(s)}
    ELSE LET t == AfterShouldCollect(s)
         IN Completed(t) \union
              (IF mode.incremental THEN {[t EXCEPT !.inProgress = TRUE]}
               ELSE {})

-----------------------------------------------------------------------------
(* Taking memory from the system.                                          *)

\* The system gives memory upwards or downwards from StartAddr.
NextPlace(s, n) ==
    IF mode.grows = "up" THEN StartAddr + s.ourMem
    ELSE StartAddr - s.ourMem - n

\* GC_os_get_mem: the sets of addresses it may answer; {} is a failure.
GC_os_get_mem(s, n) ==
    {0} \union (IF /\ s.ourMem + n <= SystemMem
                   /\ NextPlace(s, n) >= 0 /\ NextPlace(s, n) + n <= TopAddr
                THEN {NextPlace(s, n) + 1} ELSE {})

\* The memory at block a, without what is too close to either end of the
\* address space.
GC_add_to_heap_(s, a, n) ==
    LET from == IF a <= 1 THEN 2 ELSE a
        to == AtMost(a + n, TopAddr - 1)
    IN IF from >= to THEN s
       ELSE [s EXCEPT !.sects = @ \union {<<from, to>>},
                      !.heapsize = @ + to - from,
                      !.least = AtMost(@, from),
                      !.greatest = AtLeast(@, to)]

\* The bounds are moved further than needed, where the heap seems to grow to.
Generously(s, a, n) ==
    LET slop == min_bytes_allocd(s) + 4 * MAXHINCR_
        up == \/ s.lastAddr = 0 /\ a < TopAddr \div 2
              \/ s.lastAddr # 0 /\ s.lastAddr < a
    IN IF up
       THEN IF a < TopAddr - (n + slop)
            THEN [s EXCEPT !.greatest = AtLeast(@, a + n + slop)] ELSE s
       ELSE IF a > slop + 1
            THEN [s EXCEPT !.least = AtMost(@, a - slop - 1)] ELSE s

\* Mutant: the limit is compared with the heap before it grows.
RefusedLate(s, n) == mode.max # 0 /\ s.heapsize > mode.max

\* GC_max_heapsize would be exceeded.
Refused(s, n) == mode.max # 0 /\ (mode.max < n \/ s.heapsize > mode.max - n)

GC_expand_hp_inner(s, n) ==
    IF Refused(s, n) THEN {[s EXCEPT !.ok = FALSE]}
    ELSE {IF x = 0 THEN [s EXCEPT !.ok = FALSE]
          ELSE LET a == x - 1
                   t == [Generously(s, a, n) EXCEPT
                            !.grewNow = TRUE, !.lastAddr = a,
                            !.ourMem = @ + n, !.ok = TRUE]
               IN GC_add_to_heap_(t, a, n)
          : x \in GC_os_get_mem(s, n)}

BlocksToGet(s, need) ==
    LET wanted == (s.heapsize - s.unmapBase) \div GC_free_space_divisor + need
        slop == AtMost(4, need)
        n == IF wanted > MAXHINCR_ THEN AtLeast(need + slop, MAXHINCR_)
             ELSE AtLeast(wanted, MINHINCR)
    IN IF mode.max > s.heapsize /\ n > mode.max - s.heapsize
       THEN AtLeast(mode.max - s.heapsize, need) ELSE n

\* The first size tried, then exactly what is needed.
Expanded(s, need) ==
    LET n == BlocksToGet(s, need)
    IN UNION {IF t.ok \/ n = need THEN {t} ELSE GC_expand_hp_inner(t, need)
              : t \in GC_expand_hp_inner(s, n)}

ManyFinalizers(s) ==
    /\ s.fo > s.lastFo /\ s.finalized + s.lastFinalized # 0
    /\ (s.fo - s.lastFo) * GC_allocd_bytes_per_finalizer > s.allocd

\* Why GC_collect_or_expand collects before it thinks of expanding.
CollectsFirst(s) ==
    /\ ~mode.incremental /\ ~dont_gc
    /\ \/ mode.dont_expand /\ s.allocd > 0
       \/ ManyFinalizers(s)
       \/ GC_should_collect(s)

\* Out of memory.  outcome: "again" (GC_collect_or_expand answers TRUE), also
\* with "retried" when a collection for want of memory was made, or "null".
Exhausted(s, notStopped) ==
    IF ~notStopped
    THEN {[s |-> t, outcome |-> "again"] : t \in GC_gcollect_inner(s)}
    ELSE LET counted == [s EXCEPT !.fails = AtMost(@ + 1, mode.retries + 1)]
         IN IF s.fails < mode.retries
            THEN {[s |-> t, outcome |-> "retried"]
                    : t \in GC_gcollect_inner(counted)}
            ELSE {[s |-> counted, outcome |-> "null"]}

ExpandOrGiveUp(s, need, notStopped) ==
    UNION {IF t.ok THEN {[s |-> t, outcome |-> "again"]}
           ELSE Exhausted(t, notStopped) : t \in Expanded(s, need)}

GC_collect_or_expand(s, need, retry) ==
    IF ~CollectsFirst(s) THEN ExpandOrGiveUp(AfterShouldCollect(s), need, TRUE)
    ELSE LET mayStop == s.allocd > 0 /\ (~mode.dont_expand \/ ~retry)
         IN UNION {IF t.ok \/ ~retry
                   THEN {[s |-> [t EXCEPT !.lastFo = t.fo,
                                          !.lastFinalized = t.finalized],
                          outcome |-> "again"]}
                   ELSE ExpandOrGiveUp(t, need, FALSE)
                   : t \in GC_try_to_collect_inner_(AfterShouldCollect(s),
                                                   mayStop)}

-----------------------------------------------------------------------------
(* A request: GC_generic_malloc_aligned, and GC_allocobj for small objects. *)

\* The globals are left as one of S.
Leaves(S) == \E s \in S : g' = [s EXCEPT !.ok = TRUE]

\* GC_malloc: a small object needs one block.
Malloc(n, small) ==
    /\ req = NoReq /\ (small => n = 1) /\ g.allocd + n <= MaxAllocd
    /\ \E s \in IF mode.incremental /\ ~dont_gc /\ ~small
                THEN GC_collect_a_little_inner(g) ELSE {g} :
          /\ Leaves({s})
          /\ req' = [need |-> n, at |-> "try", retry |-> FALSE,
                     minor |-> FALSE, small |-> small]
    /\ UNCHANGED <<mode, dont_gc, scratch, attempts>>

Given(s) == [s EXCEPT !.live = @ + req.need, !.allocd = @ + req.need,
                      !.fails = 0]

\* GC_allochblk finds a free run, perhaps after a collection of its own.
GC_allochblk ==
    /\ req.at = "try"
    /\ \E s \in IF GC_should_collect_before_hblk_alloc(g)
                THEN {g} \union GC_gcollect_inner(g) ELSE {g} :
          /\ Free(s) >= req.need /\ Leaves({Given(s)})
    /\ req' = NoReq /\ attempts' = 0
    /\ UNCHANGED <<mode, dont_gc, scratch>>

\* It finds none.
NoBlock ==
    /\ req.at = "try"
    /\ Leaves(IF GC_should_collect_before_hblk_alloc(g)
              THEN GC_gcollect_inner(g) ELSE {g})
    /\ req' = [req EXCEPT !.at = "grow"]
    /\ UNCHANGED <<mode, dont_gc, scratch, attempts>>

\* GC_allocobj of an incremental collector tries a minor collection first.
MinorFirst ==
    /\ req.at = "grow" /\ req.small /\ ~req.minor
    /\ mode.incremental /\ ~dont_gc
    /\ Leaves(GC_collect_a_little_inner(g))
    /\ req' = [req EXCEPT !.at = "try", !.minor = TRUE]
    /\ UNCHANGED <<mode, dont_gc, scratch, attempts>>

CollectOrExpand ==
    /\ req.at = "grow"
    /\ req.small /\ mode.incremental /\ ~dont_gc => req.minor
    /\ \E r \in GC_collect_or_expand(g, req.need, req.retry) :
          /\ Leaves({r.s})
          /\ req' = [req EXCEPT !.retry = TRUE,
                        !.at = IF r.outcome = "null" THEN "null" ELSE "try"]
          /\ attempts' = IF r.outcome = "retried"
                         THEN AtMost(attempts + 1, mode.retries) ELSE attempts
    /\ UNCHANGED <<mode, dont_gc, scratch>>

\* GC_oom_fn is called, the lock being released.
OutOfMemory ==
    /\ req.at = "null"
    /\ req' = NoReq
    /\ UNCHANGED <<mode, dont_gc, g, scratch, attempts>>

-----------------------------------------------------------------------------
(* The client, and the collector's own memory.                             *)

\* Seen by the collector no earlier than its next marking.
LoseObject ==
    /\ req.at \in {"none", "grow"} /\ g.live > 0
    /\ g' = [g EXCEPT !.live = @ - 1, !.garbage = @ + 1]
    /\ UNCHANGED <<mode, dont_gc, req, scratch, attempts>>

GC_free ==
    /\ req = NoReq /\ g.live > 0
    /\ g' = [g EXCEPT !.live = @ - 1, !.freed = @ + 1]
    /\ UNCHANGED <<mode, dont_gc, req, scratch, attempts>>

RegisterFinalizer ==
    /\ req = NoReq /\ g.fo < MaxFo
    /\ g' = [g EXCEPT !.fo = @ + 1]
    /\ UNCHANGED <<mode, dont_gc, req, scratch, attempts>>

\* GC_try_to_collect, GC_gcollect_and_unmap.
GC_try_to_collect_general(mayStop, forceUnmap) ==
    /\ req = NoReq
    /\ Leaves(GC_try_to_collect_inner_(
                 IF forceUnmap THEN [g EXCEPT !.unmapBase = g.heapsize] ELSE g,
                 mayStop))
    /\ UNCHANGED <<mode, dont_gc, req, scratch, attempts>>

GC_start_incremental_collection ==
    /\ req = NoReq /\ mode.incremental
    /\ LET s == [g EXCEPT !.started = TRUE]
       IN Leaves(IF dont_gc THEN {s} ELSE GC_collect_a_little_inner(s))
    /\ UNCHANGED <<mode, dont_gc, req, scratch, attempts>>

GC_expand_hp(n) ==
    /\ req = NoReq
    /\ Leaves(GC_expand_hp_inner(g, n))
    /\ UNCHANGED <<mode, dont_gc, req, scratch, attempts>>

GC_disable ==
    /\ req = NoReq /\ dont_gc' = ~dont_gc
    /\ UNCHANGED <<mode, g, req, scratch, attempts>>

\* GC_scratch_alloc of a large table (the mark stack, the heap sections).
GC_scratch_alloc(n) ==
    /\ req = NoReq /\ Cardinality(scratch) < MaxScratch
    /\ \E x \in GC_os_get_mem(g, n) \ {0} :
          /\ scratch' = scratch \union {<<x - 1, n>>}
          /\ g' = [g EXCEPT !.ourMem = @ + n]
    /\ UNCHANGED <<mode, dont_gc, req, attempts>>

\* The table was replaced by a larger one and becomes part of the heap.
GC_scratch_recycle_inner(x) ==
    /\ req = NoReq
    /\ scratch' = scratch \ {x}
    /\ g' = GC_add_to_heap_(g, x[1], x[2])
    /\ UNCHANGED <<mode, dont_gc, req, attempts>>

Answering ==
    GC_allochblk \/ NoBlock \/ MinorFirst \/ CollectOrExpand \/ OutOfMemory

HeapGrowthNext ==
    \/ \E n \in Needs, small \in BOOLEAN : Malloc(n, small)
    \/ Answering
    \/ LoseObject \/ GC_free \/ RegisterFinalizer \/ GC_disable
    \/ GC_start_incremental_collection
    \/ \E b, c \in BOOLEAN : GC_try_to_collect_general(b, c)
    \/ \E n \in Needs : GC_expand_hp(n) \/ GC_scratch_alloc(n)
    \/ \E x \in scratch : GC_scratch_recycle_inner(x)

HeapGrowthSpec == HeapGrowthInit /\ [][HeapGrowthNext]_heapGrowthVars

-----------------------------------------------------------------------------
(* Properties.                                                             *)

\* A request for memory is in the loops around GC_collect_or_expand.
Requested == req.at # "none"

\* NULL is answered only when the heap could not grow by what was needed and
\* GC_max_retries collections were made for want of memory since the last
\* successful allocation.
NullOnlyAfterRetries == req.at = "null" /\ ~dont_gc => attempts >= mode.retries

\* Every section of the heap lies within the plausible heap addresses that
\* the marker tests a word against, and no two sections share a block.
SectionsPlausible ==
    /\ \A x \in g.sects : g.least <= x[1] /\ x[2] <= g.greatest
    /\ \A x, y \in g.sects : x = y \/ x[2] <= y[1] \/ y[2] <= x[1]

\* Memory taken from the system for the heap never lifts it over the limit.
ExpansionLimitedStep ==
    g'.heapsize > g.heapsize /\ mode.max # 0 /\ scratch' = scratch =>
       g'.heapsize <= mode.max
ExpansionLimited == [][ExpansionLimitedStep]_heapGrowthVars
=============================================================================
