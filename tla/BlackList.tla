------------------------------ MODULE BlackList ------------------------------
(***************************************************************************)
(* The black lists of blacklst.c and the heap blocks that allchblk.c keeps *)
(* out of because of them.  A false pointer is a word of the client that   *)
(* looks like an address of a heap block.  The list that is being built by *)
(* a collection (incomplete) and the one of the collection before (old)    *)
(* are bit sets indexed by a hash of the block, so that blocks may share a *)
(* bit.  "stack" false pointers may pin any block of an object, "normal"   *)
(* ones (those of heap objects when interior pointers are not recognised)  *)
(* only the first.                                                         *)
(***************************************************************************)
EXTENDS Integers, FiniteSets, FiniteSetsExt

CONSTANTS
    NBlk,                      \* the address space: blocks 0 .. NBlk - 1
    PHT_ENTRIES,               \* the bits of a page_hash_table
    WORDSZ,                    \* bits per word of it
    GC_all_interior_pointers,
    FalsePtrs,                 \* the <<block, list>> that may be met
    Growth,                    \* the sets of blocks the heap may grow by
    BlkRequests,               \* the sizes of objects, in blocks
    BlkAlign,                  \* their alignments, in blocks
    MAXHINCR                   \* the limit of GC_black_list_spacing, in blocks

VARIABLES
    bl_old,             \* GC_old_normal_bl, GC_old_stack_bl
    bl_incomplete,      \* GC_incomplete_normal_bl, GC_incomplete_stack_bl
    spacing,            \* GC_black_list_spacing, in blocks
    hasHdr,             \* the blocks of the heap
    objects,            \* the <<first block, length, how>> allocated: all its
                        \* blocks unlisted, the first, or a punt or a drop
    standing,           \* the false pointers in the client's data
    gcPhase,            \* "idle", "reclaim" or "mark"
    visited,            \* the false pointers the marking has met
    known,              \* those the last completed marking black-listed and
                        \* that have stood since, pinning no object
    interrupted         \* GC_reclaim_all was stopped since that marking

blackListVars == <<bl_old, bl_incomplete, spacing, hasHdr, objects, standing,
                   gcPhase, visited, known, interrupted>>

Blks == 0..(NBlk - 1)
BlackLists == {"normal", "stack"}
PHT_HASH(h) == h % PHT_ENTRIES
Extent_(h, n) == h..(h + n - 1)
usedBlk == UNION {Extent_(o[1], o[2]) : o \in objects}

\* What is assumed of the constants.
BlackListAssumption ==
    /\ {NBlk, PHT_ENTRIES, WORDSZ, MAXHINCR} \subseteq Nat \ {0}
    /\ PHT_ENTRIES % WORDSZ = 0
    /\ FalsePtrs \subseteq Blks \X BlackLists
    /\ GC_all_interior_pointers => \A f \in FalsePtrs : f[2] = "stack"

BlackListTypeOK ==
    /\ bl_old \in [BlackLists -> SUBSET (0..(PHT_ENTRIES - 1))]
    /\ bl_incomplete \in [BlackLists -> SUBSET (0..(PHT_ENTRIES - 1))]
    /\ spacing \in 3..(IF MAXHINCR > 3 THEN MAXHINCR ELSE 3)
    /\ objects \subseteq
          Blks \X (1..NBlk) \X {"all", "first", "punt", "drop"}
    /\ usedBlk \subseteq hasHdr /\ hasHdr \subseteq Blks
    /\ standing \subseteq FalsePtrs /\ visited \subseteq FalsePtrs
    /\ known \subseteq standing
    /\ gcPhase \in {"idle", "reclaim", "mark"} /\ interrupted \in BOOLEAN

GC_bl_init ==
    /\ bl_old = [l \in BlackLists |-> {}]
    /\ bl_incomplete = [l \in BlackLists |-> {}]
    /\ spacing = MAXHINCR

BlackListInit ==
    /\ GC_bl_init
    /\ hasHdr = {} /\ objects = {} /\ standing = {}
    /\ gcPhase = "idle" /\ visited = {} /\ known = {} /\ interrupted = FALSE

-----------------------------------------------------------------------------
Listed(l, h) == PHT_HASH(h) \in bl_old[l] \union bl_incomplete[l]

WordEmpty(h) ==
    LET w == PHT_HASH(h) \div WORDSZ
    IN \A x \in bl_old["stack"] \union bl_incomplete["stack"] :
          x \div WORDSZ # w

NotListed == -1

\* NotListed, or the block after the first one that is black-listed.  Where
\* a whole word of the table is empty its blocks are skipped at once.
GC_is_black_listed(h, n) ==
    IF ~GC_all_interior_pointers /\ Listed("normal", h) THEN h + 1
    ELSE LET look[i \in 0..(n + WORDSZ)] ==
                 IF WordEmpty(h + i)
                 THEN LET next == i + WORDSZ - (PHT_HASH(h + i) % WORDSZ)
                      IN IF next >= n THEN NotListed ELSE look[next]
                 ELSE IF Listed("stack", h + i) THEN h + i + 1
                 ELSE IF i + 1 >= n THEN NotListed ELSE look[i + 1]
         IN look[0]

ALIGN_PAD_SZ(h, a) == (a - (h % a)) % a

\* The first block for a request at or after h, NotListed when there is none.
find_non_bl_hblk(h, remain, eff, a) ==
    LET end == ((h + remain) \div a) * a
        from[x \in h..(h + remain + a)] ==
            LET b == x + ALIGN_PAD_SZ(x, a)
                next == GC_is_black_listed(b, eff)
            IN IF next = NotListed THEN b
               ELSE IF next <= end THEN from[next] ELSE NotListed
    IN from[h]

-----------------------------------------------------------------------------
(* The client: false pointers come and go, the heap grows.                 *)

MeetFalse(f) ==
    /\ f \notin standing
    /\ standing' = standing \union {f}
    /\ UNCHANGED <<bl_old, bl_incomplete, spacing, hasHdr, objects, gcPhase,
                   visited, known, interrupted>>

DropFalse(f) ==
    /\ f \in standing
    /\ standing' = standing \ {f} /\ known' = known \ {f}
    /\ UNCHANGED <<bl_old, bl_incomplete, spacing, hasHdr, objects, gcPhase,
                   visited, interrupted>>

GrowHeap(g) ==
    /\ g \intersect hasHdr = {}
    /\ hasHdr' = hasHdr \union g
    /\ UNCHANGED <<bl_old, bl_incomplete, spacing, objects, standing, gcPhase,
                   visited, known, interrupted>>

GC_freehblk_(o) ==
    /\ gcPhase # "reclaim"
    /\ objects' = objects \ {o}
    /\ UNCHANGED <<bl_old, bl_incomplete, spacing, hasHdr, standing, gcPhase,
                   visited, known, interrupted>>

\* The free blocks: coalesced runs of free heap blocks.
FreeRuns ==
    {<<h, n>> \in Blks \X (1..NBlk) :
        /\ Extent_(h, n) \subseteq hasHdr \ usedBlk
        /\ h - 1 \notin hasHdr \ usedBlk /\ h + n \notin hasHdr \ usedBlk}

\* The request is given blocks of the run regardless of the lists: it is too
\* large to insist.
Punts(n, avail) == n > spacing /\ avail - n > spacing

\* A collectable object that may hold pointers: n blocks at a multiple of a,
\* only the first of them counting when the client keeps a pointer to it.
AllocBlks(run, n, a, ignoreOffPage) ==
    LET h == run[1]
        fits == run[2] >= n + ALIGN_PAD_SZ(h, a)
        at == find_non_bl_hblk(h, run[2] - n, IF ignoreOffPage THEN 1 ELSE n, a)
    IN /\ gcPhase # "reclaim" /\ fits
       /\ \/ /\ at # NotListed
             /\ objects' = objects \union
                    {<<at, n, IF ignoreOffPage THEN "first" ELSE "all">>}
          \/ /\ at = NotListed /\ Punts(n, run[2])
             /\ objects' = objects \union
                    {<<h + ALIGN_PAD_SZ(h, a), n, "punt">>}
       /\ UNCHANGED <<bl_old, bl_incomplete, spacing, hasHdr, standing,
                      gcPhase, visited, known, interrupted>>

\* A run that is black-listed throughout is given up, every fourth time, as
\* pointer-free blocks that nothing refers to.
DropInChunks(run) ==
    /\ gcPhase # "reclaim"
    /\ find_non_bl_hblk(run[1], run[2] - 1, 1, 1) = NotListed
    /\ objects' = objects \union
           {<<b, 1, "drop">> : b \in Extent_(run[1], run[2])}
    /\ UNCHANGED <<bl_old, bl_incomplete, spacing, hasHdr, standing, gcPhase,
                   visited, known, interrupted>>

-----------------------------------------------------------------------------
(* The collection.                                                         *)

compute_total_stack_black_listed(bl) ==
    Cardinality({h \in hasHdr : PHT_HASH(h) \in bl["stack"]})

Spacing(bl) ==
    LET total == compute_total_stack_black_listed(bl)
        s == IF total # 0 THEN Cardinality(hasHdr) \div total ELSE spacing
    IN IF s < 3 THEN 3 ELSE IF s > MAXHINCR THEN MAXHINCR ELSE s

GC_promote_black_lists ==
    /\ bl_old' = bl_incomplete
    /\ bl_incomplete' = [l \in BlackLists |-> {}]
    /\ spacing' = Spacing(bl_incomplete)

\* GC_try_to_collect_inner, or GC_maybe_gc for a full collection.
StartFull ==
    /\ gcPhase = "idle"
    /\ GC_promote_black_lists
    /\ gcPhase' = "reclaim" /\ visited' = {}
    /\ UNCHANGED <<hasHdr, objects, standing, known, interrupted>>

\* The stop function ends GC_reclaim_all: the collection is not begun.
StopInReclaim ==
    /\ gcPhase = "reclaim"
    /\ gcPhase' = "idle" /\ interrupted' = TRUE
    /\ UNCHANGED <<bl_old, bl_incomplete, spacing, hasHdr, objects, standing,
                   visited, known>>

StartMark ==
    /\ gcPhase = "reclaim"
    /\ gcPhase' = "mark"
    /\ UNCHANGED <<bl_old, bl_incomplete, spacing, hasHdr, objects, standing,
                   visited, known, interrupted>>

\* Mutant: only the addresses outside of the heap.
BlacklistsOutside(f) == f[1] \notin hasHdr

\* GC_add_to_black_list_stack, GC_add_to_black_list_normal: an address that
\* is outside of the heap, or was listed before.  A stack pointer to an
\* object marks it.
Blacklists(f) ==
    /\ f[1] \notin hasHdr \/ PHT_HASH(f[1]) \in bl_old[f[2]]
    /\ f[2] = "normal" \/ f[1] \notin usedBlk

GC_add_to_black_list(f) ==
    /\ gcPhase = "mark" /\ f \in standing \ visited
    /\ visited' = visited \union {f}
    /\ bl_incomplete' = IF Blacklists(f)
                        THEN [bl_incomplete EXCEPT ![f[2]] =
                                 @ \union {PHT_HASH(f[1])}]
                        ELSE bl_incomplete
    /\ known' = IF f[2] = "stack" /\ f[1] \in usedBlk THEN known \ {f}
                ELSE known
    /\ UNCHANGED <<bl_old, spacing, hasHdr, objects, standing, gcPhase,
                   interrupted>>

\* The marking is complete: it has met every false pointer.
FinishMark ==
    /\ gcPhase = "mark" /\ standing \subseteq visited
    /\ gcPhase' = "idle" /\ interrupted' = FALSE
    /\ known' = (IF interrupted THEN {} ELSE known) \union
                {f \in standing : PHT_HASH(f[1]) \in bl_incomplete[f[2]]}
    /\ UNCHANGED <<bl_old, bl_incomplete, spacing, hasHdr, objects, standing,
                   visited>>

GC_unpromote_black_lists == bl_incomplete' = bl_old

\* GC_stopped_mark gives up and the collector is not incremental.
AbandonMark ==
    /\ gcPhase = "mark"
    /\ gcPhase' = "idle" /\ GC_unpromote_black_lists
    /\ UNCHANGED <<bl_old, spacing, hasHdr, objects, standing, visited, known,
                   interrupted>>

BlackListNext ==
    \/ \E f \in FalsePtrs :
          MeetFalse(f) \/ DropFalse(f) \/ GC_add_to_black_list(f)
    \/ \E g \in Growth : GrowHeap(g)
    \/ \E o \in objects : GC_freehblk_(o)
    \/ \E run \in FreeRuns :
          \/ \E n \in BlkRequests, a \in BlkAlign, i \in BOOLEAN :
                AllocBlks(run, n, a, i)
          \/ DropInChunks(run)
    \/ StartFull \/ StopInReclaim \/ StartMark \/ FinishMark \/ AbandonMark

BlackListSpec == BlackListInit /\ [][BlackListNext]_blackListVars

-----------------------------------------------------------------------------
(* Properties.                                                             *)

\* A false pointer the last completed marking black-listed keeps its block on
\* the lists as long as it stands, through growths of the heap over it (which
\* would make it look like a pointer into the heap), through the promotion at
\* the start of the next collection and through markings that are abandoned.
KnownStaysListed ==
    ~interrupted => \A f \in known : Listed(f[2], f[1])

\* GC_allochblk_nth never places an object where a known false pointer would
\* pin it, unless the request is so large that it gives in, and never outside
\* of the free blocks.
AllocationAvoidsKnownStep ==
    \A o \in objects' \ objects :
       LET new == Extent_(o[1], o[2])
       IN /\ new \subseteq hasHdr \ usedBlk
          /\ ~interrupted /\ o[3] \in {"all", "first"} =>
                /\ <<o[1], "normal">> \notin known
                /\ <<o[1], "stack">> \notin known
          /\ ~interrupted /\ o[3] = "all" =>
                \A f \in known : f[2] = "stack" => f[1] \notin new
      
AllocationAvoidsKnown == [][AllocationAvoidsKnownStep]_blackListVars
=============================================================================
