------------------------------ MODULE HblkAlloc ------------------------------
(***************************************************************************)
(* The allocator of heap blocks: allchblk.c, the header table of headers.c *)
(* and the page decommitting of os_dep.c.  A heap block is HBLKSIZE bytes; *)
(* sizes and the byte counters are counted in heap blocks.  A free list is *)
(* a set: the order of a list only decides which block is met first, and   *)
(* that choice is left open, as are the black lists (blacklst.c), the age  *)
(* of a free block and the policy that picks the lists to search.          *)
(*                                                                         *)
(* Every operation runs under the allocator lock.  The helpers of          *)
(* allchblk.c are functions on the record heap of the globals they modify. *)
(***************************************************************************)
EXTENDS Integers, FiniteSets, FiniteSetsExt

CONSTANTS
    NHblks,            \* the address space: heap blocks 0 .. NHblks - 1
    Sections,          \* the <<first block, length>> the system may hand out
    PageHblks,         \* GC_page_size / HBLKSIZE
    BOTTOM_SZ,         \* heap blocks per bottom index
    MAX_JUMP,          \* the largest forwarding count
    UNIQUE_THRESHOLD, HUGE_THRESHOLD, FL_COMPRESSION,
    Requests,          \* the sizes asked for
    Alignments,        \* the alignments asked for, in heap blocks
    Failures           \* the header allocations that Spec lets fail

\* What is assumed of the constants.
HblkAssumption ==
    /\ NHblks \in Nat \ {0}
    /\ {PageHblks, BOTTOM_SZ, MAX_JUMP, FL_COMPRESSION, UNIQUE_THRESHOLD}
           \subseteq Nat \ {0}
    /\ HUGE_THRESHOLD \in Nat /\ HUGE_THRESHOLD > UNIQUE_THRESHOLD
    /\ Sections \subseteq (0..NHblks) \X (1..NHblks)
    /\ \A x \in Sections : x[1] + x[2] <= NHblks
    /\ Requests \subseteq 1..NHblks /\ Alignments \subseteq 1..NHblks
    /\ Failures \subseteq {"section", "last", "drop"}

VARIABLES
    heap,       \* the header table, the free lists and their counters
    sections,   \* GC_heap_sects
    mergeList,  \* the list GC_merge_unmapped is at; past the last: not in it
    chain       \* what GC_merge_free_blocks_for_alloc is merging

vars == <<heap, sections, mergeList, chain>>

Hblk == 0..(NHblks - 1)

N_HBLK_FLS ==
    (HUGE_THRESHOLD - UNIQUE_THRESHOLD) \div FL_COMPRESSION + UNIQUE_THRESHOLD

Lists == 0..N_HBLK_FLS

Extent(h, n) == h..(h + n - 1)

Nil == [sz |-> 0, free |-> FALSE, unmapped |-> FALSE]

NoHblk == -1

GC_hblk_fl_from_blocks(n) ==
    IF n <= UNIQUE_THRESHOLD THEN n
    ELSE IF n >= HUGE_THRESHOLD THEN N_HBLK_FLS
    ELSE (n - UNIQUE_THRESHOLD) \div FL_COMPRESSION + UNIQUE_THRESHOLD

Region(h) == h \div BOTTOM_SZ

-----------------------------------------------------------------------------
(* The header table.  hdr[h].sz # 0: HDR(h) is a header; otherwise         *)
(* counts[h] is the forwarding count, 0 when HDR(h) is NULL.               *)

HasHdr(s, h) == s.hdr[h].sz # 0

IsNull(s, h) == ~HasHdr(s, h) /\ s.counts[h] = 0

IsFree(s, h) == HasHdr(s, h) /\ s.hdr[h].free

IsMapped(s, h) == ~s.hdr[h].unmapped

GC_install_header(s, h, n) ==
    [s EXCEPT !.indexed = @ \union {Region(h)},
              !.hdr[h] = [Nil EXCEPT !.sz = n],
              !.counts[h] = 0]

GC_remove_header(s, h) == [s EXCEPT !.hdr[h] = Nil]

GC_install_counts(s, h, n) ==
    [s EXCEPT !.indexed = @ \union {Region(b) : b \in Extent(h, n)},
              !.counts = [b \in DOMAIN @ |->
                  IF b \in Extent(h + 1, n - 1)
                  THEN IF b - h > MAX_JUMP THEN MAX_JUMP ELSE b - h
                  ELSE @[b]]]

GC_remove_counts(s, h, n) ==
    IF n <= 1 \/ IsNull(s, h + 1) THEN s
    ELSE LET inner == Extent(h + 1, n - 1)
         IN [s EXCEPT
               !.counts = [b \in DOMAIN @ |-> IF b \in inner THEN 0 ELSE @[b]],
               !.hdr = [b \in DOMAIN @ |-> IF b \in inner THEN Nil ELSE @[b]]]

GC_find_starting_hblk(s, h) ==
    LET start[b \in 0..h] ==
            IF HasHdr(s, b) \/ s.counts[b] = 0 \/ s.counts[b] > b THEN b
            ELSE start[b - s.counts[b]]
    IN start[h]

GC_prev_block(s, h) ==
    LET entries == {b \in 0..h : ~IsNull(s, b)}
    IN IF entries = {} THEN NoHblk ELSE GC_find_starting_hblk(s, Max(entries))

get_block_ending_at(s, h) ==
    IF h = 0 THEN NoHblk
    ELSE IF ~IsNull(s, h - 1) THEN GC_find_starting_hblk(s, h - 1)
    ELSE LET p == GC_prev_block(s, h - 1)
         IN IF p # NoHblk /\ p + s.hdr[p].sz = h THEN p ELSE NoHblk

GC_free_block_ending_at(s, h) ==
    LET p == get_block_ending_at(s, h)
    IN IF p # NoHblk /\ IsFree(s, p) THEN p ELSE NoHblk

-----------------------------------------------------------------------------
(* The free lists.  Removing a block from a list it is not on makes the    *)
(* links of other blocks meaningless; astray records that it happened.     *)

GC_remove_from_fl_at(s, h, i) ==
    [s EXCEPT !.fl[i] = @ \ {h},
              !.free_bytes[i] = @ - s.hdr[h].sz,
              !.astray = @ \/ h \notin s.fl[i]]

GC_remove_from_fl(s, h) ==
    GC_remove_from_fl_at(s, h, GC_hblk_fl_from_blocks(s.hdr[h].sz))

GC_add_to_fl(s, h) ==
    LET i == GC_hblk_fl_from_blocks(s.hdr[h].sz)
    IN [s EXCEPT !.fl[i] = @ \union {h},
                 !.free_bytes[i] = @ + s.hdr[h].sz,
                 !.hdr[h].free = TRUE]

\* Mutant: the header of the absorbed block is kept.
AbsorbKeepsHeader(s, h, next) == [s EXCEPT !.hdr[h].sz = @ + s.hdr[next].sz]

\* hhdr->hb_sz += nexthdr->hb_sz, and the header of next goes.
Absorb(s, h, next) ==
    GC_remove_header([s EXCEPT !.hdr[h].sz = @ + s.hdr[next].sz], next)

-----------------------------------------------------------------------------
(* Decommitting: only the whole pages inside a block.                      *)

PageOf(b) == Extent((b \div PageHblks) * PageHblks, PageHblks)

Pages(h, n) == {b \in Extent(h, n) : PageOf(b) \subseteq Extent(h, n)}

Decommit(s, blocks) ==
    [s EXCEPT !.decommitted = @ \union blocks,
              !.unmapped_bytes = @ + Cardinality(blocks)]

GC_unmap(s, h, n) == Decommit(s, Pages(h, n))

GC_remap(s, h, n) ==
    [s EXCEPT !.decommitted = @ \ Pages(h, n),
              !.unmapped_bytes = @ - Cardinality(Pages(h, n))]

\* Mutant: the page that the two blocks share stays committed.
GapForgotten(s, h, n, m) == s

GC_unmap_gap(s, h, n, m) ==
    Decommit(s, Pages(h, n + m) \ (Pages(h, n) \union Pages(h + n, m)))

SetUnmapped(s, h, flag) == [s EXCEPT !.hdr[h].unmapped = flag]

-----------------------------------------------------------------------------
(* Freeing a block.                                                        *)

CoalesceWithNext(s, h) ==
    LET next == h + s.hdr[h].sz
    IN IF IsFree(s, next) /\ IsMapped(s, next)
       THEN Absorb(GC_remove_from_fl(s, next), h, next)
       ELSE s

GC_freehblk(s, h) ==
    LET size   == s.hdr[h].sz
        freed  == [GC_remove_counts(s, h, size) EXCEPT !.hdr[h].free = TRUE]
        prev   == GC_free_block_ending_at(freed, h)
        larger == CoalesceWithNext(freed, h)
        joins  == prev # NoHblk /\ IsMapped(larger, prev)
        joined == IF joins THEN Absorb(GC_remove_from_fl(larger, prev), prev, h)
                  ELSE larger
    IN GC_add_to_fl([joined EXCEPT !.large_free_bytes = @ + size],
                    IF joins THEN prev ELSE h)

-----------------------------------------------------------------------------
(* Allocating n blocks at the place at of the block h of list i.           *)

\* Mutant: what is left in front stays on the list of the whole block.
SplitStaysListed(s, h, at, i) ==
    LET last == GC_install_header(s, at, s.hdr[h].sz - (at - h))
    IN [last EXCEPT !.fl[i] = @ \union {at},
                    !.hdr[at].free = TRUE,
                    !.hdr[h].sz = at - h]

GC_split_block(s, h, at, i) ==
    LET last == GC_install_header(s, at, s.hdr[h].sz - (at - h))
    IN GC_add_to_fl([last EXCEPT !.fl[i] = (@ \ {h}) \union {at},
                                 !.free_bytes[i] = @ - (at - h),
                                 !.hdr[at].free = TRUE,
                                 !.hdr[h].sz = at - h], h)

\* The block the request is carved from: mapped, and starting at at.
Positioned(s, h, at, i) ==
    LET mapped == IF IsMapped(s, h) THEN s
                  ELSE SetUnmapped(GC_remap(s, h, s.hdr[h].sz), h, FALSE)
    IN IF at = h THEN mapped ELSE GC_split_block(mapped, h, at, i)

GC_get_first_part(s, at, n, i) ==
    LET total   == s.hdr[at].sz
        removed == GC_remove_from_fl_at(s, at, i)
    IN IF total = n THEN removed
       ELSE GC_add_to_fl(GC_install_header(removed, at + n, total - n), at + n)

setup_header(s, at, n) == [s EXCEPT !.hdr[at] = [Nil EXCEPT !.sz = n]]

\* GC_allochblk_nth, where every header it needs can be allocated.
Allocated(s, h, at, n, i) ==
    LET counted == GC_install_counts(
                       GC_get_first_part(Positioned(s, h, at, i), at, n, i), at, n)
    IN [setup_header(counted, at, n) EXCEPT !.large_free_bytes = @ - n]

\* The places of the block h that a request may be given: aligned, and with
\* room for it; where the black lists leave one is not modelled.
Places(s, h, n, a) ==
    {at \in Extent(h, s.hdr[h].sz) : at % a = 0 /\ at + n <= h + s.hdr[h].sz}

-----------------------------------------------------------------------------
(* Merging the free block h, of list i, with its free successor.           *)

MergedWith(s, h, next, i) ==
    GC_add_to_fl(
        Absorb(GC_remove_from_fl(GC_remove_from_fl_at(s, h, i), next), h, next),
        h)

BothUnmapped(s, h, next, mapped) ==
    GC_unmap_gap(GC_unmap(s, mapped, s.hdr[mapped].sz),
                 h, s.hdr[h].sz, s.hdr[next].sz)

\* GC_merge_unmapped makes the smaller of the two like the larger one.
LikeTheLarger(s, h, next) ==
    LET larger == s.hdr[h].sz > s.hdr[next].sz
    IN CASE IsMapped(s, h) /\ ~IsMapped(s, next) ->
              IF larger THEN GC_remap(s, next, s.hdr[next].sz)
              ELSE SetUnmapped(BothUnmapped(s, h, next, h), h, TRUE)
         [] ~IsMapped(s, h) /\ IsMapped(s, next) ->
              IF larger THEN BothUnmapped(s, h, next, next)
              ELSE SetUnmapped(GC_remap(s, h, s.hdr[h].sz), h, FALSE)
         [] ~IsMapped(s, h) /\ ~IsMapped(s, next) ->
              GC_unmap_gap(s, h, s.hdr[h].sz, s.hdr[next].sz)
         [] OTHER -> s

\* GC_merge_free_blocks_for_alloc unmaps both if one of them is unmapped.
LikeTheUnmapped(s, h, next) ==
    CASE IsMapped(s, h) /\ ~IsMapped(s, next) ->
           SetUnmapped(BothUnmapped(s, h, next, h), h, TRUE)
      [] ~IsMapped(s, h) /\ IsMapped(s, next) -> BothUnmapped(s, h, next, next)
      [] ~IsMapped(s, h) /\ ~IsMapped(s, next) ->
           GC_unmap_gap(s, h, s.hdr[h].sz, s.hdr[next].sz)
      [] OTHER -> s

Mergeable(s, i) == {h \in s.fl[i] : IsFree(s, h + s.hdr[h].sz)}

-----------------------------------------------------------------------------
NotMerging == mergeList = N_HBLK_FLS + 1

NoChain == [h |-> 0, need |-> 0]

LockFree == NotMerging /\ chain = NoChain

Init ==
    /\ heap = [hdr |-> [b \in 0..NHblks |-> Nil],
               counts |-> [b \in 0..NHblks |-> 0],
               indexed |-> {},
               fl |-> [i \in Lists |-> {}],
               free_bytes |-> [i \in Lists |-> 0],
               large_free_bytes |-> 0,
               decommitted |-> {},
               unmapped_bytes |-> 0,
               lost |-> {},
               astray |-> FALSE]
    /\ sections = {}
    /\ mergeList = N_HBLK_FLS + 1
    /\ chain = NoChain

\* GC_add_to_heap: a section becomes one block, which is freed.
AddToHeap(x) ==
    /\ LockFree
    /\ x \notin sections
    /\ heap' = GC_freehblk(GC_install_header(heap, x[1], x[2]), x[1])
    /\ sections' = sections \union {x}
    /\ UNCHANGED <<mergeList, chain>>

\* The bottom index of h is there, the header is not: the caller returns.
HeaderFails(h) ==
    /\ heap' = [heap EXCEPT !.indexed = @ \union {Region(h)}]
    /\ UNCHANGED <<sections, mergeList, chain>>

AddToHeapFails(x) ==
    /\ LockFree /\ "section" \in Failures
    /\ x \notin sections
    /\ HeaderFails(x[1])

\* A request and the place it is given, on any list from its own one on.
Request(h, at, n, i) ==
    /\ LockFree
    /\ i >= GC_hblk_fl_from_blocks(n)
    /\ h \in heap.fl[i]
    /\ \E a \in Alignments : at \in Places(heap, h, n, a)

GC_allochblk_nth(h, at, n, i) ==
    /\ Request(h, at, n, i)
    /\ heap' = Allocated(heap, h, at, n, i)
    /\ UNCHANGED <<sections, mergeList, chain>>

\* No header for a place inside the block: nothing is changed.
LastHeaderFails(h, at, n, i) ==
    /\ "last" \in Failures
    /\ Request(h, at, n, i) /\ at # h
    /\ HeaderFails(at)

\* No header for what is left of the block: GC_get_first_part gives up.
RestHeaderFails(h, at, n, i) ==
    LET placed == Positioned(heap, h, at, i)
    IN /\ Request(h, at, n, i) /\ placed.hdr[at].sz # n
       /\ heap' = GC_remove_from_fl_at(placed, at, i)
       /\ UNCHANGED <<sections, mergeList, chain>>

\* No bottom index for a part of the block: GC_install_counts gives up.
CountsFail(h, at, n, i) ==
    LET first   == GC_get_first_part(Positioned(heap, h, at, i), at, n, i)
        missing == {Region(b) : b \in Extent(at, n)} \ first.indexed
    IN /\ Request(h, at, n, i) /\ missing # {}
       /\ \E r \in missing :
            heap' = [first EXCEPT !.indexed = @ \union {q \in missing : q < r}]
       /\ UNCHANGED <<sections, mergeList, chain>>

\* No object map for the size: setup_header gives up.
MapFails(h, at, n, i) ==
    LET first == GC_get_first_part(Positioned(heap, h, at, i), at, n, i)
    IN /\ Request(h, at, n, i)
       /\ heap' = GC_remove_counts(
                      setup_header(GC_install_counts(first, at, n), at, 1), at, n)
       /\ UNCHANGED <<sections, mergeList, chain>>

\* drop_hblk_in_chunks: a black-listed block becomes used blocks of size one;
\* the first header that cannot be allocated ends it, and lost (no variable of
\* the code) records the rest.
drop_hblk_in_chunks(h, i) ==
    /\ LockFree
    /\ h \in heap.fl[i] /\ IsMapped(heap, h)
    /\ \E k \in 1..heap.hdr[h].sz :
         LET size == heap.hdr[h].sz
             off  == GC_remove_from_fl_at(heap, h, i)
         IN /\ k = size \/ "drop" \in Failures
            /\ heap' = [off EXCEPT
                  !.large_free_bytes = @ - size,
                  !.indexed = @ \union {Region(b) : b \in Extent(h, k)},
                  !.lost = @ \union Extent(h + k, size - k),
                  !.hdr = [b \in DOMAIN @ |->
                      IF b \in Extent(h, k) THEN [Nil EXCEPT !.sz = 1] ELSE @[b]]]
    /\ UNCHANGED <<sections, mergeList, chain>>

\* A used block is given back, by its owner or by the sweep.
FreeHblk(h) ==
    /\ LockFree
    /\ HasHdr(heap, h) /\ ~heap.hdr[h].free
    /\ heap' = GC_freehblk(heap, h)
    /\ UNCHANGED <<sections, mergeList, chain>>

\* GC_unmap_old, of one block: any others that are old enough are further
\* steps, which nothing distinguishes from further calls.
GC_unmap_old(h, i) ==
    /\ LockFree
    /\ h \in heap.fl[i] /\ IsMapped(heap, h)
    /\ heap' = SetUnmapped(GC_unmap(heap, h, heap.hdr[h].sz), h, TRUE)
    /\ UNCHANGED <<sections, mergeList, chain>>

\* GC_merge_unmapped: a list is searched from its head again after a merge.
MergeUnmappedStart ==
    /\ LockFree
    /\ mergeList' = 0
    /\ UNCHANGED <<heap, sections, chain>>

\* Mutants: the list is not searched again; two blocks that are not alike
\* send the search back to the first list.
MergeWithoutRestart ==
    /\ ~NotMerging
    /\ \E h \in Mergeable(heap, mergeList) :
         LET next == h + heap.hdr[h].sz
         IN heap' = MergedWith(LikeTheLarger(heap, h, next), h, next, mergeList)
    /\ mergeList' = mergeList + 1
    /\ UNCHANGED <<sections, chain>>

MergeUnmappedStep ==
    /\ ~NotMerging
    /\ \E h \in Mergeable(heap, mergeList) :
         LET next == h + heap.hdr[h].sz
         IN heap' = MergedWith(LikeTheLarger(heap, h, next), h, next, mergeList)
    /\ UNCHANGED <<sections, mergeList, chain>>

MergeUnmappedNextList ==
    /\ ~NotMerging
    /\ Mergeable(heap, mergeList) = {}
    /\ mergeList' = mergeList + 1
    /\ UNCHANGED <<heap, sections, chain>>

\* GC_merge_free_blocks_for_alloc: a chain of free blocks with enough room.
FreeBlocks == UNION {Extent(h, heap.hdr[h].sz) : h \in {b \in Hblk : IsFree(heap, b)}}

MergeForAllocStart(h, n, a) ==
    LET need == n + ((a - (h % a)) % a)
    IN /\ LockFree
       /\ h \in UNION {heap.fl[i] : i \in Lists}
       /\ heap.hdr[h].sz < need
       /\ Extent(h, need) \subseteq FreeBlocks
       /\ chain' = [h |-> h, need |-> need]
       /\ UNCHANGED <<heap, sections, mergeList>>

MergeForAllocStep ==
    LET h    == chain.h
        next == h + heap.hdr[h].sz
        i    == GC_hblk_fl_from_blocks(heap.hdr[h].sz)
    IN /\ chain # NoChain
       /\ heap' = MergedWith(LikeTheUnmapped(heap, h, next), h, next, i)
       /\ chain' = IF heap'.hdr[h].sz >= chain.need THEN NoChain ELSE chain
       /\ UNCHANGED <<sections, mergeList>>

Next ==
    \/ \E x \in Sections : AddToHeap(x) \/ AddToHeapFails(x)
    \/ \E h, at \in Hblk, n \in Requests, i \in Lists :
         \/ GC_allochblk_nth(h, at, n, i)
         \/ LastHeaderFails(h, at, n, i)
    \/ \E h \in Hblk, i \in Lists : drop_hblk_in_chunks(h, i) \/ GC_unmap_old(h, i)
    \/ \E h \in Hblk : FreeHblk(h)
    \/ MergeUnmappedStart
    \/ \E h \in Hblk, n \in Requests, a \in Alignments : MergeForAllocStart(h, n, a)
    \/ MergeUnmappedStep
    \/ MergeUnmappedNextList
    \/ MergeForAllocStep

Spec == Init /\ [][Next]_vars

\* The steps that give up after the block has left its free list.
GivesUpMidway ==
    \E h, at \in Hblk, n \in Requests, i \in Lists :
        \/ RestHeaderFails(h, at, n, i)
        \/ CountsFail(h, at, n, i)
        \/ MapFails(h, at, n, i)

SpecMidway == Init /\ [][Next \/ GivesUpMidway]_vars

-----------------------------------------------------------------------------
Header == [sz : 0..NHblks, free : BOOLEAN, unmapped : BOOLEAN]

\* The shape of the header table (gc_hdrs.h), of the lists and counters of
\* allchblk.c, and of where the two merging functions are in their loops.
TypeOK ==
    /\ heap \in [hdr : [0..NHblks -> Header], counts : [0..NHblks -> 0..MAX_JUMP],
                 indexed : SUBSET {Region(b) : b \in Hblk},
                 fl : [Lists -> SUBSET Hblk], free_bytes : [Lists -> 0..NHblks],
                 large_free_bytes : 0..NHblks, decommitted : SUBSET Hblk,
                 unmapped_bytes : 0..NHblks, lost : SUBSET Hblk, astray : BOOLEAN]
    /\ sections \in SUBSET Sections
    /\ mergeList \in 0..(N_HBLK_FLS + 1)
    /\ chain \in [h : Hblk, need : Nat]

Blocks == {h \in Hblk : HasHdr(heap, h)}

InHeap == UNION {Extent(x[1], x[2]) : x \in sections}

SumSz(S) == MapThenSumSet(LAMBDA h : heap.hdr[h].sz, S)

\* The blocks with a header never overlap and stay inside the heap sections,
\* whatever is split, coalesced, dropped or merged (GC_split_block,
\* GC_get_first_part, GC_freehblk, drop_hblk_in_chunks, the two merges), and
\* GC_find_starting_hblk takes every address of a used block, and of no other
\* block, to its start.
BlocksDisjoint ==
    /\ \A h \in Blocks : Extent(h, heap.hdr[h].sz) \subseteq InHeap
    /\ \A g, h \in Blocks :
         g # h => Extent(g, heap.hdr[g].sz) \intersect Extent(h, heap.hdr[h].sz) = {}
    /\ \A h \in Blocks : \A b \in Extent(h + 1, heap.hdr[h].sz - 1) :
         IF heap.hdr[h].free THEN heap.counts[b] = 0
         ELSE ~IsNull(heap, b) /\ GC_find_starting_hblk(heap, b) = h

\* A heap block is without a header ("Missing header!!" of GC_dump_regions)
\* exactly if drop_hblk_in_chunks could not allocate one, and is then never
\* taken for a part of a neighbour.
NoBlockLost ==
    UNION {Extent(h, heap.hdr[h].sz) : h \in Blocks} = InHeap \ heap.lost

\* The blocks tile the heap, but for what dropping has lost.
BlocksTile == TypeOK /\ BlocksDisjoint /\ NoBlockLost

\* Outside of an operation a block is on a free list exactly if its header
\* says it is free, on the one list for its size, and the counters are the
\* sums of the sizes: what GC_dump_regions ("Block not on free list") and
\* GC_print_hblkfreelist ("GC_large_free_bytes INCONSISTENT!!") look for.
FreeListsExact ==
    /\ \A i \in Lists :
         /\ heap.fl[i] = {h \in Blocks : /\ heap.hdr[h].free
                                         /\ GC_hblk_fl_from_blocks(heap.hdr[h].sz) = i}
         /\ heap.free_bytes[i] = SumSz(heap.fl[i])
    /\ heap.large_free_bytes = SumSz({h \in Blocks : heap.hdr[h].free})

\* The pages given back to the system are exactly the whole pages of the free
\* blocks flagged WAS_UNMAPPED, each counted once in GC_unmapped_bytes: a used
\* block is never decommitted, and no page is forgotten by GC_unmap_gap or
\* remapped twice.
DecommittedExact ==
    /\ heap.decommitted = UNION {Pages(h, heap.hdr[h].sz) :
                                   h \in {b \in Blocks : heap.hdr[b].unmapped}}
    /\ heap.unmapped_bytes = Cardinality(heap.decommitted)
    /\ \A h \in Blocks : heap.hdr[h].unmapped => heap.hdr[h].free

\* While GC_merge_free_blocks_for_alloc works, the successor it is about to
\* take is free (its assertion), and the chain it found still has the room.
ChainHolds ==
    chain # NoChain =>
        /\ IsFree(heap, chain.h)
        /\ heap.hdr[chain.h].sz < chain.need
        /\ IsFree(heap, chain.h + heap.hdr[chain.h].sz)
        /\ Extent(chain.h, chain.need) \subseteq FreeBlocks

\* When GC_merge_unmapped returns, no two free blocks are adjacent, although a
\* merge moves the result to a list that may already have been searched.
MergeCompleteStep ==
    ~NotMerging /\ NotMerging' =>
      \A i \in Lists : Mergeable(heap', i) = {}

\* Both merging loops end, although GC_merge_unmapped starts a list over after
\* each merge: every step leaves fewer free blocks, or as many and fewer lists
\* to search.
MergeProgressStep ==
    ~LockFree =>
      \/ Cardinality({h \in Blocks : heap.hdr[h].free})'
           < Cardinality({h \in Blocks : heap.hdr[h].free})
      \/ heap' = heap /\ mergeList' > mergeList

\* The merging functions do what they are for, and end: GC_merge_unmapped leaves
\* no two adjacent free blocks, GC_merge_free_blocks_for_alloc keeps to the
\* chain it found, and every step of either is progress.
MergeSound == [][MergeCompleteStep /\ MergeProgressStep /\ ChainHolds']_vars

\* "we assume it is on the size-appropriate free list" (GC_remove_from_fl): a
\* block is never taken off a free list that it is not on.
RemovedWasListed == ~heap.astray
=============================================================================
