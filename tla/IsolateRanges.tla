---------------------------- MODULE IsolateRanges ----------------------------
(***************************************************************************)
(* The process-global registry of heap ranges of vdb_isolate.c: a sorted   *)
(* array of disjoint address ranges, each committed or decommitted, that   *)
(* tells a write into another isolate's heap from a real segmentation      *)
(* fault.  Every operation holds range_lock, so it is one step; the array  *)
(* is enlarged by realloc, which may fail.                                 *)
(*                                                                         *)
(* An address is the number of a heap block; ranges are half-open.         *)
(***************************************************************************)
EXTENDS Naturals, Sequences, SequencesExt, TLC

CONSTANTS
    Isolate,          \* threads with a collector of their own
    Incremental,      \* the isolates with GC_incremental on
    NHblks,           \* number of heap blocks of the address space
    HblksPerPage,     \* GC_page_size / HBLKSIZE
    Sections,         \* the ranges <<start, end>> GC_expand_hp can get
    InitialCapacity   \* GC_ISOLATE_INITIAL_CAPACITY

VARIABLES
    range_registry,   \* sequence of [start, end, committed]
    range_capacity,
    heapSects,        \* GC_heap_sects of every isolate
    decommitted,      \* blocks that are unmapped
    failed            \* some realloc has failed

rangeVars == <<range_registry, range_capacity, heapSects, decommitted, failed>>

Hblk == 0..NHblks - 1
Interval(s, e) == {h \in Hblk : s <= h /\ h < e}
PageAligned(a) == a % HblksPerPage = 0
Extents == {x \in (0..NHblks) \X (0..NHblks) :
               x[1] < x[2] /\ PageAligned(x[1]) /\ PageAligned(x[2])}

\* What is assumed of the constants.
RangesAssumption ==
    /\ Incremental \subseteq Isolate
    /\ NHblks \in Nat /\ HblksPerPage \in Nat \ {0} /\ InitialCapacity \in Nat \ {0}
    /\ Sections \subseteq Extents

Own(i) == UNION {Interval(heapSects[i][k][1], heapSects[i][k][2]) : k \in DOMAIN heapSects[i]}

(***************************************************************************)
(* The operations on the array.  An outcome [reg, cap, ok] holds the array *)
(* and its capacity; ok is FALSE once a realloc has failed.                *)
(***************************************************************************)
\* The capacity after doubling until count entries fit.
Doubled(cap, count) ==
    LET base == IF cap = 0 THEN InitialCapacity ELSE 2 * cap
        fits == {k \in 0..count : base * 2 ^ k >= count}
    IN  base * 2 ^ (CHOOSE k \in fits : \A j \in fits : k <= j)

\* What ensure_range_capacity_locked and its twin for the pending queue can
\* return, with the capacity they leave.
Ensure(cap, count) ==
    IF count <= cap THEN {[fits |-> TRUE, cap |-> cap]}
    ELSE {[fits |-> TRUE, cap |-> Doubled(cap, count)], [fits |-> FALSE, cap |-> cap]}

Entry(s, e, state) == [start |-> s, end |-> e, state |-> state]

\* base with the pieces appended, or fallback when there is no room for them.
AppendOrElse(out, base, pieces, fallback) ==
    {[reg |-> IF g.fits THEN base \o pieces ELSE fallback,
      cap |-> g.cap,
      ok |-> out.ok /\ g.fits] : g \in Ensure(out.cap, Len(out.reg) + Len(pieces))}

\* The last entry takes the place of entry i.
SwapOut(q, i) == SubSeq([q EXCEPT ![i] = q[Len(q)]], 1, Len(q) - 1)

\* Mutant: without room to split it, the whole entry is relabelled.
RelabelWhole(reg, i, state) == [reg EXCEPT ![i].state = state]

\* Without room to split it, the entry is dropped.
NoRoomToSplit(reg, i, state) == SwapOut(reg, i)

\* mark_range_locked on entry i, which overlaps [s, e).
mark_entry(out, i, s, e, state) ==
    LET reg == out.reg
        r == reg[i]
        left == [reg EXCEPT ![i].end = s]
        right == [reg EXCEPT ![i].start = e]
    IN CASE r.start < s /\ r.end > e ->
              AppendOrElse(out, left, <<Entry(s, e, state), Entry(e, r.end, r.state)>>,
                           NoRoomToSplit(reg, i, state))
         [] r.start < s /\ r.end <= e ->
              AppendOrElse(out, left, <<Entry(s, r.end, state)>>, left)
         [] r.start >= s /\ r.end > e ->
              AppendOrElse(out, right, <<Entry(r.start, e, state)>>, right)
         [] OTHER -> {[out EXCEPT !.reg[i].state = state]}

\* delete_range_locked on entry i, which overlaps [s, e).
delete_entry(out, i, s, e) ==
    LET reg == out.reg
        r == reg[i]
        left == [reg EXCEPT ![i].end = s]
        right == [reg EXCEPT ![i].start = e]
    IN CASE r.start < s /\ r.end > e ->
              AppendOrElse(out, left, <<Entry(e, r.end, r.state)>>, left)
         [] r.start < s /\ r.end <= e -> {[out EXCEPT !.reg = left]}
         [] r.start >= s /\ r.end > e -> {[out EXCEPT !.reg = right]}
         [] OTHER -> {[out EXCEPT !.reg = SwapOut(reg, i)]}

\* A loop that dropped entry i looks at the entry swapped into its place.
NextIndex(old, new, i) == IF Len(new) < Len(old) THEN i ELSE i + 1

\* The loops of mark_range_locked and, for the state "absent", of
\* delete_range_locked, from entry i on; entries appended meanwhile included.
RECURSIVE Pass(_, _, _, _, _)
Pass(out, i, s, e, state) ==
    LET r == out.reg[i]
        done == IF r.end <= s \/ r.start >= e THEN {out}
                ELSE IF state = "absent" THEN delete_entry(out, i, s, e)
                ELSE mark_entry(out, i, s, e, state)
    IN IF i > Len(out.reg) THEN {out}
       ELSE UNION {Pass(n, NextIndex(out.reg, n.reg, i), s, e, state) : n \in done}

mark_range_locked(out, s, e, state) == Pass(out, 1, s, e, state)
delete_range_locked(out, s, e) == Pass(out, 1, s, e, "absent")

\* An entry that continues the last one in the same state is merged into it.
MergeInto(acc, r) ==
    IF acc # <<>> /\ Last(acc).state = r.state /\ Last(acc).end = r.start
    THEN [acc EXCEPT ![Len(acc)].end = r.end] ELSE Append(acc, r)

\* Sorted by start, then compacted in one pass.
coalesce_ranges_locked(reg) ==
    FoldLeft(MergeInto, <<>>, SortSeq(reg, LAMBDA x, y : x.start < y.start))

\* The binary search, over the array from index low to high - 1 (0-based).
RECURSIVE Search(_, _, _)
Search(a, low, high) ==
    LET mid == low + (high - low) \div 2
        r == range_registry[mid + 1]
    IN IF low >= high THEN "UNKNOWN"
       ELSE IF a >= r.start /\ a < r.end
            THEN IF r.state = "committed" THEN "CROSS_ISOLATE" ELSE "DECOMMITTED"
       ELSE IF a < r.start THEN Search(a, low, mid) ELSE Search(a, mid + 1, high)

GC_isolate_vdb_classify_fault(a) == Search(a, 0, Len(range_registry))

(***************************************************************************)
(* The steps of an isolate that change the registry.                       *)
(***************************************************************************)
Locked == [reg |-> range_registry, cap |-> range_capacity, ok |-> TRUE]

\* The lock is released with one of the outcomes, the array coalesced.
Update(outs) ==
    \E out \in outs :
        /\ range_registry' = coalesce_ranges_locked(out.reg)
        /\ range_capacity' = out.cap
        /\ failed' = (failed \/ ~out.ok)
NoUpdate == UNCHANGED <<range_registry, range_capacity, failed>>

\* GC_add_to_heap, with GC_isolate_vdb_register_heap_sect.
GC_add_to_heap(i, s, e) ==
    /\ \A j \in Isolate : Own(j) \cap Interval(s, e) = {}
    /\ heapSects' = [heapSects EXCEPT ![i] = Append(@, <<s, e>>)]
    /\ \/ /\ i \in Incremental
          /\ Update(AppendOrElse(Locked, range_registry, <<Entry(s, e, "committed")>>,
                                 range_registry))
       \/ i \notin Incremental /\ NoUpdate
    /\ UNCHANGED decommitted

\* GC_isolate_vdb_note_unmap and GC_isolate_vdb_note_remap.
Note(i, s, e, state) ==
    \/ i \in Incremental /\ Update(mark_range_locked(Locked, s, e, state))
    \/ i \notin Incremental /\ NoUpdate

GC_unmap(i, s, e) ==
    /\ Interval(s, e) \subseteq Own(i) /\ ~(Interval(s, e) \subseteq decommitted)
    /\ decommitted' = decommitted \cup Interval(s, e)
    /\ Note(i, s, e, "decommitted")
    /\ UNCHANGED heapSects

GC_remap(i, s, e) ==
    /\ Interval(s, e) \subseteq Own(i) /\ Interval(s, e) \cap decommitted # {}
    /\ decommitted' = decommitted \ Interval(s, e)
    /\ Note(i, s, e, "committed")
    /\ UNCHANGED heapSects

\* GC_isolate_vdb_deinit: the sections are deleted one after the other.
DeleteSections(i) ==
    LET Del(outs, sect) == UNION {delete_range_locked(o, sect[1], sect[2]) : o \in outs}
    IN FoldLeft(Del, {Locked}, heapSects[i])

GC_deinit(i) ==
    /\ heapSects[i] # <<>>
    /\ \/ i \in Incremental /\ Update(DeleteSections(i))
       \/ i \notin Incremental /\ NoUpdate
    /\ heapSects' = [heapSects EXCEPT ![i] = <<>>]
    /\ decommitted' = decommitted \ Own(i)

InitRanges ==
    /\ range_registry = <<>> /\ range_capacity = 0
    /\ heapSects = [i \in Isolate |-> <<>>]
    /\ decommitted = {} /\ failed = FALSE

NextRanges ==
    \E i \in Isolate :
        \/ GC_deinit(i)
        \/ \E x \in Sections : GC_add_to_heap(i, x[1], x[2])
        \/ \E x \in Extents : GC_unmap(i, x[1], x[2]) \/ GC_remap(i, x[1], x[2])

SpecRanges == InitRanges /\ [][NextRanges]_rangeVars
-----------------------------------------------------------------------------
(* Types of the registry; it never holds more than its capacity. *)
TypeOKRanges ==
    /\ range_registry \in Seq([start : 0..NHblks, end : 0..NHblks,
                               state : {"committed", "decommitted"}])
    /\ range_capacity \in Nat /\ Len(range_registry) <= range_capacity
    /\ heapSects \in [Isolate -> Seq(Sections)]
    /\ decommitted \subseteq Hblk /\ failed \in BOOLEAN

(* Whenever range_lock is free the ranges are sorted and disjoint, as the   *)
(* binary search of classify_fault needs, and no two of them could be      *)
(* merged, so that unmapping and remapping in other shapes does not make   *)
(* the array grow for ever.                                                *)
RangesNormal ==
    /\ \A k \in DOMAIN range_registry : range_registry[k].start < range_registry[k].end
    /\ \A k \in 1..Len(range_registry) - 1 :
          LET r == range_registry[k]
              n == range_registry[k + 1]
          IN r.end <= n.start /\ (r.end = n.start => r.state # n.state)

\* What an address really is.
Truth(a) ==
    IF \E i \in Incremental : a \in Own(i)
    THEN IF a \in decommitted THEN "DECOMMITTED" ELSE "CROSS_ISOLATE"
    ELSE "UNKNOWN"

(* The answer for an address is right, or it is UNKNOWN because realloc has *)
(* failed at some time: never a false "safe to ignore".                    *)
ClassifySound ==
    \A a \in Hblk : LET kind == GC_isolate_vdb_classify_fault(a)
                    IN kind = Truth(a) \/ (failed /\ kind = "UNKNOWN")
=============================================================================
