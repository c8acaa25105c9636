------------------------------- MODULE Roots -------------------------------
(***************************************************************************)
(* The static roots: the table of root segments (mark_rts.c), the table of *)
(* excluded ranges, and the registration of the data of the program and of *)
(* its libraries before each collection (dyn_load.c).  Addresses count     *)
(* words, so ranges are aligned.  The build decides how the table is kept  *)
(* (with an index on the start addresses, or merged, on Windows) and how   *)
(* the data segments are found:                                            *)
(*   "phdr"   dl_iterate_phdr, with GNU_RELRO parts left out               *)
(*   "maps"   /proc/self/maps, without the collector's own memory          *)
(*   "query"  VirtualQuery, without the stacks (Windows)                   *)
(*   "plain"  a list of data segments (link maps, AIX, Haiku, HP/UX, OSF1) *)
(*   "dyld"   callbacks when an image is loaded or unloaded (Darwin)       *)
(***************************************************************************)
EXTENDS Naturals, FiniteSets, Sequences, SequencesExt

CONSTANTS
    NWords,          \* addresses are 0..NWords
    AddressSpaces,   \* the address spaces the process can have
    Builds,          \* the builds considered
    ClientRanges,    \* the ranges <<b, e>> that the client passes
    MAX_ROOT_SETS,
    MAX_EXCLUSIONS,
    MAX_LOAD_SEGS

VARIABLES
    build,
    GC_static_roots,  \* sequence of [r_start, r_end, r_tmp]
    GC_root_size,
    GC_excl_table,    \* sequence of <<e_start, e_end>>
    space,            \* the address space: [maps, ours]
    permanent,        \* ghost: words registered for good and not removed
    registered_       \* the libraries have just been registered

rootsVars == <<build, GC_static_roots, GC_root_size, GC_excl_table, space, permanent, registered_>>

Range_(b, e) == {w \in 0..(NWords - 1) : b <= w /\ w < e}
RootWords(rs, tmp) ==
    UNION {Range_(rs[i].r_start, rs[i].r_end) : i \in {j \in DOMAIN rs : rs[j].r_tmp = tmp}}

RootsTypeOK ==
    /\ build \in Builds /\ GC_root_size \in Nat
    /\ Len(GC_static_roots) <= MAX_ROOT_SETS
    /\ \A i \in DOMAIN GC_static_roots :
          GC_static_roots[i] \in [r_start : 0..NWords, r_end : 0..NWords, r_tmp : BOOLEAN]
    /\ GC_excl_table \in Seq((0..NWords) \X (0..NWords)) /\ Len(GC_excl_table) <= MAX_EXCLUSIONS
    /\ space \in AddressSpaces /\ permanent \subseteq 0..(NWords - 1) /\ registered_ \in BOOLEAN

RootsInit ==
    /\ build \in Builds /\ GC_static_roots = <<>> /\ GC_root_size = 0
    /\ GC_excl_table = <<>> /\ space \in AddressSpaces
    /\ permanent = {} /\ registered_ = FALSE

-----------------------------------------------------------------------------
\* The table, as a record of the sequence and the total size.

Root_(b, e, tmp) == [r_start |-> b, r_end |-> e, r_tmp |-> tmp]
AppendRoot(T, b, e, tmp) ==
    [roots |-> Append(T.roots, Root_(b, e, tmp)), size |-> T.size + (e - b)]

\* The entry is replaced by the last one.
GC_remove_root_at_pos(T, i) ==
    LET n == Len(T.roots)
    IN [roots |-> SubSeq([T.roots EXCEPT ![i] = T.roots[n]], 1, n - 1),
        size |-> T.size - (T.roots[i].r_end - T.roots[i].r_start)]

\* GC_roots_present: the index finds the entry added last.
Present(T, b) == {i \in DOMAIN T.roots : T.roots[i].r_start = b /\
                     \A j \in (i + 1)..Len(T.roots) : T.roots[j].r_start # b}

\* A mutant: an extended segment keeps its status.
AddIndexedKeepTmp(T, b, e, tmp) ==
    IF Present(T, b) = {} THEN AppendRoot(T, b, e, tmp)
    ELSE LET i == CHOOSE j \in Present(T, b) : TRUE
             old == T.roots[i]
         IN IF old.r_end >= e THEN T
            ELSE [roots |-> [T.roots EXCEPT ![i] = Root_(b, e, old.r_tmp)], size |-> T.size + (e - old.r_end)]

\* GC_add_roots_inner with the index
AddIndexed(T, b, e, tmp) ==
    IF Present(T, b) = {} THEN AppendRoot(T, b, e, tmp)
    ELSE LET i == CHOOSE j \in Present(T, b) : TRUE
             old == T.roots[i]
         IN IF old.r_end >= e
            THEN [T EXCEPT !.roots[i].r_tmp = @ /\ tmp]
            ELSE IF old.r_tmp = tmp \/ ~tmp
            THEN [roots |-> [T.roots EXCEPT ![i] = Root_(b, e, tmp)],
                  size |-> T.size + (e - old.r_end)]
            ELSE AppendRoot(T, old.r_end, e, tmp)

\* GC_add_roots_inner on Windows: the first entry that overlaps or touches the
\* range takes it in, and then the later entries that overlap or touch it; the
\* last entry moves, without its r_tmp, to the place of one that was taken in.
Touches(r, b, e) == r.r_end >= b /\ e >= r.r_start
MinOf(x, y) == IF x < y THEN x ELSE y
MaxOf(x, y) == IF x < y THEN y ELSE x
Absorb(r, b, e, tmp) == Root_(MinOf(r.r_start, b), MaxOf(r.r_end, e), r.r_tmp /\ tmp)
Length(r) == r.r_end - r.r_start

AddMerged(T, b, e, tmp) ==
    LET hits == {i \in DOMAIN T.roots : Touches(T.roots[i], b, e)}
        k == CHOOSE i \in hits : \A j \in hits : i <= j
        first == Absorb(T.roots[k], b, e, tmp)
        Take(U, i) ==
            IF i > Len(U.roots) \/ ~Touches(U.roots[i], U.roots[k].r_start, U.roots[k].r_end) THEN U
            ELSE LET n == Len(U.roots)
                     other == U.roots[i]
                     new == Absorb(U.roots[k], other.r_start, other.r_end, other.r_tmp)
                 IN [roots |-> SubSeq([U.roots EXCEPT ![k] = new,
                                        ![i] = [U.roots[n] EXCEPT !.r_tmp = other.r_tmp]], 1, n - 1),
                     size |-> U.size + Length(new) - Length(U.roots[k]) - Length(other)]
    IN IF hits = {} THEN AppendRoot(T, b, e, tmp)
       ELSE FoldLeft(Take, [roots |-> [T.roots EXCEPT ![k] = first],
                            size |-> T.size + Length(first) - Length(T.roots[k])],
                     [n \in 1..(Len(T.roots) - k) |-> k + n])

GC_add_roots_inner(T, b, e, tmp) ==
    IF b >= e THEN T ELSE IF build = "query" THEN AddMerged(T, b, e, tmp) ELSE AddIndexed(T, b, e, tmp)

\* The loops of GC_remove_tmp_roots and GC_remove_roots_inner; gone has the
\* entries to be removed.
RemoveAll(T, gone) ==
    LET Step(S, n) == IF S.i > Len(S.T.roots) THEN S
                      ELSE IF S.T.roots[S.i] \in gone THEN [S EXCEPT !.T = GC_remove_root_at_pos(@, S.i)]
                      ELSE [S EXCEPT !.i = @ + 1]
    IN FoldLeft(Step, [T |-> T, i |-> 1], [n \in DOMAIN T.roots |-> n]).T

GC_remove_tmp_roots(T) == RemoveAll(T, {r \in ToSet(T.roots) : r.r_tmp})
GC_remove_roots_inner(T, b, e) == RemoveAll(T, {r \in ToSet(T.roots) : r.r_start >= b /\ e >= r.r_end})

Swap(q, i, j) == [q EXCEPT ![i] = q[j], ![j] = q[i]]
\* First temporary root from position i on, or the position after the last.
FirstTmp(q, i) == CHOOSE j \in i..(Len(q) + 1) :
                     /\ j <= Len(q) => q[j].r_tmp
                     /\ \A m \in i..(j - 1) : ~q[m].r_tmp

\* Step of the loop of GC_remove_roots_subregion at position S.i.  The permanent
\* roots are kept before the temporary ones.
CutRoot(S, b, e) ==
    LET T == S.T
        r == T.roots[S.i]
        shrunk == [roots |-> [T.roots EXCEPT ![S.i].r_end = b], size |-> T.size - (r.r_end - b)]
        split == GC_add_roots_inner(shrunk, e, r.r_end, FALSE)
        j == FirstTmp(split.roots, S.i + 1)
        n == Len(split.roots)
        gone == GC_remove_root_at_pos(T, S.i)
        g == gone.roots
    IN CASE S.i > Len(T.roots) \/ (S.i <= Len(T.roots) /\ r.r_tmp) -> S
         [] r.r_start >= e \/ b >= r.r_end -> [S EXCEPT !.i = @ + 1]
         [] r.r_start < b /\ e >= r.r_end -> [T |-> shrunk, i |-> S.i + 1]
         [] r.r_start < b /\ e < r.r_end ->
              [T |-> IF j < n /\ ~split.roots[n].r_tmp THEN [split EXCEPT !.roots = Swap(@, j, n)] ELSE split,
               i |-> S.i + 1]
         [] r.r_start >= b /\ e < r.r_end ->
              [T |-> [roots |-> [T.roots EXCEPT ![S.i].r_start = e], size |-> T.size - (e - r.r_start)],
               i |-> S.i + 1]
         [] OTHER ->
              [T |-> IF S.i < Len(g) /\ g[S.i].r_tmp /\ ~g[S.i + 1].r_tmp
                     THEN [gone EXCEPT !.roots = Swap(@, S.i, FirstTmp(g, S.i + 2) - 1)] ELSE gone,
               i |-> S.i]

GC_remove_roots_subregion(T, b, e) ==
    LET Step(S, n) == CutRoot(S, b, e)
    IN FoldLeft(Step, [T |-> T, i |-> 1], [n \in 1..(2 * MAX_ROOT_SETS) |-> n]).T

-----------------------------------------------------------------------------
\* The data of the program and its libraries.  A mapping has a protection
\* ("w", "r" or "-"), a use ("data", "stack", "own", "pseudo") and the part
\* <<start, end>> that GNU_RELRO makes constant, if any.

Table == [roots |-> GC_static_roots, size |-> GC_root_size]
AddTmp(T, p) == GC_add_roots_inner(T, p[1], p[2], TRUE)
AddSegments(T, segs) == FoldLeft(AddTmp, T, segs)
DataMaps == SelectSeq(space.maps, LAMBDA m : m.prot = "w" /\ m.use = "data")
Segment(m) == <<m.start, m.end>>

\* GC_register_dynlib_callback and GC_register_dynamic_libraries_dl_iterate_phdr
DynlibSegments ==
    LET n == MinOf(Len(DataMaps), MAX_LOAD_SEGS)
        direct == [i \in 1..(Len(DataMaps) - n) |-> Segment(DataMaps[n + i])]
        parts == [i \in 1..n |->
            LET m == DataMaps[i]
            IN IF m.relro = <<>> THEN <<Segment(m)>>
               ELSE <<<<m.start, m.relro[1]>>, <<m.relro[2], m.end>>>>]
    IN direct \o FlattenSeq(parts)

\* sort_heap_sects
OurMemory == SortSeq(space.ours, LAMBDA p, q : p[1] < q[1])

\* What is left of b..e between the collector's own sections.
RECURSIVE BetweenSects(_, _, _)
BetweenSects(i, b, e) ==
    IF i > Len(OurMemory) \/ b >= e \/ OurMemory[i][1] >= e
    THEN IF b < e THEN <<<<b, e>>>> ELSE <<>>
    ELSE (IF b < OurMemory[i][1] THEN <<<<b, OurMemory[i][1]>>>> ELSE <<>>)
         \o BetweenSects(i + 1, OurMemory[i][2], e)

MapSegments(m) ==
    IF m.end <= OurMemory[1][1] \/ m.start >= Last(OurMemory)[2] THEN <<Segment(m)>>
    ELSE LET i == CHOOSE j \in DOMAIN OurMemory :
                     OurMemory[j][2] >= m.start /\ \A h \in 1..(j - 1) : OurMemory[h][2] < m.start
         IN IF m.start >= OurMemory[i][1] THEN BetweenSects(i + 1, OurMemory[i][2], m.end)
            ELSE BetweenSects(i, m.start, m.end)

GC_register_map_entries(T) ==
    LET Entry_(U, m) ==
            CASE m.prot = "w" /\ m.use \notin {"stack", "pseudo"} -> AddSegments(U, MapSegments(m))
              [] m.prot = "-" -> GC_remove_roots_subregion(U, m.start, m.end)
              [] OTHER -> U
    IN FoldLeft(Entry_, T, space.maps)

\* GC_cond_add_roots: what is left of b..e between the stacks (GC_get_next_stack)
Stacks == SelectSeq(space.maps, LAMBDA m : m.use = "stack")
RECURSIVE BetweenStacks(_, _, _)
BetweenStacks(i, b, e) ==
    IF i > Len(Stacks) \/ Stacks[i].start >= e THEN IF b < e THEN <<<<b, e>>>> ELSE <<>>
    ELSE IF Stacks[i].end <= b THEN BetweenStacks(i + 1, b, e)
    ELSE (IF b < Stacks[i].start THEN <<<<b, Stacks[i].start>>>> ELSE <<>>)
         \o BetweenStacks(i + 1, Stacks[i].end, e)
GC_cond_add_roots(T, b, e) == IF b = e THEN T ELSE AddSegments(T, BetweenStacks(1, b, e))

\* The regions are joined while they are contiguous.
QueryRegions(T) ==
    LET Region(S, m) ==
            IF ~(m.prot = "w" /\ m.use \in {"data", "stack"}) THEN S
            ELSE IF m.start # S.limit
            THEN [T |-> GC_cond_add_roots(S.T, S.base, S.limit), base |-> m.start, limit |-> m.end]
            ELSE [S EXCEPT !.limit = m.end]
        end == FoldLeft(Region, [T |-> T, base |-> 0, limit |-> 0], space.maps)
    IN GC_cond_add_roots(end.T, end.base, end.limit)

PlainSegments == [i \in DOMAIN DataMaps |-> Segment(DataMaps[i])]

GC_register_dynamic_libraries(T) ==
    CASE build = "phdr" -> AddSegments(T, DynlibSegments)
      [] build = "maps" -> GC_register_map_entries(T)
      [] build = "query" -> QueryRegions(T)
      [] build = "plain" -> AddSegments(T, PlainSegments)
      [] OTHER -> T

-----------------------------------------------------------------------------
Install(T) == /\ Len(T.roots) <= MAX_ROOT_SETS       \* else the program is aborted
              /\ GC_static_roots' = T.roots /\ GC_root_size' = T.size

GC_add_roots(b, e) ==
    /\ Install(GC_add_roots_inner(Table, b, e, FALSE))
    /\ permanent' = permanent \cup Range_(b, e) /\ registered_' = FALSE
    /\ UNCHANGED <<build, GC_excl_table, space>>

GC_remove_roots(b, e) ==
    /\ Install(GC_remove_roots_inner(Table, b, e))
    /\ permanent' = permanent \ Range_(b, e) /\ registered_' = FALSE
    /\ UNCHANGED <<build, GC_excl_table, space>>

GC_clear_roots ==
    /\ GC_static_roots' = <<>> /\ GC_root_size' = 0 /\ permanent' = {} /\ registered_' = FALSE
    /\ UNCHANGED <<build, GC_excl_table, space>>

\* Guard pages that have appeared in permanent roots are removed from them.
Unreadable == UNION {Range_(m.start, m.end) : m \in {n \in ToSet(space.maps) : n.prot = "-"}}
GC_cond_register_dynamic_libraries ==
    /\ Install(GC_register_dynamic_libraries(GC_remove_tmp_roots(Table)))
    /\ permanent' = IF build = "maps" THEN permanent \ Unreadable ELSE permanent
    /\ registered_' = TRUE
    /\ UNCHANGED <<build, GC_excl_table, space>>

\* The process maps and unmaps memory; dyld_image_add_del on Darwin
dyld_image_add_del(new) ==
    LET before == ToSet(PlainSegments)
        after == {Segment(m) : m \in {n \in ToSet(new.maps) : n.prot = "w" /\ n.use = "data"}}
        Del(T, p) == GC_remove_roots_inner(T, p[1], p[2])
        Add(T, p) == GC_add_roots_inner(T, p[1], p[2], FALSE)
    IN /\ Install(FoldLeft(Add, FoldLeft(Del, Table, SetToSeq(before \ after)), SetToSeq(after \ before)))
       /\ permanent' = (permanent \ UNION {Range_(p[1], p[2]) : p \in before \ after})
                       \cup UNION {Range_(p[1], p[2]) : p \in after \ before}

ChangeSpace(new) ==
    /\ new # space /\ space' = new /\ registered_' = FALSE
    /\ \/ build = "dyld" /\ dyld_image_add_del(new)
       \/ build # "dyld" /\ UNCHANGED <<GC_static_roots, GC_root_size, permanent>>
    /\ UNCHANGED <<build, GC_excl_table>>

\* Binary search for the first excluded range that ends after a.
RECURSIVE SearchExclusion(_, _, _)
SearchExclusion(a, low, high) ==
    IF high <= low THEN low
    ELSE LET mid == (low + high) \div 2
         IN IF a >= GC_excl_table[mid][2] THEN SearchExclusion(a, mid + 1, high)
            ELSE SearchExclusion(a, low, mid)
GC_next_exclusion(a) ==
    IF GC_excl_table = <<>> THEN 0
    ELSE LET i == SearchExclusion(a, 1, Len(GC_excl_table))
         IN IF a >= GC_excl_table[i][2] THEN 0 ELSE i

GC_exclude_static_roots_inner(b, e) ==
    LET i == GC_next_exclusion(b)
        joined == i # 0 /\ GC_excl_table[i][1] = e
    IN /\ b < e
       /\ i # 0 => GC_excl_table[i][1] >= e          \* else the program is aborted
       /\ joined \/ Len(GC_excl_table) < MAX_EXCLUSIONS
       /\ GC_excl_table' = IF joined THEN [GC_excl_table EXCEPT ![i][1] = b]
                           ELSE IF i = 0 THEN Append(GC_excl_table, <<b, e>>)
                           ELSE InsertAt(GC_excl_table, i, <<b, e>>)
       /\ registered_' = FALSE
       /\ UNCHANGED <<build, GC_static_roots, GC_root_size, space, permanent>>

\* The words of b..t that are pushed.
RECURSIVE GC_push_conditional_with_exclusions(_, _)
GC_push_conditional_with_exclusions(b, t) ==
    IF b >= t THEN {}
    ELSE LET i == GC_next_exclusion(b)
         IN IF i = 0 \/ (i # 0 /\ GC_excl_table[i][1] >= t) THEN Range_(b, t)
            ELSE Range_(b, GC_excl_table[i][1])
                 \cup GC_push_conditional_with_exclusions(GC_excl_table[i][2], t)
PushedWords ==
    UNION {GC_push_conditional_with_exclusions(GC_static_roots[i].r_start, GC_static_roots[i].r_end) :
              i \in DOMAIN GC_static_roots}

RootsNext ==
    \/ \E p \in ClientRanges : \/ GC_add_roots(p[1], p[2]) \/ GC_remove_roots(p[1], p[2])
                               \/ GC_exclude_static_roots_inner(p[1], p[2])
    \/ GC_clear_roots \/ GC_cond_register_dynamic_libraries
    \/ \E new \in AddressSpaces : ChangeSpace(new)

RootsSpec == RootsInit /\ [][RootsNext]_rootsVars

-----------------------------------------------------------------------------
\* What was registered for good stays a permanent root until it is removed,
\* through every merge, split and move of table entries.  (With the merged
\* table of the Windows build an entry that moves can become temporary.)
PermanentKept == build # "query" => permanent \subseteq RootWords(GC_static_roots, FALSE)
\* After the libraries are registered, the roots hold all data of the loaded
\* libraries, and the temporary ones nothing that is unmapped, a stack, or
\* memory of the collector.
WordsOf(prot, use) ==
    UNION {Range_(m.start, m.end) : m \in {n \in ToSet(space.maps) : n.prot = prot /\ n.use = use}}
RelroWords == UNION {Range_(m.relro[1], m.relro[2]) : m \in {n \in ToSet(space.maps) : n.relro # <<>>}}
OwnWords == UNION {Range_(p[1], p[2]) : p \in ToSet(space.ours)}
DataRegistered ==
    registered_ /\ build # "dyld" =>
        /\ (WordsOf("w", "data") \ (RelroWords \cup OwnWords)) \subseteq
              RootWords(GC_static_roots, TRUE) \cup RootWords(GC_static_roots, FALSE)
        /\ RootWords(GC_static_roots, TRUE) \subseteq WordsOf("w", "data")
        /\ build = "maps" => RootWords(GC_static_roots, TRUE) \cap OwnWords = {}
        /\ build = "maps" => RootWords(GC_static_roots, FALSE) \cap Unreadable = {}

\* The marker is given the roots without the excluded ranges, exactly, and the
\* size that the collector uses for its decisions is that of the table
\* (GC_print_static_roots: "GC_root_size incorrect!!").
ExclusionsHonoured ==
    /\ PushedWords = (RootWords(GC_static_roots, TRUE) \cup RootWords(GC_static_roots, FALSE))
                     \ UNION {Range_(x[1], x[2]) : x \in ToSet(GC_excl_table)}
    /\ \A i, j \in DOMAIN GC_excl_table : i < j => GC_excl_table[i][2] <= GC_excl_table[j][1]
RootSizeExact == GC_root_size = FoldLeft(LAMBDA n, r : n + Length(r), 0, GC_static_roots)
=============================================================================
