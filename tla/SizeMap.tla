------------------------------- MODULE SizeMap -------------------------------
(***************************************************************************)
(* GC_size_map: how many granules a small request of lb bytes is given.    *)
(* The first entries are filled at start, the others on demand, a section  *)
(* at a time, around the request that found its entry empty (malloc.c,     *)
(* misc.c).  What a section holds depends on the requests made before.     *)
(***************************************************************************)
EXTENDS Naturals, FiniteSets, FiniteSetsExt, TLC

CONSTANTS
    GRANULE_BYTES,      \* GC_GRANULE_BYTES
    HBLK_GRANULES,
    TINY_FREELISTS,     \* GC_TINY_FREELISTS
    EXTRA_BYTES_,       \* EXTRA_BYTES
    MaxExtensions       \* bound: how often the map is extended

MAXOBJGRANULES == HBLK_GRANULES \div 2
MAXOBJBYTES == MAXOBJGRANULES * GRANULE_BYTES
SmallSizes == 0 .. MAXOBJBYTES - EXTRA_BYTES_

\* What is assumed of the constants.
SizeMapAssumption ==
    /\ {GRANULE_BYTES, HBLK_GRANULES} \subseteq Nat \ {0} /\ EXTRA_BYTES_ \in {0, 1}
    \* else the eighth below a size could be above the request
    /\ TINY_FREELISTS - 1 \in 8 .. MAXOBJGRANULES

VARIABLES
    GC_size_map,
    extended     \* the request the map was last extended for, and how often

sizeMapVars == <<GC_size_map, extended>>

ALLOC_REQUEST_GRANS(lb) == (lb + GRANULE_BYTES - 1 + EXTRA_BYTES_) \div GRANULE_BYTES

EvenUp(lg) == lg + (lg % 2)
EvenDown(lg) == lg - (lg % 2)

\* GC_init_size_map
SizeMapInit ==
    /\ GC_size_map = [i \in 0 .. MAXOBJBYTES |->
                        CASE i = 0 -> 1
                          [] i \in 1 .. (TINY_FREELISTS - 1) * GRANULE_BYTES - EXTRA_BYTES_ -> ALLOC_REQUEST_GRANS(i)
                          [] OTHER -> 0]
    /\ extended = <<0, 0>>

\* A mutant: the extra byte is forgotten.
SectionEndFull(lg) == lg * GRANULE_BYTES

\* The largest request for which lg granules are enough.
SectionEnd(lg) == lg * GRANULE_BYTES - EXTRA_BYTES_

\* The first empty entry at or above.
LowLimit(i, from) == Min({j \in from .. MAXOBJBYTES : GC_size_map[j] = 0})

\* GC_extend_size_map, which GC_generic_malloc_inner_small calls for a request
\* whose entry is empty.
GC_extend_size_map(i) ==
    LET original_lg == ALLOC_REQUEST_GRANS(i)
        byte_sz == original_lg * GRANULE_BYTES
        smaller_than_i == byte_sz - (byte_sz \div 8)
        near == GC_size_map[smaller_than_i] # 0
        low_limit == LowLimit(i, IF near THEN smaller_than_i + 1 ELSE byte_sz - (byte_sz \div 4))
        low_lg == ALLOC_REQUEST_GRANS(low_limit)
        lg == IF near THEN Max({low_lg + (low_lg \div 8), original_lg}) ELSE original_lg
        even == Min({EvenUp(lg), MAXOBJGRANULES})
        number_of_objs == HBLK_GRANULES \div even
        final == EvenDown(HBLK_GRANULES \div number_of_objs)
    IN  /\ GC_size_map[i] = 0 /\ extended[2] < MaxExtensions
        /\ GC_size_map' = [j \in low_limit .. SectionEnd(final) |-> final] @@ GC_size_map
        /\ extended' = <<i, extended[2] + 1>>

SizeMapNext == \E i \in SmallSizes : GC_extend_size_map(i)
SizeMapSpec == SizeMapInit /\ [][SizeMapNext]_sizeMapVars

SizeMapTypeOK == GC_size_map \in [0 .. MAXOBJBYTES -> 0 .. MAXOBJGRANULES]

(***************************************************************************)
(* Properties.                                                             *)
(***************************************************************************)
\* In whatever order requests arrive, an entry that is filled is large enough
\* for its requests and for the extra byte, and the entry a section was added
\* for is filled ("GC_size_map[i] >= granules(i)", misc.c; the assertion
\* lg != 0 in GC_generic_malloc_inner_small).
EntriesLargeEnough ==
    /\ \A i \in SmallSizes : GC_size_map[i] # 0 => GC_size_map[i] >= ALLOC_REQUEST_GRANS(i)
    /\ GC_size_map[extended[1]] # 0

\* The filled entries below the end of a section are at least a quarter of
\* all entries up to there, whatever the order of the requests ("a filled in
\* section of the array ending at n always has the length of at least n / 4",
\* GC_extend_size_map).
SectionsLong ==
    \A n \in 0 .. MAXOBJBYTES - 1 :
        GC_size_map[n] # 0 /\ GC_size_map[n + 1] = 0 =>
            \A j \in n - (n \div 4) + 1 .. n : GC_size_map[j] # 0
==============================================================================
