-------------------------------- MODULE Typed --------------------------------
(***************************************************************************)
(* Allocation with explicit type information (typd_mlc.c): the descriptors *)
(* a client's bitmap of pointer words becomes, the table of long bitmaps   *)
(* that threads extend concurrently, the descriptors of arrays, and what   *)
(* the mark procedures make of each.                                       *)
(*                                                                         *)
(* A bitmap is the set of the words that hold pointers.  Object sizes and  *)
(* offsets are in pointer-sized words.                                     *)
(***************************************************************************)
EXTENDS Integers, Sequences, SequencesExt, FiniteSets, FiniteSetsExt

CONSTANTS
    DThr,               \* client threads
    Bitmaps,            \* what clients pass to GC_make_descriptor: <<set, length>>
    CPP_WORDSZ_, TAG_BITS, PtrBytes,
    ED_INITIAL_SIZE, MAX_ENV,
    OPT_THRESHOLD,
    ArrayLens, ElemSizes, \* arguments of GC_calloc_explicitly_typed
    LeafWords,          \* words of a LeafDescriptor
    GranuleWords, ExtraWords, \* rounding of object sizes, EXTRA_BYTES
    Rooms,              \* free entries of the mark stack
    CompBitmaps,        \* what clients pass for compressed objects
    MaxDescr            \* bound: descriptors made by a client thread

BITMAP_BITS == CPP_WORDSZ_ - TAG_BITS

\* OPT_THRESHOLD is 50 in the code; the halved array must have two elements.
\* What is assumed of the constants.
TypedAssumption ==
    /\ {CPP_WORDSZ_, PtrBytes, ED_INITIAL_SIZE, LeafWords, GranuleWords} \subseteq Nat \ {0}
    /\ OPT_THRESHOLD >= 3 /\ BITMAP_BITS > 0
    /\ ArrayLens \subseteq Nat /\ ElemSizes \subseteq Nat

VARIABLES
    GC_ed_size, GC_avail_descr, GC_ext_descriptors,
    making,   \* what a thread is adding to the table, outside the lock
    made,     \* the descriptors made, with the bitmaps they stand for
    array,    \* the last typed array, and what marking it pushed
    comp      \* the last compressed object, and what marking it pushed

edVars == <<GC_ed_size, GC_avail_descr, GC_ext_descriptors>>
typedVars == <<edVars, making, made, array, comp>>

Len_(n) == [tag |-> "length", n |-> n]
Bits(s) == [tag |-> "bitmap", bits |-> s]
ProcDescr(env) == [tag |-> "proc", env |-> env]
NotMaking == [bm |-> {}, nbits |-> 0, ed_size |-> -1]
NoArray == [n |-> 0]

\* The words of a bitmap below its length.
Pointers(b) == {i \in b[1] : i < b[2]}
Nwords(nbits) == (nbits + CPP_WORDSZ_ - 1) \div CPP_WORDSZ_

TypedInit ==
    /\ GC_ed_size = 0 /\ GC_avail_descr = 0 /\ GC_ext_descriptors = <<>>
    /\ making = [t \in DThr |-> NotMaking] /\ made = [t \in DThr |-> <<>>]
    /\ array = NoArray /\ comp = NoArray

(***************************************************************************)
(* GC_add_ext_descriptor.  The table is a sequence; entry env of the code  *)
(* is entry env + 1 here.                                                  *)
(***************************************************************************)
\* The entries for a bitmap of nbits bits.
ExtEntries(bm, nbits) ==
    [k \in 1 .. Nwords(nbits) |->
        [ed_bitmap |-> {i - (k - 1) * CPP_WORDSZ_ : i \in
                        {j \in bm : j < nbits /\ j \div CPP_WORDSZ_ = k - 1}},
         ed_continued |-> k < Nwords(nbits)]]

Done(t, bm, d) == made' = [made EXCEPT ![t] = Append(@, [bm |-> bm, d |-> d])]

Fits(avail, nwords, size) == avail + nwords < size

\* With the lock held: write the entries, or release the lock to grow.
WriteOrGrow(t, bm, nbits, size, ext) ==
    IF Fits(GC_avail_descr, Nwords(nbits), size)
    THEN /\ GC_ext_descriptors' = SubSeq(ext, 1, GC_avail_descr) \o ExtEntries(bm, nbits)
         /\ GC_avail_descr' = GC_avail_descr + Nwords(nbits)
         /\ Done(t, {i \in bm : i < nbits}, ProcDescr(GC_avail_descr))
         /\ making' = [making EXCEPT ![t] = NotMaking]
    ELSE /\ GC_ext_descriptors' = ext
         /\ making' = [making EXCEPT ![t] = [bm |-> bm, nbits |-> nbits, ed_size |-> size]]
         /\ UNCHANGED <<GC_avail_descr, made>>

NewEdSize(size) == IF size = 0 THEN ED_INITIAL_SIZE ELSE 2 * size

\* No room for the table, or an index could exceed MAX_ENV: the descriptor
\* is the length up to the last pointer.
AddExtFails(t) ==
    /\ making[t].ed_size # -1
    /\ Done(t, 0 .. making[t].nbits - 1, Len_(making[t].nbits))
    /\ making' = [making EXCEPT ![t] = NotMaking]
    /\ UNCHANGED <<edVars, array, comp>>

\* A mutant: the old entries are not copied.
CopyTableNot(ext) == [k \in 1 .. GC_avail_descr |-> [ed_bitmap |-> {}, ed_continued |-> FALSE]]

CopyTable(ext) == SubSeq(ext, 1, GC_avail_descr)

\* Back under the lock with a new table.
AddExtGrows(t) ==
    LET old == making[t].ed_size
        \* unless another thread replaced the table meanwhile
        install == old = GC_ed_size
        ext == IF install THEN CopyTable(GC_ext_descriptors) ELSE GC_ext_descriptors
        size == IF install THEN NewEdSize(old) ELSE GC_ed_size
    IN  /\ old # -1 /\ (old # 0 => NewEdSize(old) <= MAX_ENV)
        /\ GC_ed_size' = size
        /\ WriteOrGrow(t, making[t].bm, making[t].nbits, size, ext)
        /\ UNCHANGED <<array, comp>>

GC_make_descriptor(t, b) ==
    LET last == IF Pointers(b) = {} THEN -1 ELSE Max(Pointers(b))
        \* short: no pointers, all pointers, or a bitmap in the descriptor
        short == CASE last < 0 -> Len_(0)
                   [] last >= 0 /\ 0 .. last \subseteq b[1] -> Len_(last + 1)
                   [] OTHER -> Bits(Pointers(b))
    IN  /\ making[t] = NotMaking /\ Len(made[t]) < MaxDescr
        /\ IF short.tag = "length" \/ last < BITMAP_BITS
           THEN Done(t, Pointers(b), short) /\ UNCHANGED <<edVars, making>>
           ELSE WriteOrGrow(t, b[1], last + 1, GC_ed_size, GC_ext_descriptors) /\ UNCHANGED GC_ed_size
        /\ UNCHANGED <<array, comp>>

(***************************************************************************)
(* Marking: the words an entry <<start, descriptor>> of the mark stack     *)
(* makes the marker look at (GC_typed_mark_proc pushes the rest of a       *)
(* continued bitmap).                                                      *)
(***************************************************************************)
RECURSIVE GC_typed_mark_proc(_, _)
GC_typed_mark_proc(start, env) ==
    LET e == GC_ext_descriptors[env + 1]
    IN  {start + i : i \in e.ed_bitmap}
        \cup IF e.ed_continued THEN GC_typed_mark_proc(start + CPP_WORDSZ_, env + 1) ELSE {}

Looks(start, d) ==
    CASE d.tag = "length" -> start .. start + d.n - 1
      [] d.tag = "bitmap" -> {start + i : i \in d.bits}
      [] d.tag = "proc" -> GC_typed_mark_proc(start, d.env)

(***************************************************************************)
(* Arrays.  mem is how many more small objects can be allocated; the       *)
(* result of GC_make_array_descriptor carries what is left.                *)
(***************************************************************************)
\* A bit moved into the tag would spoil it.
GC_double_descr(d, lpw) ==
    LET bits == IF d.tag = "length" THEN 0 .. d.n - 1 ELSE d.bits
        moved == {i + lpw : i \in bits}
    IN  IF bits \cup moved \subseteq 0 .. BITMAP_BITS - 1 THEN Bits(bits \cup moved)
        ELSE [tag |-> "spoilt"]

Simple(d, mem) == [type |-> "SIMPLE", d |-> d, mem |-> mem]
Leaf(size, n, d) == [tag |-> "leaf", ld_size |-> size, ld_nelements |-> n, ld_descriptor |-> d]
NoMem == [type |-> "NO_MEM", mem |-> 0]

\* GC_make_sequence_descriptor of what describes the even part and one more
\* element; both leaves are allocated unless the first is there already.
Combine(r, size, d) ==
    LET need == IF r.type = "COMPLEX" THEN 2 ELSE 3
        beginning == CASE r.type = "COMPLEX" -> r.complex
                       [] r.type = "SIMPLE" -> Leaf(size, 1, r.d)
                       [] r.type = "LEAF" -> r.leaf
    IN  IF r.mem < need THEN NoMem
        ELSE [type |-> "COMPLEX", mem |-> r.mem - need,
              complex |-> [tag |-> "sequence", sd_first |-> beginning, sd_second |-> Leaf(size, 1, d)]]

RECURSIVE GC_make_array_descriptor(_, _, _, _)
GC_make_array_descriptor(n, size, d, mem) ==
    CASE d = Len_(size) -> Simple(Len_(n * size), mem)
      [] d = Len_(0) -> Simple(d, mem)
      [] d # Len_(size) /\ d # Len_(0) /\ n <= 1 -> Simple(IF n = 1 THEN d ELSE Len_(0), mem)
      [] d # Len_(size) /\ d # Len_(0) /\ n > OPT_THRESHOLD
         /\ size * PtrBytes <= BITMAP_BITS \div 2 /\ d.tag # "proc" ->
            LET r == GC_make_array_descriptor(n \div 2, 2 * size, GC_double_descr(d, size), mem)
            IN  IF n % 2 = 0 \/ r.type = "NO_MEM" THEN r ELSE Combine(r, size, d)
      [] OTHER -> [type |-> "LEAF", leaf |-> Leaf(size, n, d), mem |-> mem]

\* What GC_calloc_prepare_explicitly_typed adds to the size of the elements.
ArrayWords(type, words) ==
    CASE type = "SIMPLE" -> words + 1
      [] type = "LEAF" -> words + LeafWords + 1
      [] type = "COMPLEX" -> words + 1

\* GC_malloc_kind: the size of the object given.
ObjWords(w) == ((w + GranuleWords - 1) \div GranuleWords) * GranuleWords

\* GC_calloc_prepare_explicitly_typed and GC_calloc_do_explicitly_typed, which
\* ends in the out-of-memory function when a descriptor cannot be allocated.
GC_calloc_explicitly_typed(nArg, lbArg, m, mem) ==
    LET none == nArg = 0 \/ lbArg = 0
        n == IF none THEN 1 ELSE nArg
        lb == IF none THEN 1 ELSE lbArg
        r == GC_make_array_descriptor(n, lb, m.d, mem)
        extra == IF r.type = "SIMPLE" THEN ExtraWords ELSE 0
        size == ObjWords(ArrayWords(r.type, n * lb) + extra)
    IN  /\ m.bm \subseteq 0 .. lb - 1 /\ (m.d.tag = "length" => m.d.n <= lb)
        /\ r.type # "NO_MEM"
        /\ array' = [n |-> n, lb |-> lb, bm |-> m.bm, r |-> r, size |-> size,
                     \* where the leaf descriptor starts, or the last word
                     descrAt |-> IF r.type = "LEAF" THEN size - 1 - LeafWords ELSE size - 1,
                     pushed |-> <<>>]
        /\ UNCHANGED <<edVars, making, made, comp>>

RECURSIVE GC_descr_obj_size(_)
GC_descr_obj_size(c) ==
    IF c.tag = "leaf" THEN c.ld_nelements * c.ld_size
    ELSE GC_descr_obj_size(c.sd_first) + GC_descr_obj_size(c.sd_second)

\* The entries pushed, or the mark stack has no room for them.
RECURSIVE GC_push_complex_descriptor(_, _, _)
GC_push_complex_descriptor(current, c, room) ==
    IF c.tag = "leaf"
    THEN IF room <= c.ld_nelements THEN [fits |-> FALSE]
         ELSE [fits |-> TRUE, es |-> [k \in 1 .. c.ld_nelements |->
                                        <<current + (k - 1) * c.ld_size, c.ld_descriptor>>]]
    ELSE LET a == GC_push_complex_descriptor(current, c.sd_first, room)
             b == GC_push_complex_descriptor(current + GC_descr_obj_size(c.sd_first), c.sd_second,
                                             room - Len(a.es))
         IN  IF ~a.fits THEN a ELSE IF ~b.fits THEN b ELSE [fits |-> TRUE, es |-> a.es \o b.es]

GC_array_mark_proc(a, room) ==
    LET p == GC_push_complex_descriptor(0, IF a.r.type = "LEAF" THEN a.r.leaf ELSE a.r.complex, room - 1)
    IN  IF p.fits THEN Append(p.es, <<a.size - 1, Len_(1)>>) ELSE <<<<0, Len_(a.size)>>>>

\* The array is marked, with so much room on the mark stack.  An array with a
\* simple descriptor has it in the last word of the object.
MarkArray(room) ==
    /\ array # NoArray /\ array.pushed = <<>>
    /\ array' = [array EXCEPT !.pushed = IF array.r.type = "SIMPLE" THEN <<<<0, array.r.d>>>>
                                         ELSE GC_array_mark_proc(array, room)]
    /\ UNCHANGED <<edVars, making, made, comp>>

(***************************************************************************)
(* Compressed objects: four-byte slots, of which the bitmap says which     *)
(* hold references.  A client's bitmap is whole words; bits at or above    *)
(* slots mean nothing.  A slot holds nothing, a reference, an odd value,   *)
(* or, in the tagged slot, a reference with tag bits.                      *)
(***************************************************************************)
Contents == {"null", "ref", "odd", "tagged"}

GC_make_compressed_bitmap_descriptor(b, objSlots, tagged, content) ==
    /\ b[2] <= objSlots
    /\ (tagged = -1 \/ (tagged < b[2] /\ tagged \in b[1]))
    /\ comp' = [n |-> 1, bits |-> b[1], slots |-> b[2], tagged_slot |-> tagged,
                content |-> content, pushed |-> {}, marked |-> FALSE]
    /\ UNCHANGED <<edVars, making, made, array>>

InSlots(c, s) == s < c.slots

\* A tagged reference is a reference once the tag is cleared.
IsReference(c, s) == c.content[s] = "ref" \/ (c.content[s] = "tagged" /\ s = c.tagged_slot)

GC_mark_compressed_bitmap_multi ==
    /\ comp # NoArray /\ ~comp.marked
    /\ comp' = [comp EXCEPT !.marked = TRUE,
                            !.pushed = {s \in comp.bits : InSlots(comp, s) /\ IsReference(comp, s)}]
    /\ UNCHANGED <<edVars, making, made, array>>

\* Bound: an array is of the only descriptor made, and none is made after it.
OnlyDescr(t) ==
    /\ making = [u \in DThr |-> NotMaking] /\ array = NoArray /\ comp = NoArray
    /\ Len(made[t]) = 1 /\ \A u \in DThr \ {t} : made[u] = <<>>

TypedNext ==
    \/ \E t \in DThr : \/ /\ array = NoArray /\ comp = NoArray
                          /\ \E b \in Bitmaps : GC_make_descriptor(t, b)
                       \/ AddExtFails(t) \/ AddExtGrows(t)
    \/ \E t \in DThr :
          /\ OnlyDescr(t)
          /\ \E n \in ArrayLens, lb \in ElemSizes, mem \in {0, 2, 9} :
                GC_calloc_explicitly_typed(n, lb, made[t][1], mem)
    \/ \E room \in Rooms : MarkArray(room)
    \/ /\ comp = NoArray /\ made = [t \in DThr |-> <<>>] /\ array = NoArray
       /\ \E b \in CompBitmaps, tagged \in -1 .. 2, objSlots \in {2, 3}, content \in [0 .. 3 -> Contents] :
             /\ \A s \in 0 .. 3 : content[s] = "tagged" => s = tagged
             /\ GC_make_compressed_bitmap_descriptor(b, objSlots, tagged, content)
    \/ GC_mark_compressed_bitmap_multi
TypedSpec == TypedInit /\ [][TypedNext]_typedVars

TypedTypeOK ==
    /\ GC_ed_size \in 0 .. MAX_ENV \cup {ED_INITIAL_SIZE} /\ GC_avail_descr \in 0 .. GC_ed_size
    /\ Len(GC_ext_descriptors) <= GC_ed_size
    /\ \A t \in DThr : making[t].ed_size \in -1 .. GC_ed_size /\ Len(made[t]) <= MaxDescr

(***************************************************************************)
(* Properties.                                                             *)
(***************************************************************************)
\* A descriptor makes the marker look at exactly the words of the bitmap it
\* was made from (all words up to the last pointer, when there was no memory
\* for it), whatever the other threads add to the table of long bitmaps and
\* however often they replace the table: GC_make_descriptor,
\* GC_add_ext_descriptor, GC_typed_mark_proc.
DescriptorExact ==
    \A t \in DThr : \A k \in DOMAIN made[t] : Looks(0, made[t][k].d) = made[t][k].bm

\* Marking a typed array looks at the pointer words of each of its elements
\* and at the word that refers to the descriptor, and at nothing else; only
\* when the mark stack has no room it looks at the whole object
\* (GC_make_array_descriptor, GC_push_complex_descriptor, GC_array_mark_proc).
ArrayExact ==
    array # NoArray /\ array.pushed # <<>> =>
        LET looks == UNION {Looks(e[1], e[2]) : e \in ToSet(array.pushed)}
            elements == {k * array.lb + i : k \in 0 .. array.n - 1, i \in array.bm}
        IN  \/ looks \ {array.size - 1} = elements /\ (array.r.type # "SIMPLE" => array.size - 1 \in looks)
            \/ looks = 0 .. array.size - 1 /\ array.r.type # "SIMPLE"

\* The descriptor kept at the end of an array lies behind its elements
\* (GC_calloc_prepare_explicitly_typed, GC_calloc_do_explicitly_typed).
DescriptorBehindElements == array # NoArray => array.descrAt >= array.n * array.lb

\* Marking a compressed object pushes the references its slots hold and
\* nothing else, whatever is in the bitmap's last word above the last slot
\* (GC_mark_compressed_bitmap_multi).
CompressedExact ==
    comp # NoArray /\ comp.marked =>
        comp.pushed = {s \in 0 .. comp.slots - 1 : s \in comp.bits /\ comp.content[s] \in {"ref", "tagged"}}
==============================================================================
