------------------------------- MODULE Realloc -------------------------------
(***************************************************************************)
(* The sizes of objects over their lives: allocation, GC_realloc,          *)
(* GC_realloc_no_shrink and GC_reallocf, deallocation (malloc.c, mallocx.c *)
(* and the fields setup_header of allchblk.c sets).  GC_realloc takes no   *)
(* lock: it stores the size and then the descriptor of a large object      *)
(* while the collector may read them.                                      *)
(*                                                                         *)
(* Of the contents of an object the model keeps how many leading bytes     *)
(* hold what the client wrote (good), how many the client relies on (want, *)
(* which no code reads) and the end of what may be other than zero         *)
(* (dirtyTo).                                                              *)
(***************************************************************************)
EXTENDS Integers, FiniteSets, FiniteSetsExt, TLC

CONSTANTS
    Slot,           \* where objects are
    HBLKSIZE_B, GRANULE_B, EXTRA_B, ALIGN_B,  \* HBLKSIZE, GC_GRANULE_BYTES, EXTRA_BYTES, ALIGNMENT
    ReqSizes        \* sizes clients ask for

MAXOBJ_B == HBLKSIZE_B \div 2
Kinds_ == {"PTRFREE", "NORMAL", "UNCOLLECTABLE"}

\* What is assumed of the constants.
ReallocAssumption ==
    /\ {HBLKSIZE_B, GRANULE_B, ALIGN_B} \subseteq Nat \ {0}
    /\ EXTRA_B \in {0, 1} /\ ReqSizes \subseteq Nat

VARIABLES
    obj,      \* the object in each slot, NoObject
    op,       \* the call of GC_realloc in progress
    twice,    \* an object was freed that was free
    overrun   \* a copy or a clear went past the end of an object

reallocVars == <<obj, op, twice, overrun>>

NoObject == [kind |-> "none"]
NoOp == [at |-> "none"]

Allocated(s) == obj[s] # NoObject
RoundUp(n, to) == ((n + to - 1) \div to) * to
Least(a, b) == Min({a, b})

ReallocInit ==
    /\ obj = [s \in Slot |-> NoObject] /\ op = NoOp /\ twice = FALSE /\ overrun = FALSE

(***************************************************************************)
(* Allocation.                                                             *)
(***************************************************************************)
\* The length the collector scans of an object: ok_descriptor of the kind,
\* with the size added.
Descr(kind, ignore, sz) ==
    CASE kind = "PTRFREE" -> 0
      [] kind = "NORMAL" /\ EXTRA_B # 0 /\ ~ignore -> sz - ALIGN_B
      [] OTHER -> sz

\* setup_header
Header(kind, ignore, sz) ==
    [kind |-> kind, ignore |-> ignore, sz |-> sz, descr |-> Descr(kind, ignore /\ sz >= HBLKSIZE_B, sz)]

\* An uncollectable object needs no extra byte.
Asked(kind, lb) == IF kind = "UNCOLLECTABLE" /\ EXTRA_B # 0 /\ lb # 0 THEN lb - 1 ELSE lb

\* The sizes an object for the request may get: any large enough for a small
\* one (SizeMap), the rounded size for a large one.
SizesFor(a, ignore) ==
    IF a <= MAXOBJ_B - EXTRA_B
    THEN {n \in 1 .. MAXOBJ_B : n % GRANULE_B = 0 /\ n >= a + EXTRA_B /\ n <= 2 * RoundUp(Max({a + EXTRA_B, 1}), GRANULE_B)}
    ELSE {RoundUp(IF ignore /\ a >= HBLKSIZE_B THEN a ELSE a + EXTRA_B, GRANULE_B)}

\* All of a large object's blocks.
Capacity(sz) == IF sz > MAXOBJ_B THEN RoundUp(sz, HBLKSIZE_B) ELSE sz

\* GC_generic_malloc_aligned and its callers: the objects a request may get.
\* All but the pointer-free ones are clear, large ones up to the end of the
\* last block.
NewObjects(lb, kind, ignore) ==
    {Header(kind, ignore, sz) @@ [cap |-> Capacity(sz), lb |-> lb, good |-> 0, want |-> 0,
                                  dirtyTo |-> IF kind = "PTRFREE" THEN Capacity(sz) ELSE 0] :
        sz \in SizesFor(Asked(kind, lb), ignore)}

GC_malloc_kind(s, lb, kind, ignore) ==
    /\ op = NoOp /\ ~Allocated(s) /\ (ignore => kind # "UNCOLLECTABLE")
    /\ \E o \in NewObjects(lb, kind, ignore) : obj' = [obj EXCEPT ![s] = o]
    /\ UNCHANGED <<op, twice, overrun>>

\* The client fills its object.
ClientFills(s) ==
    /\ op = NoOp /\ Allocated(s)
    /\ obj' = [obj EXCEPT ![s].good = obj[s].lb, ![s].want = obj[s].lb,
                          ![s].dirtyTo = Max({obj[s].dirtyTo, obj[s].lb})]
    /\ UNCHANGED <<op, twice, overrun>>

\* GC_free of the object, in a heap os where it may be free already.
Freed(os, s) == [os EXCEPT ![s] = NoObject]

GC_free(s) ==
    /\ op = NoOp /\ Allocated(s)
    /\ obj' = Freed(obj, s) /\ UNCHANGED <<op, twice, overrun>>

(***************************************************************************)
(* GC_realloc; how is "realloc", "no_shrink" or "reallocf".                *)
(***************************************************************************)
\* GC_reallocf frees the object when GC_realloc returns NULL.
ReturnsNull(os, s, how) ==
    /\ obj' = IF how = "reallocf" THEN Freed(os, s) ELSE os
    /\ twice' = (twice \/ (how = "reallocf" /\ os[s] = NoObject))
    /\ op' = NoOp

ReallocToZero(s, how) ==
    /\ op = NoOp /\ Allocated(s)
    /\ ReturnsNull(Freed(obj, s), s, how) /\ UNCHANGED overrun

\* The size of a large object becomes that of its blocks; the descriptor is
\* stored after it.
ReallocBegins(s, lb, how) ==
    LET large == obj[s].sz > MAXOBJ_B
        sz == IF large THEN RoundUp(obj[s].sz, HBLKSIZE_B) ELSE obj[s].sz
    IN  /\ op = NoOp /\ Allocated(s) /\ lb # 0
        /\ op' = [at |-> IF large THEN "descr" ELSE "fit", s |-> s, lb |-> lb, sz |-> sz,
                  orig_sz |-> obj[s].sz, how |-> how]
        /\ obj' = [obj EXCEPT ![s].sz = sz]
        /\ UNCHANGED <<twice, overrun>>

\* A large object of at least a block.
NewDescr(o, sz) == Descr(o.kind, o.ignore, sz)

ReallocDescr ==
    /\ op.at = "descr"
    /\ obj' = [obj EXCEPT ![op.s].descr = NewDescr(obj[op.s], op.sz)]
    /\ op' = [op EXCEPT !.at = "fit"] /\ UNCHANGED <<twice, overrun>>

FitsIn(lb, sz) == lb + EXTRA_B <= sz

StaysInPlace == FitsIn(op.lb, op.sz) /\ (op.how = "no_shrink" \/ op.lb >= op.sz \div 2)

\* The end of what may be other than zero after [lb, orig_sz) is cleared.
ClearedTail(o) ==
    IF op.orig_sz > op.lb /\ o.dirtyTo <= op.orig_sz THEN Least(o.dirtyTo, op.lb) ELSE o.dirtyTo

ReallocInPlace ==
    /\ op.at = "fit" /\ StaysInPlace
    /\ LET o == obj[op.s]
       IN  obj' = [obj EXCEPT ![op.s] = [o EXCEPT !.lb = op.lb, !.want = Least(o.want, op.lb),
                                                  !.good = Least(o.good, op.lb), !.dirtyTo = ClearedTail(o)]]
    /\ overrun' = (overrun \/ op.orig_sz > obj[op.s].cap)
    /\ op' = NoOp /\ UNCHANGED twice

\* A mutant: a smaller object gets all the bytes of the larger.
CopySizeAll(lb, sz) == sz

\* How much is copied into the new object.
CopySize(lb, sz) == IF FitsIn(lb, sz) THEN lb ELSE sz

\* GC_generic_or_special_malloc, the copy, and GC_free of the old object.
ReallocMoves(q) ==
    LET o == obj[op.s]
        n == CopySize(op.lb, op.sz)
    IN  /\ op.at = "fit" /\ ~StaysInPlace /\ ~Allocated(q)
        /\ \E new \in NewObjects(op.lb, o.kind, FALSE) :
            /\ obj' = Freed([obj EXCEPT ![q] = [new EXCEPT !.want = Least(o.want, op.lb), !.good = Least(o.good, n),
                                                  !.dirtyTo = Max({@, Least(o.dirtyTo, n)})]], op.s)
            /\ overrun' = (overrun \/ n > new.cap \/ n > o.cap)
        /\ op' = NoOp /\ UNCHANGED twice

\* The allocation fails and the out-of-memory function returns NULL.
ReallocFails ==
    /\ op.at = "fit" /\ ~StaysInPlace
    /\ ReturnsNull(obj, op.s, op.how) /\ UNCHANGED overrun

\* Bound: a client has one object; the other slots are for where it moves.
ReallocNext ==
    \/ \E s \in Slot : \/ /\ obj = [q \in Slot |-> NoObject]
                          /\ \E lb \in ReqSizes, kind \in Kinds_, ignore \in BOOLEAN :
                               GC_malloc_kind(s, lb, kind, ignore)
                       \/ ClientFills(s) \/ GC_free(s) \/ ReallocMoves(s)
                       \/ \E how \in {"realloc", "no_shrink", "reallocf"} :
                            ReallocToZero(s, how) \/ \E lb \in ReqSizes : ReallocBegins(s, lb, how)
    \/ ReallocDescr \/ ReallocInPlace \/ ReallocFails
ReallocSpec == ReallocInit /\ [][ReallocNext]_reallocVars

ReallocTypeOK ==
    /\ \A s \in Slot : Allocated(s) => /\ obj[s].kind \in Kinds_ /\ obj[s].sz \in 1 .. obj[s].cap
                                       /\ {obj[s].lb, obj[s].good, obj[s].want, obj[s].dirtyTo} \subseteq Nat
    /\ op.at \in {"none", "descr", "fit"} /\ twice \in BOOLEAN /\ overrun \in BOOLEAN

(***************************************************************************)
(* Properties.                                                             *)
(***************************************************************************)
\* What the client wrote into an object is there after any sequence of
\* reallocations, up to the smallest size it had since, and neither the copy
\* nor the clearing leaves the object ("It does not change the contents of the
\* object from its beginning to the minimum of old size and
\* new_size_in_bytes", gc.h).
ContentsKept == ~overrun /\ \A s \in Slot : Allocated(s) => obj[s].good >= obj[s].want

\* Behind the bytes asked for, an object that is scanned holds zeros: no
\* pointer of an earlier, larger use is found there, and growing shows zeros
\* ("the contents above in case of object size growth is initialized to
\* zero", gc.h).
ClearBeyond == \A s \in Slot : Allocated(s) /\ obj[s].kind # "PTRFREE" => obj[s].dirtyTo <= obj[s].lb

\* At every moment the collector may look, also between the two stores of
\* GC_realloc, an object has room for what was asked for and for the extra
\* byte, and its descriptor covers each whole pointer of the request and
\* stays inside the object.
DescriptorCovers ==
    \A s \in Slot : Allocated(s) =>
        LET o == obj[s]
        IN  /\ Asked(o.kind, o.lb) + (IF o.ignore THEN 0 ELSE EXTRA_B) <= o.sz
            /\ o.kind # "PTRFREE" => o.descr <= o.cap /\ ALIGN_B * (o.lb \div ALIGN_B) <= o.descr

\* No object is freed twice ("If new_size_in_bytes is zero (and old_object is
\* non-NULL), then the call is equivalent to GC_free", gc.h; "Duplicate large
\* block deallocation", allchblk.c).
FreedOnce == ~twice
==============================================================================
