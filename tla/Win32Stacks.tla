---------------------------- MODULE Win32Stacks ----------------------------
(***************************************************************************)
(* Finding the live part of a Windows thread stack.  The system commits    *)
(* the pages of a stack from its high end down, with a guard page below;   *)
(* GC_push_stack_for and GC_get_next_stack find the lowest committed page  *)
(* by probing pages with VirtualQuery, starting from what they remember:   *)
(* last_stack_min of a thread, and the stackCache of the last query, which *)
(* outlives a collection and the stacks it was made for.                   *)
(*                                                                         *)
(* An address is a number; the collector's pointers are even, so that      *)
(* bottom - 1 (which is queried too) is none of them.                      *)
(***************************************************************************)
EXTENDS Naturals, FiniteSetsExt

CONSTANTS
    StackAt,      \* StackAt[r] = <<lo, hi>>: the address range of stack r
    PageSz,       \* an even number
    OtherRW,      \* pages of other writable memory, by their addresses
    ADDR_LIMIT    \* greater than all addresses

Stack == DOMAIN StackAt
Lo(r) == StackAt[r][1]
Hi(r) == StackAt[r][2]

\* What is assumed of the constants.
Win32StacksAssumption ==
    /\ PageSz \in Nat /\ PageSz > 0 /\ PageSz % 2 = 0
    /\ \A r \in Stack : Lo(r) % PageSz = 0 /\ Hi(r) % PageSz = 0 /\ Lo(r) >= PageSz
                        /\ Lo(r) + 2 * PageSz <= Hi(r) /\ Hi(r) < ADDR_LIMIT

VARIABLES
    live,            \* stacks of registered threads
    committed,       \* lowest committed address of a stack
    sp,
    traced_sect,     \* traced_stack_sect of a thread, 0 for NULL
    last_stack_min,
    stackCache,           \* last_address, and what last_info says of it
    seen             \* what the last call of the collector found

win32StackVars == <<live, committed, sp, traced_sect, last_stack_min, stackCache, seen>>

Aligned(lo, hi) == {a \in lo .. hi : a % 2 = 0}
PageBase(a) == a - (a % PageSz)
Nothing == [r |-> 0, lo |-> 0]

Win32StacksTypeOK ==
    /\ live \subseteq Stack
    /\ \A r \in Stack : /\ committed[r] \in Lo(r) + PageSz .. Hi(r)
                        /\ sp[r] \in Lo(r) .. Hi(r) /\ traced_sect[r] \in 0 .. Hi(r)
                        /\ last_stack_min[r] \in 0 .. ADDR_LIMIT
    /\ stackCache \in [addr : 0 .. ADDR_LIMIT, base : 0 .. ADDR_LIMIT, rw : BOOLEAN]
    /\ seen = Nothing \/ (seen.r \in Stack /\ seen.lo \in 0 .. ADDR_LIMIT)

Win32StacksInit ==
    /\ live = {} /\ committed = [r \in Stack |-> Hi(r)] /\ sp = [r \in Stack |-> Hi(r)]
    /\ traced_sect = [r \in Stack |-> 0]
    /\ last_stack_min = [r \in Stack |-> ADDR_LIMIT]
    /\ stackCache = [addr |-> 0, base |-> 0, rw |-> FALSE] /\ seen = Nothing

\* External: a page is readable and writable, and no guard page.
ReadWrite(a) ==
    \/ \E r \in live : committed[r] <= a /\ a < Hi(r)
    \/ PageBase(a) \in OtherRW

\* External: VirtualQuery describes the page of an address.
VirtualQuery(a) == [addr |-> a, base |-> PageBase(a), rw |-> ReadWrite(a)]

-----------------------------------------------------------------------------
(* The threads.                                                            *)

\* GC_register_my_thread_inner, with one page committed.
StackRegisters(r) ==
    /\ r \notin live /\ live' = live \union {r}
    /\ committed' = [committed EXCEPT ![r] = Hi(r) - PageSz]
    /\ sp' = [sp EXCEPT ![r] = Hi(r) - 2]
    /\ traced_sect' = [traced_sect EXCEPT ![r] = 0]
    /\ last_stack_min' = [last_stack_min EXCEPT ![r] = ADDR_LIMIT]
    /\ seen' = Nothing /\ UNCHANGED stackCache

\* The thread is gone, and so is the memory of its stack.
StackGoes(r) ==
    /\ r \in live /\ live' = live \ {r}
    /\ committed' = [committed EXCEPT ![r] = Hi(r)] /\ sp' = [sp EXCEPT ![r] = Hi(r)]
    /\ traced_sect' = [traced_sect EXCEPT ![r] = 0]
    /\ seen' = Nothing /\ UNCHANGED <<last_stack_min, stackCache>>

\* Calls and returns move the stack pointer.  The page it points to may not
\* have been touched yet; the lowest page is never committed.
MoveSp(r, a) ==
    /\ r \in live /\ a # sp[r] /\ (traced_sect[r] = 0 \/ a < traced_sect[r])
    /\ sp' = [sp EXCEPT ![r] = a]
    /\ \E c \in {committed[r]} \union {PageBase(a), PageBase(a) + PageSz} :
          /\ a >= committed[r] => c = committed[r]
          /\ a < committed[r] => c \in {PageBase(a), PageBase(a) + PageSz}
          /\ c <= committed[r] /\ c > Lo(r)
          /\ committed' = [committed EXCEPT ![r] = c]
    /\ seen' = Nothing /\ UNCHANGED <<live, traced_sect, last_stack_min, stackCache>>

\* GC_call_with_gc_active and its return.
ToggleActive(r) ==
    /\ r \in live /\ sp[r] >= committed[r]
    /\ traced_sect' = [traced_sect EXCEPT ![r] = IF @ = 0 THEN sp[r] ELSE 0]
    /\ IF traced_sect[r] = 0 THEN sp[r] - 2 >= committed[r] /\ sp' = [sp EXCEPT ![r] = @ - 2]
       ELSE UNCHANGED sp
    /\ seen' = Nothing /\ UNCHANGED <<live, committed, last_stack_min, stackCache>>

\* GC_set_stackbottom with the same stack: what is remembered is forgotten.
ResetBottom(r) ==
    /\ r \in live /\ last_stack_min[r] # ADDR_LIMIT
    /\ last_stack_min' = [last_stack_min EXCEPT ![r] = ADDR_LIMIT]
    /\ seen' = Nothing /\ UNCHANGED <<live, committed, sp, traced_sect, stackCache>>

-----------------------------------------------------------------------------
(* The probing.                                                            *)

\* The cache after a query of s that it may answer.
Query(s, c) == IF s = c.addr THEN c ELSE VirtualQuery(s)

\* GC_get_stack_min: pages below that of s are probed as long as they are
\* readable and writable.  The result, and the query that ended the probing.
GC_get_stack_min(s, c) ==
    LET first == Query(s, c).base
        Ends == {b \in 1 .. first : b % PageSz = 0 /\ ~ReadWrite(b - 1)}
        bottom == IF first = 0 THEN 0 ELSE Max(Ends)
    IN  [min |-> bottom, stackCache |-> VirtualQuery(bottom - 1)]

\* may_be_in_stack answers from this.
may_be_in_stack(s, c) == Query(s, c).rw

Inside(a, lo, hi) == lo <= a /\ a < hi

\* last_stack_min, lowered to the traced stack section.
KnownMin(r) ==
    IF traced_sect[r] # 0 /\ traced_sect[r] < last_stack_min[r] THEN traced_sect[r]
    ELSE last_stack_min[r]

\* A mutant: the page of last_stack_min is taken for the lowest one.
StackMinStale(r, self) ==
    LET m == KnownMin(r)
    IN  IF last_stack_min[r] = ADDR_LIMIT
        THEN GC_get_stack_min(IF traced_sect[r] # 0 THEN traced_sect[r] ELSE Hi(r), stackCache)
        ELSE [min |-> IF Inside(sp[r], m, Hi(r)) THEN sp[r] ELSE Query(m, stackCache).base,
              stackCache |-> stackCache]

\* The stack_min of GC_push_stack_for, with the cache it leaves.
StackMin(r, self) ==
    LET m == KnownMin(r)
        q == IF self /\ sp[r] < m THEN sp[r] ELSE m
        page == Query(q, stackCache)
    IN  IF last_stack_min[r] = ADDR_LIMIT
        THEN GC_get_stack_min(IF traced_sect[r] # 0 THEN traced_sect[r] ELSE Hi(r), stackCache)
        ELSE IF Inside(sp[r], m, Hi(r)) THEN [min |-> sp[r], stackCache |-> stackCache]
        ELSE IF ~may_be_in_stack(q, stackCache) THEN GC_get_stack_min(Hi(r), page)
        ELSE IF Inside(sp[r], page.base, Hi(r)) THEN [min |-> page.base, stackCache |-> page]
        ELSE GC_get_stack_min(m, page)

\* GC_push_stack_for: pushes from the stack pointer, or everything.
GC_push_stack_for(r, self) ==
    /\ r \in live /\ (self => sp[r] >= committed[r])
    /\ LET found == StackMin(r, self)
       IN  /\ seen' = [r |-> r, lo |-> IF Inside(sp[r], found.min, Hi(r)) THEN sp[r]
                                      ELSE found.min]
           /\ stackCache' = found.stackCache
           /\ last_stack_min' = [last_stack_min EXCEPT ![r] =
                 IF @ # ADDR_LIMIT /\ Inside(sp[r], KnownMin(r), Hi(r)) THEN KnownMin(r)
                 ELSE found.min]
    /\ UNCHANGED <<live, committed, sp, traced_sect>>

Pages == {PageSz * n : n \in 0 .. Max({Hi(r) : r \in Stack}) \div PageSz}

\* GC_register_dynamic_libraries: the writable pages from start up to limit
\* are to become roots, apart from the stacks among them.
Writable(start, limit) ==
    /\ start < limit /\ ~ReadWrite(limit)
    /\ \A a \in Pages : start <= a /\ a < limit => ReadWrite(a)

\* The lowest address of stack r, probed from what is remembered of it.
NextStackMin(r, c) ==
    LET m == last_stack_min[r]
        atMin == IF m = ADDR_LIMIT THEN c ELSE Query(m, c)
    IN  GC_get_stack_min(IF m = ADDR_LIMIT \/ ~atMin.rw THEN Hi(r) ELSE m, atMin)

\* GC_get_next_stack: the lowest stack that ends above start; ADDR_LIMIT if
\* there is none, or if what is at limit cannot be a part of it.
GC_get_next_stack(start, limit) ==
    LET Above == {r \in live : start < Hi(r)}
        r == CHOOSE q \in Above : \A o \in Above : Hi(q) <= Hi(o)
        atLimit == IF limit < Hi(r) THEN Query(limit, stackCache) ELSE stackCache
        found == NextStackMin(r, atLimit)
    IN  /\ Above # {} /\ Writable(start, limit)
        /\ IF limit < Hi(r) /\ ~may_be_in_stack(limit, stackCache)
           THEN /\ seen' = [r |-> r, lo |-> ADDR_LIMIT, limit |-> limit]
                /\ stackCache' = atLimit /\ UNCHANGED last_stack_min
           ELSE /\ seen' = [r |-> r, lo |-> found.min, limit |-> limit]
                /\ stackCache' = found.stackCache
                /\ last_stack_min' = [last_stack_min EXCEPT ![r] = found.min]
        /\ UNCHANGED <<live, committed, sp, traced_sect>>

-----------------------------------------------------------------------------

Win32StacksNext ==
    \/ \E r \in Stack :
          \/ StackRegisters(r) \/ StackGoes(r) \/ ToggleActive(r) \/ ResetBottom(r)
          \/ \E a \in Aligned(Lo(r), Hi(r) - 2) : MoveSp(r, a)
          \/ \E self \in BOOLEAN : GC_push_stack_for(r, self)
    \/ \E start, limit \in Pages : GC_get_next_stack(start, limit)

Win32StacksSpec == Win32StacksInit /\ [][Win32StacksNext]_win32StackVars

-----------------------------------------------------------------------------

\* What GC_push_stack_for pushes is committed memory, never a guard page, and
\* has all that the thread uses of its stack: from the stack pointer up, or
\* from the lowest committed page if the stack pointer is below it.
StackPushedExactly ==
    seen # Nothing /\ "limit" \notin DOMAIN seen =>
        /\ committed[seen.r] <= seen.lo
        /\ seen.lo <= Max({sp[seen.r], committed[seen.r]})

\* GC_get_next_stack finds the lowest committed address of the stack, so that
\* no part of it is registered as a root; a stack is skipped only if it
\* begins above the limit.
NextStackExact ==
    "limit" \in DOMAIN seen =>
        IF seen.lo = ADDR_LIMIT THEN seen.limit <= committed[seen.r]
        ELSE seen.lo = committed[seen.r]
=============================================================================
