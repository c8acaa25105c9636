------------------------------ MODULE Specific ------------------------------
(***************************************************************************)
(* The thread-specific data of the collector (specific.c, specific.h): a   *)
(* hash table by thread id, and a cache by "quick thread id", the page of  *)
(* the stack the thread happens to be on.  Readers take no lock.  All      *)
(* threads fall into one bucket.  Thread ids and stack pages are recycled; *)
(* an entry is recycled once nothing points to it (it is collected).       *)
(***************************************************************************)
EXTENDS Integers, FiniteSets

CONSTANTS STid,              \* thread ids
          StackPage, SlotOf, \* pages of stacks (quick thread ids), cache index
          TsEntry, NilEntry,   \* entries; NULL, and invalid_tse in the cache
          NoQtid,            \* INVALID_QTID
          MaxValue           \* bound on the registrations

\* What is assumed of the constants.
SpecificAssumption ==
    /\ NilEntry \notin TsEntry /\ NoQtid \notin StackPage /\ MaxValue \in Nat
    /\ StackPage = DOMAIN SlotOf

VARIABLES
    pages,       \* the stack of every thread; {} when there is no such thread
    expected,    \* the value a thread has set, 0 (NULL) if it has none
    value,       \* the last value used
    bucket,      \* hash[...]
    ent,         \* the fields of the entries
    cache,
    reader       \* a GC_getspecific in progress

specificVars == <<pages, expected, value, bucket, ent, cache, reader>>

Slot == {SlotOf[p] : p \in StackPage}
Idling == [pc |-> "idle", q |-> NoQtid, e |-> NilEntry, res |-> 0]

\* Types of the table, the cache and the readers.
SpecificTypeOK ==
    /\ pages \in [STid -> SUBSET StackPage] /\ expected \in [STid -> 0 .. MaxValue]
    /\ value \in 0 .. MaxValue /\ bucket \in TsEntry \cup {NilEntry}
    /\ ent \in [TsEntry -> [qtid : StackPage \cup {NoQtid}, val : 0 .. MaxValue, thread : STid,
                          next : TsEntry \cup {NilEntry}]]
    /\ cache \in [Slot -> TsEntry \cup {NilEntry}]
    /\ reader \in [STid -> [pc : {"idle", "load", "walk", "found", "cache", "done"},
                            q : StackPage \cup {NoQtid}, e : TsEntry \cup {NilEntry}, res : 0 .. MaxValue]]

SpecificInit ==
    /\ pages = [t \in STid |-> {}] /\ expected = [t \in STid |-> 0] /\ value = 0
    /\ bucket = NilEntry /\ cache = [s \in Slot |-> NilEntry]
    /\ ent \in [TsEntry -> {[qtid |-> NoQtid, val |-> 0, thread |-> CHOOSE t \in STid : TRUE,
                           next |-> NilEntry]}]
    /\ reader = [t \in STid |-> Idling]

Calm(t) == pages[t] # {} /\ reader[t].pc = "idle"

\* The entries on the chain that starts at e.
Chain[n \in 0 .. Cardinality(TsEntry)] ==
    [e \in TsEntry \cup {NilEntry} |->
        IF e = NilEntry \/ n = 0 THEN {} ELSE {e} \cup Chain[n - 1][ent[e].next]]
ChainFrom(e) == Chain[Cardinality(TsEntry)][e]

\* What the collector finds reachable.
Reached ==
    ChainFrom(bucket) \cup UNION {ChainFrom(cache[s]) : s \in Slot}
    \cup UNION {ChainFrom(reader[t].e) : t \in STid}

\* A thread is made, with a stack of its own.
NewStack(t, ps) ==
    /\ pages[t] = {} /\ ps # {} /\ \A u \in STid : pages[u] \cap ps = {}
    /\ pages' = [pages EXCEPT ![t] = ps]
    /\ UNCHANGED <<expected, value, bucket, ent, cache, reader>>

\* GC_setspecific, with the lock of the key.
GC_setspecific(t, e) ==
    /\ Calm(t) /\ expected[t] = 0 /\ value < MaxValue /\ e \in TsEntry \ Reached
    /\ value' = value + 1 /\ expected' = [expected EXCEPT ![t] = value + 1]
    /\ ent' = [ent EXCEPT ![e] = [qtid |-> NoQtid, val |-> value + 1, thread |-> t, next |-> bucket]]
    /\ bucket' = e
    /\ UNCHANGED <<pages, cache, reader>>

EntryOf(t) == {e \in ChainFrom(bucket) : ent[e].thread = t}

\* Mutant: the entry keeps the quick thread id, for the cache to find.
RetireNot(entry) == entry

Retire(entry) == [entry EXCEPT !.qtid = NoQtid]

\* GC_remove_specific_after_fork for every thread in ts: the entries lose their
\* quick thread id and are unlinked, their own links stay for the readers.
RemoveSpecific(ts) ==
    LET gone == UNION {EntryOf(t) : t \in ts}
        Skips[n \in 0 .. Cardinality(TsEntry)] ==
            [e \in TsEntry \cup {NilEntry} |-> IF e \in gone /\ n > 0 THEN Skips[n - 1][ent[e].next] ELSE e]
        Skip(e) == Skips[Cardinality(TsEntry)][e]
    IN /\ ent' = [e \in TsEntry |-> IF e \in gone THEN Retire(ent[e]) ELSE [ent[e] EXCEPT !.next = Skip(@)]]
       /\ bucket' = Skip(bucket)

\* GC_remove_specific, when the thread unregisters.
GC_remove_specific(t) ==
    /\ Calm(t) /\ expected[t] # 0
    /\ RemoveSpecific({t}) /\ expected' = [expected EXCEPT ![t] = 0]
    /\ UNCHANGED <<pages, value, cache, reader>>

\* The thread is gone, its id and its stack can be used again.
GoneStack(t) ==
    /\ Calm(t) /\ expected[t] = 0
    /\ pages' = [pages EXCEPT ![t] = {}]
    /\ UNCHANGED <<expected, value, bucket, ent, cache, reader>>

\* fork by t: the other threads vanish wherever they are.
ForkSpecific(t) ==
    /\ Calm(t)
    /\ LET others == STid \ {t}
       IN /\ RemoveSpecific(others)
          /\ pages' = [u \in STid |-> IF u = t THEN pages[t] ELSE {}]
          /\ expected' = [u \in STid |-> IF u = t THEN expected[t] ELSE 0]
          /\ reader' = [u \in STid |-> Idling]
    /\ UNCHANGED <<value, cache>>

(***************************************************************************)
(* GC_getspecific and GC_slow_getspecific.                                 *)
(***************************************************************************)
\* The cache is loaded.
GC_getspecific(t, q) ==
    /\ Calm(t) /\ q \in pages[t]
    /\ reader' = [reader EXCEPT ![t] = [pc |-> "load", q |-> q, e |-> cache[SlotOf[q]], res |-> 0]]
    /\ UNCHANGED <<pages, expected, value, bucket, ent, cache>>

TestCache(t) ==
    /\ reader[t].pc = "load"
    /\ LET e == reader[t].e
       IN reader' = IF e # NilEntry /\ ent[e].qtid = reader[t].q
                    THEN [reader EXCEPT ![t].pc = "done", ![t].res = ent[e].val]
                    ELSE [reader EXCEPT ![t].pc = "walk", ![t].e = bucket]
    /\ UNCHANGED <<pages, expected, value, bucket, ent, cache>>

Walk(t) ==
    /\ reader[t].pc = "walk"
    /\ LET e == reader[t].e
       IN reader' = CASE e = NilEntry -> [reader EXCEPT ![t].pc = "done"]
                      [] e # NilEntry /\ ent[e].thread = t -> [reader EXCEPT ![t].pc = "found"]
                      [] OTHER -> [reader EXCEPT ![t].e = ent[e].next]
    /\ UNCHANGED <<pages, expected, value, bucket, ent, cache>>

SetQtid(t) ==
    /\ reader[t].pc = "found"
    /\ ent' = [ent EXCEPT ![reader[t].e].qtid = reader[t].q]
    /\ reader' = [reader EXCEPT ![t].pc = "cache"]
    /\ UNCHANGED <<pages, expected, value, bucket, cache>>

SetCache(t) ==
    /\ reader[t].pc = "cache"
    /\ cache' = [cache EXCEPT ![SlotOf[reader[t].q]] = reader[t].e]
    /\ reader' = [reader EXCEPT ![t].pc = "done", ![t].res = ent[reader[t].e].val]
    /\ UNCHANGED <<pages, expected, value, bucket, ent>>

GetReturns(t) ==
    /\ reader[t].pc = "done" /\ reader' = [reader EXCEPT ![t] = Idling]
    /\ UNCHANGED <<pages, expected, value, bucket, ent, cache>>

SpecificNext ==
    \E t \in STid :
        \/ \E ps \in SUBSET StackPage : NewStack(t, ps)
        \/ \E e \in TsEntry : GC_setspecific(t, e)
        \/ GC_remove_specific(t) \/ GoneStack(t) \/ ForkSpecific(t)
        \/ \E q \in StackPage : GC_getspecific(t, q)
        \/ TestCache(t) \/ Walk(t) \/ SetQtid(t) \/ SetCache(t) \/ GetReturns(t)

(***************************************************************************)
(* Properties.                                                             *)
(***************************************************************************)
\* GC_getspecific returns what the thread itself has set, and NULL if it has set
\* nothing: no race of the readers with each other and with the writers, and no
\* recycled id, stack page or entry, makes it return the free lists of another.
SpecificIsOwn == \A t \in STid : reader[t].pc = "done" => reader[t].res = expected[t]

\* "If either thread is a valid id or qtid is a valid quick thread identifier for
\* a thread, then value holds the corresponding thread specific value", for every
\* entry a reader can get at.
EntriesValid ==
    \A e \in ChainFrom(bucket) \cup ({cache[s] : s \in Slot} \ {NilEntry}) :
        \A t \in STid : (ent[e].qtid \in pages[t] \/ (e \in ChainFrom(bucket) /\ ent[e].thread = t))
            => ent[e].val = expected[t]
=============================================================================
