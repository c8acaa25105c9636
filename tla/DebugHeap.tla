------------------------------ MODULE DebugHeap ------------------------------
(***************************************************************************)
(* The debugging allocator (dbg_mlc.c) and the error reports of the        *)
(* collector (reclaim.c): headers and end markers around the objects,      *)
(* deferred deallocation, the search for leaks and the two lists of        *)
(* errors, which a thread prints without the allocator lock.               *)
(*                                                                         *)
(* An object is OBJ_WORDS words: the size the client asked for, the start  *)
(* marker, and the words of the client.  The end marker is stored behind   *)
(* those the client asked for and in the last word.  A word holds zero, a  *)
(* size, data of the client, what an earlier object left, or a marker.     *)
(***************************************************************************)
EXTENDS Integers, Sequences, SequencesExt, FiniteSets, FiniteSetsExt

CONSTANTS
    GThr,           \* threads
    DObj,           \* objects, all large enough to have blocks of their own
    NoDObj,
    OBJ_WORDS,
    ClientSizes,    \* words the client asks for
    MAX_SMASHED, MAX_LEAKED,
    MaxErrors       \* bound: errors the client makes

\* What is assumed of the constants.
DebugHeapAssumption ==
    /\ OBJ_WORDS \in Nat /\ OBJ_WORDS >= 6 /\ NoDObj \notin DObj
    /\ ClientSizes \subseteq 0 .. OBJ_WORDS - 3
    /\ {MAX_SMASHED, MAX_LEAKED} \subseteq Nat \ {0}

HEADER == 2
ZERO == 0
LEFT == -1
DATA == -2
START_FLAG == -3
END_FLAG == -4
GC_FREED_MARKER == -5
Words == 1 .. OBJ_WORDS
Body == HEADER + 1 .. OBJ_WORDS
Requests == 0 .. OBJ_WORDS - HEADER - 1

VARIABLES
    GC_debugging_started,
    GC_find_leak, GC_findleak_delay_free,
    cells,          \* the words of every object
    inUse,          \* objects that are allocated
    debugged,       \* ... with a debugging header, or about to get one
    refs,           \* objects the client holds pointers to
    GC_smashed,     \* sequence of <<object, word>>
    GC_leaked,      \* sequence of objects
    printing_errors,
    call,           \* what each thread is doing
    \* Ghosts, which no code reads.
    clobbered,      \* words the client wrote though they were not its own
    released,       \* objects the client has freed
    errors,         \* how many errors the client has made
    dirtyGiven      \* a new object was not clear

heapOnly == <<GC_debugging_started, cells, inUse, debugged>>
errorVars == <<GC_smashed, GC_leaked, printing_errors>>
ghostVars == <<clobbered, released, errors, dirtyGiven>>
modeVars == <<GC_find_leak, GC_findleak_delay_free>>
debugVars == <<heapOnly, modeVars, refs, errorVars, call, ghostVars>>

Resting_ == [at |-> "idle", obj |-> NoDObj, dbg |-> FALSE, todo |-> <<>>, index |-> 0]

DebugHeapInit ==
    /\ GC_debugging_started = FALSE
    /\ GC_find_leak \in BOOLEAN /\ GC_findleak_delay_free \in BOOLEAN
    /\ GC_findleak_delay_free => GC_find_leak
    /\ cells = [o \in DObj |-> [w \in Words |-> LEFT]]
    /\ inUse = {} /\ debugged = {} /\ refs = {}
    /\ GC_smashed = <<>> /\ GC_leaked = <<>> /\ printing_errors = FALSE
    /\ call = [t \in GThr |-> Resting_]
    /\ clobbered = {} /\ released = {} /\ errors = 0 /\ dirtyGiven = FALSE

Is(t, at) == call[t].at = at
To(t, at) == call' = [call EXCEPT ![t].at = at]
Rests(t) == call' = [call EXCEPT ![t] = Resting_]

(***************************************************************************)
(* The checks of a header.                                                 *)
(***************************************************************************)
EndWord(o) == HEADER + 1 + cells[o][1]

\* The word of o that is not as it was stored, or 0.
GC_check_annotated_obj(o) ==
    CASE cells[o][1] \notin Requests -> 1
      [] cells[o][1] \in Requests /\ cells[o][2] # START_FLAG -> 2
      [] cells[o][1] \in Requests /\ cells[o][2] = START_FLAG /\ cells[o][OBJ_WORDS] # END_FLAG -> OBJ_WORDS
      [] OTHER -> IF cells[o][EndWord(o)] # END_FLAG THEN EndWord(o) ELSE 0

GC_has_other_debug_info(o) ==
    CASE cells[o][2] # START_FLAG /\ cells[o][OBJ_WORDS] # END_FLAG -> 0
      [] (cells[o][2] = START_FLAG \/ cells[o][OBJ_WORDS] = END_FLAG) /\ cells[o][1] = OBJ_WORDS -> -1
      [] OTHER -> 1

(***************************************************************************)
(* Allocation.                                                             *)
(***************************************************************************)
\* GC_generic_malloc_aligned with the lock
MallocLocked(t, o, dbg) ==
    /\ Is(t, "idle") /\ o \notin inUse
    /\ inUse' = inUse \cup {o}
    /\ clobbered' = {c \in clobbered : c[1] # o} /\ released' = released \ {o}
    /\ cells' = [cells EXCEPT ![o] =
          [w \in Words |-> IF GC_debugging_started \/ w \in {1, 2, OBJ_WORDS - 1, OBJ_WORDS} THEN ZERO ELSE @[w]]]
    /\ call' = [call EXCEPT ![t] = [Resting_ EXCEPT !.at = "clear", !.obj = o, !.dbg = dbg]]
    /\ UNCHANGED <<GC_debugging_started, debugged, modeVars, refs, errorVars, errors, dirtyGiven>>

\* GC_debug_malloc and its variants begin with it.
DebugMalloc(t, o) == MallocLocked(t, o, TRUE)

\* ... and without it: an object of the kind NORMAL is cleared here, unless
\* the debugging mode is on, in which it was cleared before.
MallocClear(t) ==
    /\ Is(t, "clear")
    /\ LET o == call[t].obj
       IN  /\ cells' = IF GC_debugging_started THEN cells
                       ELSE [cells EXCEPT ![o] = [w \in Words |-> ZERO]]
           /\ dirtyGiven' = (dirtyGiven \/ \E w \in Words : cells'[o][w] # ZERO)
           /\ IF call[t].dbg THEN To(t, "store") /\ refs' = refs
              ELSE Rests(t) /\ refs' = refs \cup {o}
    /\ UNCHANGED <<GC_debugging_started, inUse, debugged, modeVars, errorVars, clobbered, released, errors>>

\* GC_store_debug_info_inner: sz words for the client
Annotated(old, sz) ==
    [w \in Words |-> CASE w = 1 -> sz [] w = 2 -> START_FLAG
                       [] w \in {HEADER + 1 + sz, OBJ_WORDS} -> END_FLAG [] OTHER -> old[w]]

\* store_debug_info, with the lock
store_debug_info(t, sz) ==
    /\ Is(t, "store")
    /\ GC_debugging_started' = TRUE
    /\ cells' = [cells EXCEPT ![call[t].obj] = Annotated(@, sz)]
    /\ debugged' = debugged \cup {call[t].obj}
    /\ refs' = refs \cup {call[t].obj}
    /\ Rests(t)
    /\ UNCHANGED <<inUse, modeVars, errorVars, ghostVars>>

(***************************************************************************)
(* The client.                                                             *)
(***************************************************************************)
\* A write to a word the client may write, and one it may not: behind the
\* end of an object, or in an object it has freed.
Write(o, w) ==
    /\ o \in (refs \cap debugged) \ released /\ cells[o][1] \in Nat
    /\ w \in HEADER + 1 .. HEADER + cells[o][1]
    /\ cells' = [cells EXCEPT ![o][w] = DATA]
    /\ UNCHANGED <<GC_debugging_started, inUse, debugged, modeVars, refs, errorVars, call, ghostVars>>

WriteOutside(o, w) ==
    /\ errors < MaxErrors /\ errors' = errors + 1
    /\ o \in refs \cap debugged
    /\ \/ o \notin released /\ w \in {HEADER, EndWord(o)}
       \/ o \in released /\ w \in Body /\ ~\E t \in GThr : call[t].obj = o
    /\ cells[o][w] # DATA
    /\ cells' = [cells EXCEPT ![o][w] = DATA]
    /\ clobbered' = clobbered \cup {<<o, w>>}
    /\ UNCHANGED <<GC_debugging_started, inUse, debugged, modeVars, refs, errorVars, call, released, dirtyGiven>>

DropRef(o) ==
    /\ o \in refs /\ refs' = refs \ {o}
    /\ UNCHANGED <<heapOnly, modeVars, errorVars, call, ghostVars>>

(***************************************************************************)
(* GC_debug_free.                                                          *)
(***************************************************************************)
Unmolested(o) == \A t \in GThr : call[t].obj # o

AlreadyFree(o) == GC_check_annotated_obj(o) # 0 /\ cells[o][1] = OBJ_WORDS
\* Without the lock: a second call for an object is ignored, and the size
\* says that it is freed.
FreeCheck(t, o) ==
    /\ Is(t, "idle") /\ o \in refs \cap debugged /\ Unmolested(o)
    /\ o \in released => errors < MaxErrors
    /\ errors' = IF o \in released THEN errors + 1 ELSE errors
    /\ \/ AlreadyFree(o) /\ UNCHANGED <<cells, call, released>>
       \/ /\ ~AlreadyFree(o)
          /\ cells' = [cells EXCEPT ![o][1] = OBJ_WORDS]
          /\ released' = released \cup {o}
          /\ call' = [call EXCEPT ![t] = [Resting_ EXCEPT !.at = "free", !.obj = o]]
    /\ UNCHANGED <<GC_debugging_started, inUse, debugged, modeVars, refs, errorVars, clobbered, dirtyGiven>>

\* Given back at once when leaks are searched without delay, else left to the
\* collector.
FreeLocked(t) ==
    /\ Is(t, "free")
    /\ LET o == call[t].obj
       IN  \/ /\ GC_find_leak /\ ~GC_findleak_delay_free
              /\ inUse' = inUse \ {o} /\ debugged' = debugged \ {o} /\ refs' = refs \ {o}
              /\ Rests(t)
           \/ /\ ~GC_find_leak \/ GC_findleak_delay_free
              /\ To(t, "fill") /\ UNCHANGED <<inUse, debugged, refs>>
    /\ UNCHANGED <<GC_debugging_started, cells, modeVars, errorVars, ghostVars>>

FilledShort == HEADER + 1 .. OBJ_WORDS - 1

Filled == Body
\* ... whose words are overwritten after the lock is released.
FreeFill(t) ==
    /\ Is(t, "fill")
    /\ cells' = [cells EXCEPT ![call[t].obj] = [w \in Words |-> IF w \in Filled THEN GC_FREED_MARKER ELSE @[w]]]
    /\ Rests(t)
    /\ UNCHANGED <<GC_debugging_started, inUse, debugged, modeVars, refs, errorVars, ghostVars>>

(***************************************************************************)
(* The collection.                                                         *)
(***************************************************************************)

\* What the stacks of the threads hold: the objects they work on.
OnStacks == UNION {{call[t].obj} \cup ToSet(call[t].todo) : t \in GThr}
\* GC_push_reclaim_structures
ErrorLists == ToSet(GC_leaked) \cup {e[1] : e \in ToSet(GC_smashed)}

Marked == inUse \cap (refs \cup OnStacks \cup ErrorLists)

\* GC_add_smashed; an entry behind the last place is never looked at.
GC_add_smashed(list, o, w) == IF Len(list) < MAX_SMASHED - 1 THEN Append(list, <<o, w>>) ELSE list

\* GC_check_heap_proc
GC_check_heap(list) ==
    LET bad == {o \in Marked : GC_has_other_debug_info(o) > 0 /\ GC_check_annotated_obj(o) # 0}
    IN  FoldLeft(LAMBDA l, o : GC_add_smashed(l, o, GC_check_annotated_obj(o)), list, SetToSeq(bad))

\* A mutant: the test of the freed objects is left out.
LeakedTestNot(o) == FALSE

\* GC_add_leaked for an unmarked object, with GC_check_leaked; S has the two
\* lists and the objects that are not reclaimed.
LeakedTest(o) == GC_findleak_delay_free /\ GC_has_other_debug_info(o) = -1
GC_add_leaked(S, o) ==
    LET altered == {w \in Body : cells[o][w] # GC_FREED_MARKER}
        freed == LeakedTest(o)
    IN  CASE freed /\ altered = {} -> S
          [] freed /\ altered # {} ->
               [S EXCEPT !.smashed = GC_add_smashed(@, o, Min(altered)), !.kept = @ \cup {o}]
          [] ~freed /\ Len(S.leaked) < MAX_LEAKED ->
               [S EXCEPT !.leaked = Append(@, o), !.kept = @ \cup {o}]
          [] OTHER -> S

Collect ==
    /\ inUse # {}
    /\ LET checked == IF GC_debugging_started THEN GC_check_heap(GC_smashed) ELSE GC_smashed
           S0 == [smashed |-> checked, leaked |-> GC_leaked, kept |-> Marked]
           S == IF GC_find_leak THEN FoldLeft(GC_add_leaked, S0, SetToSeq(inUse \ Marked)) ELSE S0
       IN  /\ GC_smashed' = S.smashed /\ GC_leaked' = S.leaked
           /\ inUse' = S.kept /\ debugged' = debugged \cap S.kept
    /\ UNCHANGED <<GC_debugging_started, cells, modeVars, refs, printing_errors, call, ghostVars>>

(***************************************************************************)
(* GC_print_all_errors.                                                    *)
(***************************************************************************)
PrintBegin(t) ==
    /\ Is(t, "idle") /\ ~printing_errors /\ (GC_smashed # <<>> \/ GC_leaked # <<>>)
    /\ printing_errors' = TRUE
    /\ call' = [call EXCEPT ![t] = [Resting_ EXCEPT !.at = IF GC_debugging_started THEN "smashed" ELSE "leaks",
                                                    !.todo = GC_leaked, !.index = 1]]
    /\ GC_leaked' = <<>>
    /\ UNCHANGED <<heapOnly, modeVars, refs, GC_smashed, ghostVars>>

\* GC_print_all_smashed_proc, without the lock
PrintSmashed(t) ==
    /\ Is(t, "smashed")
    /\ \/ /\ call[t].index <= Len(GC_smashed)
          /\ GC_smashed' = [GC_smashed EXCEPT ![call[t].index] = <<NoDObj, 0>>]
          /\ call' = [call EXCEPT ![t].index = @ + 1]
       \/ /\ call[t].index > Len(GC_smashed) /\ To(t, "reset") /\ GC_smashed' = GC_smashed
    /\ UNCHANGED <<heapOnly, modeVars, refs, GC_leaked, printing_errors, ghostVars>>

ResetSmashed(t) ==
    /\ Is(t, "reset") /\ GC_smashed' = <<>> /\ To(t, "leaks")
    /\ UNCHANGED <<heapOnly, modeVars, refs, GC_leaked, printing_errors, ghostVars>>

\* Every object of the copied list is given back.
FreeLeaked(t) ==
    /\ Is(t, "leaks")
    /\ \/ /\ call[t].todo # <<>>
          /\ inUse' = inUse \ {Head(call[t].todo)} /\ debugged' = debugged \ {Head(call[t].todo)}
          /\ call' = [call EXCEPT ![t].todo = Tail(@)]
          /\ UNCHANGED printing_errors
       \/ /\ call[t].todo = <<>> /\ printing_errors' = FALSE /\ Rests(t)
          /\ UNCHANGED <<inUse, debugged>>
    /\ UNCHANGED <<GC_debugging_started, cells, modeVars, refs, GC_smashed, GC_leaked, ghostVars>>

DebugHeapNext ==
    \/ \E t \in GThr : \/ \E o \in DObj : MallocLocked(t, o, FALSE) \/ DebugMalloc(t, o)
                       \/ MallocClear(t)
                       \/ \E sz \in ClientSizes : store_debug_info(t, sz)
                       \/ \E o \in DObj : FreeCheck(t, o)
                       \/ FreeLocked(t)
                       \/ FreeFill(t)
                       \/ PrintBegin(t)
                       \/ PrintSmashed(t)
                       \/ ResetSmashed(t)
                       \/ FreeLeaked(t)
    \/ \E o \in DObj, w \in {HEADER + 1} : Write(o, w)
    \/ \E o \in DObj, w \in Words : WriteOutside(o, w)
    \/ \E o \in DObj : DropRef(o)
    \/ Collect

DebugHeapSpec == DebugHeapInit /\ [][DebugHeapNext]_debugVars

(***************************************************************************)
(* Properties.                                                             *)
(***************************************************************************)
\* Objects, words and lists; references are to objects in use.
DebugHeapTypeOK ==
    /\ refs \cup debugged \cup ({call[t].obj : t \in GThr} \ {NoDObj}) \subseteq inUse
    /\ \A o \in DObj, w \in Words :
          cells[o][w] \in GC_FREED_MARKER .. OBJ_WORDS
    /\ Len(GC_smashed) < MAX_SMASHED /\ Len(GC_leaked) <= MAX_LEAKED
    /\ \A t \in GThr : call[t].at \in {"idle", "clear", "store", "free", "fill", "smashed", "reset", "leaks"}

\* What the collector reports as leaked is allocated, is not held by the
\* client, has not been given to GC_debug_free (unless the client spoilt its
\* header) and is reported in one place, so that GC_print_all_errors frees it
\* once.
LeaksReal ==
    LET lists == [t \in GThr |-> call[t].todo]
        all == GC_leaked \o FlattenSeq(SetToSeq({lists[t] : t \in GThr} \ {<<>>}))
    IN  /\ IsInjective(all)
        /\ \A o \in ToSet(all) : /\ o \in inUse \ refs
                                 /\ o \in released => \E w \in Words : <<o, w>> \in clobbered

\* A word the collector newly reports as smashed is one that the client wrote
\* though it was not its own: neither an object whose header is not stored
\* yet, nor one that GC_debug_free is about to overwrite is reported.
NewSmashRealStep ==
    \A e \in ToSet(GC_smashed') \ ToSet(GC_smashed) : e \in clobbered \cup {<<NoDObj, 0>>}
NewSmashReal == [][NewSmashRealStep]_debugVars

\* A collection finds every object in use of which the client has spoilt the
\* start or one end marker, unless the list is full.
SmashFoundStep ==
    (Collect /\ Len(GC_smashed') < MAX_SMASHED - 1) =>
       \A c \in clobbered : (c[1] \in refs \ released /\ \A d \in clobbered : d[1] = c[1] => d = c)
           => c \in ToSet(GC_smashed')
SmashFound == [][SmashFoundStep]_debugVars

\* "The non-atomic variants guarantee that the new object is cleared" (gc.h,
\* of GC_malloc and its family): also when another thread turns the debugging
\* mode on between the two tests of GC_debugging_started.
NewObjectCleared == ~dirtyGiven
==============================================================================
