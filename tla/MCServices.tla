----------------------------- MODULE MCServices -----------------------------
(***************************************************************************)
(* The services on top of the collector, checked side by side:             *)
(* finalization, typed objects, cords, the debugging allocator and the     *)
(* back graph.  The component named by part takes the steps of a           *)
(* behaviour; its variables are the first of x1, x2, ...                   *)
(***************************************************************************)
EXTENDS Naturals, TLC

CONSTANTS FObj, NoFObj, FShapes, Link, LinkIn, FThr, GC_interrupt_finalizers,
          MaxRegs, MaxNesting, DThr, Bitmaps, CPP_WORDSZ_, TAG_BITS, PtrBytes,
          ED_INITIAL_SIZE, MAX_ENV, OPT_THRESHOLD, ArrayLens, ElemSizes,
          LeafWords, GranuleWords, ExtraWords, Rooms, CompBitmaps, MaxDescr,
          SHORT_LIMIT, SUBSTR_LIMIT, MAX_LEFT_LEN, CORD_MAX_DEPTH,
          CORD_FUNCTION_BUF_SZ, STR_START_MAX_LEN, MaxLen, Longest, MaxOps,
          GThr, DObj, NoDObj, OBJ_WORDS, ClientSizes, MAX_SMASHED, MAX_LEAKED,
          MaxErrors, BObj, NoBObj, BObjOrder, BACKGRAPH_MAX_IN,
          MAX_BACK_EDGE_STRUCTS, BShapes, MaxGcNo, MaxChanges, ob1, ob2, ob3,
          ob4, lnk1, lnk2, noOb

\* The component that runs, and its variables.
VARIABLES part, x1, x2, x3, x4, x5, x6, x7, x8, x9, x10, x11, x12, x13, x14,
          x15, x16

\* A chain of two objects, the first of which points to itself.
MCFShapes == {(ob1 :> {ob1, ob2}) @@ (ob2 :> {})}
\* A link in static data, and one inside of an object.
MCLinkIn == (lnk1 :> noOb) @@ (lnk2 :> ob1)
\* Bitmaps that fit a word, that need the table, and that have no pointer.
MCBitmaps == {<<{0, 1, 8, 12}, 10>>, <<{0, 1}, 2>>, <<{0, 2}, 3>>, <<{2, 9, 17}, 20>>, <<{}, 2>>}
MCCompBitmaps == {<<{0, 2, 3}, 3>>, <<{1, 3}, 2>>, <<{}, 0>>}
\* The heap order of four objects; a diamond, and a cycle.
MCOrder == <<ob3, ob1, ob2, ob4>>
MCBShapes == {(ob1 :> {ob2, ob3}) @@ (ob2 :> {ob3}) @@ (ob3 :> {ob4}) @@ (ob4 :> {}),
              (ob1 :> {ob2}) @@ (ob2 :> {ob1, ob3}) @@ (ob3 :> {}) @@ (ob4 :> {ob2, ob3})}

(***************************************************************************)
(* The components.                                                         *)
(***************************************************************************)
Final == INSTANCE Finalize WITH points <- x1, alive <- x2, held <- x3,
    slot <- x4, dl_hashtbl <- x5, foTable <- x6, finalize_now <- x7,
    toggles <- x8, GC_java_finalization <- x9, finalizerNested <- x10,
    frames_ <- x11, gcAt <- x12, fmarks <- x13, collectorThr <- x14,
    regs <- x15, owed <- x16

Types == INSTANCE Typed WITH GC_ed_size <- x1, GC_avail_descr <- x2,
    GC_ext_descriptors <- x3, making <- x4, made <- x5, array <- x6, comp <- x7
ASSUME Types!TypedAssumption

Strings == INSTANCE Cords WITH cord <- x1, other <- x2, pos <- x3, used <- x4
ASSUME Strings!CordsAssumption

Debug == INSTANCE DebugHeap WITH GC_debugging_started <- x1,
    GC_find_leak <- x2, GC_findleak_delay_free <- x3, cells <- x4, inUse <- x5,
    debugged <- x6, refs <- x7, GC_smashed <- x8, GC_leaked <- x9,
    printing_errors <- x10, call <- x11, clobbered <- x12, released <- x13,
    errors <- x14, dirtyGiven <- x15
ASSUME Debug!DebugHeapAssumption

Back == INSTANCE BackGraph WITH debug <- x1, fields <- x2, rooted <- x3,
    marked_ <- x4, graph <- x5, gc_no_ <- x6, last_bt <- x7,
    deepest_height <- x8, deepest_obj <- x9, max_deepest_h <- x10,
    printing <- x11, past <- x12, scanned <- x13, changes <- x14

\* The variables that a component has no use for.
rest5 == <<x5, x6, x7, x8, x9, x10, x11, x12, x13, x14, x15, x16>>
rest8 == <<x8, x9, x10, x11, x12, x13, x14, x15, x16>>
rest15 == <<x15, x16>>
rest16 == <<x16>>
Unused(x) == x = 0
Unused16 == Unused(x16)
Unused15 == Unused(x15) /\ Unused16
Unused8 == Unused(x8) /\ Unused(x9) /\ Unused(x10) /\ Unused(x11) /\
    Unused(x12) /\ Unused(x13) /\ Unused(x14) /\ Unused15
Unused5 == Unused(x5) /\ Unused(x6) /\ Unused(x7) /\ Unused8

ServicesVars == <<part, x1, x2, x3, x4, x5, x6, x7, x8, x9, x10, x11, x12, x13,
          x14, x15, x16>>

ServicesInit ==
    \/ part = "finalize" /\ Final!FinalizeInit
    \/ part = "typed" /\ Types!TypedInit /\ Unused8
    \/ part = "cords" /\ Strings!CordsInit /\ Unused5
    \/ part = "debug" /\ Debug!DebugHeapInit /\ Unused16
    \/ part = "back" /\ Back!BackGraphInit /\ Unused15

ServicesNext ==
    \/ part = "finalize" /\ Final!FinalizeNext /\ UNCHANGED part
    \/ part = "typed" /\ Types!TypedNext /\ UNCHANGED <<part, rest8>>
    \/ part = "cords" /\ Strings!CordsNext /\ UNCHANGED <<part, rest5>>
    \/ part = "debug" /\ Debug!DebugHeapNext /\ UNCHANGED <<part, rest16>>
    \/ part = "back" /\ Back!BackGraphNext /\ UNCHANGED <<part, rest15>>

ServicesSpec == ServicesInit /\ [][ServicesNext]_ServicesVars

\* An object that GC_finalize queues is not reachable from one whose finalizer
\* respects the order; short links are cleared before the finalizer is queued,
\* long ones only together with their target; every registered finalizer runs
\* once, unless it is cancelled, also when threads race in
\* GC_invoke_finalizers; with Java finalization all that a pending finalizer
\* can reach is kept; and no table entry, link or toggle reference refers to a
\* reclaimed object.
FinalizationSound ==
    [][part = "finalize" => /\ (Final!FinalizeTypeOK /\ Final!WeakRefsValid /\ Final!FinalizedKept /\ Final!RunOnce)'
                            /\ Final!FinalizationOrderStep
                            /\ Final!LinksOutliveStep]_ServicesVars

\* A descriptor of GC_make_descriptor makes the marker look at exactly the
\* words of its bitmap, though other threads replace the table of long
\* bitmaps; marking a typed array looks at the pointer words of its elements
\* and at the word of the descriptor, which lies behind them, and
\* GC_mark_compressed_bitmap_multi pushes the references in the slots of a
\* compressed object, and nothing else.
TypedSound ==
    part = "typed" => /\ Types!TypedTypeOK
                      /\ Types!DescriptorExact
                      /\ Types!ArrayExact
                      /\ Types!DescriptorBehindElements
                      /\ Types!CompressedExact

\* Every cord the client builds denotes the string it should, for CORD_iter5
\* from any place and for CORD_riter4; CORD_balance gives a tree of
\* logarithmic depth; CORD_str, CORD_chr, CORD_rchr and CORD_ncmp agree with
\* their definitions on strings; and wherever CORD_next and CORD_prev have
\* brought a position, its path leads to the leaf of the current character.
CordsSound ==
    part = "cords" => /\ Strings!CordsTypeOK
                      /\ Strings!CordsDenote
                      /\ Strings!BalanceShallow
                      /\ Strings!SearchesExact
                      /\ Strings!PositionExact

\* What GC_reclaim_check reports as leaked is allocated, is not held by the
\* client, and is reported in one place, so that GC_print_all_errors frees it
\* once.
LeaksAreReal == part = "debug" => Debug!DebugHeapTypeOK /\ Debug!LeaksReal

\* A word newly reported as smashed is one the client wrote though it was not
\* its own: no object whose header is being stored or removed is reported
\* (GC_check_heap_block); and a collection finds every object in use of which
\* the client has spoilt a marker, unless the list is full.
ReportsReal ==
    [][part = "debug" => /\ Debug!NewSmashRealStep
                         /\ Debug!SmashFoundStep]_ServicesVars

\* The heights that the traversal of backgraph.c leaves are those of the
\* definition, while the dead objects form no cycle; a back_edges structure is
\* in the chain of at most one object, or on the free list, and there once;
\* and the object that GC_print_back_graph_stats prints has been kept from the
\* sweep.
BackGraphSound ==
    part = "back" => /\ Back!BackGraphTypeOK
                     /\ Back!HeightsExact
                     /\ Back!OwnedOnce
                     /\ Back!PrintedIsKept

\* Threads are interchangeable.
ServicesSymmetry == Permutations(GThr)
=============================================================================
