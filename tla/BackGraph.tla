----------------------------- MODULE BackGraph -----------------------------
(***************************************************************************)
(* The backward graph of backgraph.c (MAKE_BACK_GRAPH builds): during each *)
(* collection every object is given the list of the objects pointing to    *)
(* it, and the length of the longest chain of unreachable objects leading  *)
(* to each reachable one (its height) is computed; the worst is reported   *)
(* later, outside of the collection, by whichever thread next passes       *)
(* GC_notify_or_invoke_finalizers, which also drops the edges.             *)
(*                                                                         *)
(* An object's `oh_bg_ptr` is 0 (none), another object (a single edge) or  *)
(* a positive number: the index of a `back_edges` structure (FLAG_MANY).   *)
(* `back_edges` structures come from a fixed pool with a free list.        *)
(*                                                                         *)
(* Bounds and abstractions: objects are scanned in the order BObjOrder; a  *)
(* pointer is always a recognised one, so that a marked object points to   *)
(* marked ones only; at most MaxGcNo collections, and one of them starts   *)
(* only when the statistics of the previous one are out (see               *)
(* StatisticsOut); the client starts from one of BShapes, with a root for  *)
(* each object, and allocates, links and frees at most MaxChanges times.   *)
(* GOT_LUCKY_NUMBER, one in 128, is true for at most one edge of a         *)
(* collection.                                                             *)
(***************************************************************************)
EXTENDS Integers, Sequences, FiniteSets, FiniteSetsExt, SequencesExt

CONSTANTS BObj,        \* the objects
          NoBObj,      \* NULL
          BObjOrder,   \* a sequence with each object once: the heap order
          BACKGRAPH_MAX_IN,
          MAX_BACK_EDGE_STRUCTS,
          BShapes,     \* the initial graphs: functions from BObj to SUBSET BObj
          MaxGcNo, MaxChanges

HEIGHT_UNKNOWN == -2
HEIGHT_IN_PROGRESS == -1

VARIABLES
  debug,         \* the objects with debug information: allocated, or not swept yet
  fields,        \* what each object points to
  rooted,        \* the objects a root points to
  marked_,       \* the mark bits left by the last collection
  graph,         \* [ptr, be, avail, n]: oh_bg_ptr, the structures, their free
                 \* list and the number of structures ever used
  gc_no_,        \* GC_gc_no
  last_bt,       \* GC_last_back_trace_gc_no
  deepest_height, deepest_obj, max_deepest_h,
  printing,      \* GC_print_back_graph_stats has released the lock to print
  past,          \* history: each object's height as of the last collection
  scanned,       \* history: the objects that collection found reachable
  changes        \* the client's allocations, links and frees

heapGraphVars == <<debug, fields, rooted>>
deepestVars == <<deepest_height, deepest_obj, max_deepest_h>>
backGraphVars == <<heapGraphVars, marked_, graph, gc_no_, last_bt, deepestVars,
                   printing, past, scanned, changes>>

Unused == [n_edges |-> 0, retain |-> FALSE, gc_no |-> 0,
           height |-> HEIGHT_UNKNOWN, edges |-> <<>>, cont |-> 0]

BackGraphInit ==
  /\ debug = BObj /\ rooted = BObj /\ marked_ = BObj
  /\ fields \in BShapes
  /\ graph = [ptr |-> [p \in BObj |-> 0], avail |-> 0, n |-> 0,
              be |-> [i \in 1..MAX_BACK_EDGE_STRUCTS |-> Unused]]
  /\ gc_no_ = 1 /\ last_bt = 1
  /\ deepest_height = 0 /\ deepest_obj = NoBObj /\ max_deepest_h = 0
  /\ printing = FALSE
  /\ past = [p \in BObj |-> 0] /\ scanned = {} /\ changes = 0

-----------------------------------------------------------------------------
(* The pool of back_edges structures. *)

new_back_edges(g) == IF g.avail # 0 THEN g.avail ELSE g.n + 1

WithoutNew(g) ==
  IF g.avail # 0
  THEN [g EXCEPT !.avail = g.be[g.avail].cont, !.be[g.avail].cont = 0]
  ELSE [g EXCEPT !.n = @ + 1]

\* The structure i and its continuations.
RECURSIVE Chain(_, _)
Chain(be, i) == IF i = 0 THEN <<>> ELSE <<i>> \o Chain(be, be[i].cont)

deallocate_back_edges(g, i) ==
  [g EXCEPT !.be[Last(Chain(g.be, i))].cont = g.avail, !.avail = i]

-----------------------------------------------------------------------------
(* Building the graph. *)

Many(g, p) == g.ptr[p] \in Nat \ {0}

ensure_struct(g, p) ==
  IF Many(g, p) THEN g
  ELSE LET i == new_back_edges(g)
           one == g.ptr[p] # 0
       IN [WithoutNew(g) EXCEPT
             !.be[i].retain = FALSE, !.be[i].height = HEIGHT_UNKNOWN,
             !.be[i].n_edges = IF one THEN 1 ELSE 0,
             !.be[i].edges = IF one THEN <<g.ptr[p]>> ELSE <<>>,
             !.be[i].gc_no = gc_no_ - 1,
             !.ptr[p] = i]

\* The predecessors recorded for p, read as the loops of add_edge,
\* backwards_height and update_deepest_height do: n_edges of them,
\* BACKGRAPH_MAX_IN from each structure of the chain.
Preds(g, p) ==
  IF ~Many(g, p) THEN IF g.ptr[p] = 0 THEN <<>> ELSE <<g.ptr[p]>>
  ELSE LET chain == Chain(g.be, g.ptr[p])
           At_(k) == g.be[chain[1 + (k \div BACKGRAPH_MAX_IN)]].edges[1 + (k % BACKGRAPH_MAX_IN)]
       IN [k \in 1..g.be[g.ptr[p]].n_edges |-> At_(k - 1)]

\* Slot k (from 1) of the structure i is the edge p; later slots are stale.
StoreEdge(g, i, k, p) ==
  [g EXCEPT !.be[i].edges = SubSeq(@, 1, k - 1) \o <<p>>]

\* One more edge for q, which has a structure: the end of its chain, or a
\* continuation when the last one is full.
AppendEdge(g, p, q) ==
  LET head == g.ptr[q]
      n == g.be[head].n_edges
      end == Chain(g.be, head)[IF n = 0 THEN 1 ELSE 1 + ((n - 1) \div BACKGRAPH_MAX_IN)]
      i == IF n = 0 THEN 0 ELSE 1 + ((n - 1) % BACKGRAPH_MAX_IN)
      cont == new_back_edges(g)
      added == IF i < BACKGRAPH_MAX_IN THEN StoreEdge(g, end, i + 1, p)
               ELSE StoreEdge([WithoutNew(g) EXCEPT !.be[end].cont = cont], cont, 1, p)
  IN [added EXCEPT !.be[head].n_edges = @ + 1]

add_edge(g, p, q, lucky) ==
  IF {p, q} \subseteq debug => p \in ToSet(Preds(g, q)) THEN g
  ELSE IF g.ptr[q] = 0
       THEN LET h == [g EXCEPT !.ptr[q] = p]
            IN IF q \in lucky THEN ensure_struct(h, q) ELSE h
       ELSE AppendEdge(ensure_struct(g, q), p, q)

\* GC_build_back_graph: add_back_edges for each object in turn.
RECURSIVE AddAll(_, _, _)
AddAll(g, pairs, lucky) ==
  IF pairs = <<>> THEN g
  ELSE AddAll(add_edge(g, pairs[1][1], pairs[1][2], lucky), Tail(pairs), lucky)

add_back_edges(p) == SelectSeq([i \in DOMAIN BObjOrder |-> <<p, BObjOrder[i]>>],
                               LAMBDA e : e[2] \in fields[p])

GC_build_back_graph(lucky) ==
  AddAll(graph, FlattenSeq([i \in DOMAIN BObjOrder |->
                  IF BObjOrder[i] \in debug THEN add_back_edges(BObjOrder[i]) ELSE <<>>]),
         lucky)

-----------------------------------------------------------------------------
(* Heights. *)

\* The in-progress stack; pop_in_progress is the return from the recursion.
push_in_progress(p, busy) == busy \cup {p}
is_in_progress(p, busy) == p \in busy

\* backwards_height(p): [h, be], the result and the structures after it;
\* `busy` is the in-progress stack of the objects without a structure.
RECURSIVE Highest(_, _, _, _, _)
RECURSIVE backwards_height(_, _, _, _)

\* The loop over the predecessors of p.
Highest(g, preds, busy, no, result) ==
  IF preds = <<>> THEN [h |-> result, be |-> g.be]
  ELSE LET this == backwards_height(g, preds[1], busy, no)
       IN Highest([g EXCEPT !.be = this.be], Tail(preds), busy, no,
                  IF this.h >= result THEN this.h + 1 ELSE result)

CachedAnyCycle(b, no) == b.height >= 0
Cached_(b, no) == b.height >= 0 /\ b.gc_no = no

\* The height remembered for an object is a minimum.
Remembered(b) == IF b.height > 0 THEN b.height ELSE 1

backwards_height(g, p, busy, no) ==
  IF ~Many(g, p)
  THEN IF g.ptr[p] = 0 THEN [h |-> 1, be |-> g.be]
       ELSE IF is_in_progress(p, busy) THEN [h |-> 0, be |-> g.be]
       ELSE LET up == backwards_height(g, g.ptr[p], push_in_progress(p, busy), no)
            IN [up EXCEPT !.h = @ + 1]
  ELSE LET i == g.ptr[p]
           b == g.be[i]
       IN IF Cached_(b, no) THEN [h |-> b.height, be |-> g.be]
          ELSE IF b.height = HEIGHT_IN_PROGRESS THEN [h |-> 0, be |-> g.be]
          ELSE LET r == Highest([g EXCEPT !.be[i].height = HEIGHT_IN_PROGRESS],
                                Preds(g, p), busy, no, Remembered(b))
               IN [r EXCEPT !.be[i].height = r.h, !.be[i].gc_no = no]

\* update_deepest_height(p), its loop first: the height of p (at least the
\* remembered one) and the predecessor it comes from.
RECURSIVE FromPreds(_, _, _, _, _, _)
FromPreds(g, preds, marks, no, h, obj) ==
  IF preds = <<>> THEN [h |-> h, obj |-> obj, g |-> g]
  ELSE IF preds[1] \in marks \/ preds[1] \notin debug
       THEN FromPreds(g, Tail(preds), marks, no, h, obj)
       ELSE LET this == backwards_height(g, preds[1], {}, no)
                higher == this.h > h
            IN FromPreds([g EXCEPT !.be = this.be], Tail(preds), marks, no,
                         IF higher THEN this.h ELSE h,
                         IF higher THEN preds[1] ELSE obj)

\* Remember the height for the next collection.
Retain(g, p, h, no) ==
  LET s == ensure_struct(g, p)
      i == s.ptr[p]
  IN IF h = 0 THEN g
     ELSE [s EXCEPT !.be[i].retain = TRUE, !.be[i].height = h, !.be[i].gc_no = no]

update_deepest_height(d, p, marks, no) ==
  LET g == d.g
      least == IF Many(g, p) /\ g.be[g.ptr[p]].height # HEIGHT_UNKNOWN
               THEN g.be[g.ptr[p]].height ELSE 0
      r == FromPreds(g, Preds(g, p), marks, no, least, NoBObj)
      deepest == r.h > d.h
  IN IF p \notin marks \cap debug THEN d
     ELSE [g |-> Retain(r.g, p, r.h, no),
           h |-> IF deepest THEN r.h ELSE d.h,
           obj |-> IF deepest THEN r.obj ELSE d.obj]

RECURSIVE UpdateAll(_, _, _, _)
UpdateAll(d, objs, marks, no) ==
  IF objs = <<>> THEN d
  ELSE UpdateAll(update_deepest_height(d, objs[1], marks, no), Tail(objs), marks, no)

\* GC_traverse_back_graph.  The deepest object's mark bit keeps it until it
\* is printed.
Kept(marks, obj) == marks \cup ({obj} \ {NoBObj})

-----------------------------------------------------------------------------
(* The collection as a whole, and the statistics. *)

RECURSIVE ReachGrows(_)
ReachGrows(S) ==
  LET T == S \cup UNION {fields[p] : p \in S}
  IN IF T = S THEN S ELSE ReachGrows(T)
Reach == ReachGrows(rooted) \cap debug

\* An unreachable object of the last collection is gone once its block is
\* swept.  Before a collection marks, every block is.
Swept(S) == debug' = debug \ S

Sweep(p) ==
  /\ p \in debug \ marked_
  /\ Swept({p})
  /\ past' = [past EXCEPT ![p] = 0]
  /\ UNCHANGED <<fields, rooted, marked_, graph, gc_no_, last_bt, deepestVars, printing, scanned, changes>>

\* The statistics of the last collection have been printed.
StatisticsOut == last_bt = gc_no_ /\ ~printing

\* The dead objects' part of the heights, by definition: the longest chain
\* of dead objects ending in u, or what is remembered for one of them.
RECURSIVE DeadHeight(_, _)
DeadHeight(dead, u) ==
  Max({1, past[u]} \cup
      {1 + DeadHeight(dead \ {u}, v) : v \in {w \in dead \ {u} : u \in fields[w]}})

\* (With a cycle of dead objects the code's own approximation.)
Acyclic(dead) == \A p, q \in dead : p \in fields[q] => q \notin ReachGrows({p})

HeightIn(g, p) == IF Many(g, p) THEN Max({0, g.be[g.ptr[p]].height}) ELSE 0

TrueHeight(dead, p) ==
  Max({past[p]} \cup {DeadHeight(dead, u) : u \in {w \in dead : p \in fields[w]}})

\* GC_build_back_graph, the marking, GC_traverse_back_graph.
GC_stopped_collection ==
  /\ gc_no_ < MaxGcNo
  /\ StatisticsOut
  /\ debug \subseteq marked_      \* all blocks are swept
  /\ \E lucky \in {{}} \cup {{q} : q \in BObj} :
       LET marks == Reach
           d == UpdateAll([g |-> GC_build_back_graph(lucky), h |-> 0, obj |-> deepest_obj],
                          BObjOrder, marks, gc_no_ + 1)
           dead == debug \ marks
       IN /\ graph' = d.g
          /\ deepest_height' = d.h
          /\ deepest_obj' = d.obj
          /\ marked_' = Kept(marks, d.obj)
          /\ past' = [p \in BObj |-> IF p \notin marks THEN past[p]
                                         ELSE IF Acyclic(dead) THEN TrueHeight(dead, p)
                                         ELSE HeightIn(d.g, p)]
          /\ scanned' = marks
  /\ gc_no_' = gc_no_ + 1
  /\ UNCHANGED <<heapGraphVars, last_bt, max_deepest_h, printing, changes>>

\* What is left of a retained structure: the height.
Emptied(b) == [b EXCEPT !.n_edges = 0, !.edges = <<>>, !.cont = 0, !.retain = FALSE]

reset_back_edge(g, p) ==
  LET i == g.ptr[p]
      rest == g.be[i].cont
  IN IF p \notin debug THEN g
     ELSE IF ~Many(g, p) THEN [g EXCEPT !.ptr[p] = 0]
     ELSE IF ~g.be[i].retain THEN [deallocate_back_edges(g, i) EXCEPT !.ptr[p] = 0]
     ELSE [(IF rest # 0 THEN deallocate_back_edges(g, rest) ELSE g) EXCEPT
             !.be[i] = Emptied(@)]

RECURSIVE ResetAll(_, _)
ResetAll(g, objs) == IF objs = <<>> THEN g ELSE ResetAll(reset_back_edge(g, objs[1]), Tail(objs))

\* GC_print_back_graph_stats up to the unlocked printing, if there is any.
GC_print_back_graph_stats ==
  /\ last_bt # gc_no_
  /\ last_bt' = gc_no_
  /\ \/ /\ deepest_height > max_deepest_h
        /\ max_deepest_h' = deepest_height
        /\ printing' = TRUE
        /\ UNCHANGED <<graph, deepest_obj>>
     \/ /\ deepest_height <= max_deepest_h
        /\ graph' = ResetAll(graph, BObjOrder)
        /\ deepest_obj' = NoBObj
        /\ UNCHANGED <<max_deepest_h, printing>>
  /\ UNCHANGED <<heapGraphVars, marked_, gc_no_, deepest_height, past, scanned, changes>>

\* The lock is taken again.
PrintOver ==
  /\ printing
  /\ printing' = FALSE
  /\ graph' = ResetAll(graph, BObjOrder)
  /\ deepest_obj' = NoBObj
  /\ UNCHANGED <<heapGraphVars, marked_, gc_no_, last_bt, deepest_height, max_deepest_h, past, scanned, changes>>

-----------------------------------------------------------------------------
(* The client. *)

Change == changes < MaxChanges /\ changes' = changes + 1

\* GC_debug_malloc: oh_bg_ptr is cleared, whatever structure it named before.
GC_store_debug_info(p) ==
  /\ p \notin debug
  /\ Change
  /\ debug' = debug \cup {p} /\ rooted' = rooted \cup {p}
  /\ fields' = [fields EXCEPT ![p] = {}]
  /\ marked_' = marked_ \cup {p}       \* not swept before the next collection
  /\ graph' = [graph EXCEPT !.ptr[p] = 0]
  /\ past' = [past EXCEPT ![p] = 0]
  /\ UNCHANGED <<gc_no_, last_bt, deepestVars, printing, scanned>>

ClientWrite(p, q) ==
  /\ {p, q} \subseteq Reach
  /\ q \notin fields[p]
  /\ Change
  /\ fields' = [fields EXCEPT ![p] = @ \cup {q}]
  /\ UNCHANGED <<debug, rooted, marked_, graph, gc_no_, last_bt, deepestVars, printing, past, scanned>>

ClientDrops(p) ==
  /\ p \in rooted
  /\ rooted' = rooted \ {p}
  /\ UNCHANGED <<debug, fields, marked_, graph, gc_no_, last_bt, deepestVars, printing, past,
                 scanned, changes>>

\* GC_debug_free: the structure of p, if any, is never returned to the pool.
GC_debug_free(p) ==
  /\ p \in Reach
  /\ Change
  /\ debug' = debug \ {p} /\ rooted' = rooted \ {p}
  /\ fields' = [q \in BObj |-> IF q = p THEN {} ELSE fields[q] \ {p}]
  /\ scanned' = scanned \ {p}
  /\ UNCHANGED <<marked_, graph, gc_no_, last_bt, deepestVars, printing, past>>

BackGraphNext ==
  \/ GC_stopped_collection \/ GC_print_back_graph_stats \/ PrintOver
  \/ \E p \in BObj : GC_store_debug_info(p) \/ ClientDrops(p) \/ Sweep(p) \/ GC_debug_free(p)
  \/ \E p, q \in BObj : ClientWrite(p, q)

BackGraphSpec == BackGraphInit /\ [][BackGraphNext]_backGraphVars

-----------------------------------------------------------------------------

BackGraphTypeOK ==
  /\ debug \subseteq BObj /\ rooted \subseteq debug /\ marked_ \subseteq BObj
  /\ graph.n < MAX_BACK_EDGE_STRUCTS /\ graph.avail \in 0..graph.n
  /\ \A p \in debug : graph.ptr[p] \in {0} \cup 1..graph.n \cup BObj
  /\ deepest_obj \in BObj \cup {NoBObj} /\ deepest_height \in Nat

\* A back_edges structure has one owner: it is in the chain of at most one
\* object, or on the free list, and in either once (deallocate_back_edges
\* splices whole chains, and a retained structure gives up only its
\* continuations).
OwnedOnce ==
  LET owners == {p \in debug : Many(graph, p)}
      used(p) == ToSet(Chain(graph.be, graph.ptr[p]))
      free == Chain(graph.be, graph.avail)
  IN /\ \A p \in owners : used(p) \cap ToSet(free) = {}
     /\ \A p, q \in owners : p # q => used(p) \cap used(q) = {}
     /\ IsInjective(free)
     /\ \A p \in owners : IsInjective(Chain(graph.be, graph.ptr[p]))

\* With the dead objects free of cycles, the heights the traversal leaves
\* in the structures (through cached, in-progress and remembered values)
\* are those of the definition: the longest chain of unreachable objects
\* leading to the object, in this collection or in an earlier one.
HeightsExact ==
  gc_no_ # last_bt => \A p \in scanned : HeightIn(graph, p) = past[p]

\* The object GC_print_back_graph_stats prints is one: when the height is
\* a new record it comes from an object of this collection (not from a
\* remembered height, which was a record already), and its mark bit has
\* kept it from the sweep until the lock is released to print it.
PrintedIsKept ==
  (printing \/ (gc_no_ # last_bt /\ deepest_height > max_deepest_h)) =>
     deepest_obj \in debug
=============================================================================
