----------------------------- MODULE HeapGraph -----------------------------
(***************************************************************************)
(* The object graph that the collector traces, and reachability in it: the *)
(* reference notion of what a collector must keep.  A node is an object or *)
(* a static root segment; g[n][f] is what field f of node n points to.     *)
(***************************************************************************)
CONSTANTS Obj, Root, Field, Null

ASSUME NodesDistinct == Obj \cap Root = {} /\ Null \notin Obj \cup Root

Node == Obj \cup Root
Graphs == [Node -> [Field -> Obj \cup {Null}]]

\* R holds S and what the roots point to, and no edge leaves it.
Closed(g, R, S) ==
    /\ S \subseteq R
    /\ \A n \in R \cup Root, f \in Field : g[n][f] \in R \cup {Null}

\* The least closed set.
Reach(g, S) == {o \in Obj : \A R \in SUBSET Obj : Closed(g, R, S) => o \in R}

\* g with the fields of the nodes of D cleared.
Cleared(g, D) == [n \in Node |-> IF n \in D THEN [f \in Field |-> Null] ELSE g[n]]
=============================================================================
