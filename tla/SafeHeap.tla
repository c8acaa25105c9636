------------------------------ MODULE SafeHeap ------------------------------
(***************************************************************************)
(* What the collector promises its client: a heap whose objects keep their *)
(* contents as long as the program can reach them.  An object is handed    *)
(* out only while it is available, it is then empty, and it becomes        *)
(* available again only when it is unreachable or was freed.               *)
(***************************************************************************)
EXTENDS HeapGraph

VARIABLES
    ptr,     \* the object graph
    stk,     \* objects the program's stacks and registers point to
    owned,   \* uncollectable objects the program has not freed
    avail    \* objects that may be handed out

heap == <<ptr, stk, owned, avail>>

Live == Reach(ptr, stk \cup owned)

Init ==
    /\ ptr = [n \in Node |-> [f \in Field |-> Null]]
    /\ stk = {} /\ owned = {}
    /\ avail = Obj

Read(n, f) ==
    /\ n \in stk \cup owned \cup Root /\ ptr[n][f] # Null
    /\ stk' = stk \cup {ptr[n][f]}
    /\ UNCHANGED <<ptr, owned, avail>>

Drop(o) == stk' = stk \ {o} /\ UNCHANGED <<ptr, owned, avail>>

Write(n, f, v) ==
    /\ n \in stk \cup owned \cup Root /\ v \in stk \cup {Null}
    /\ ptr' = [ptr EXCEPT ![n][f] = v]
    /\ UNCHANGED <<stk, owned, avail>>

\* An allocated object is fresh: it is not live, and its fields are empty.
Allocate(o) ==
    /\ o \in avail
    /\ \A f \in Field : ptr[o][f] = Null
    /\ stk' = stk \cup {o}
    /\ owned' \in {owned, owned \cup {o}}
    /\ avail' = avail \ {o}
    /\ UNCHANGED ptr

Free(o) ==
    /\ o \notin Reach(ptr, (stk \cup owned) \ {o})
    /\ stk' = stk \ {o} /\ owned' = owned \ {o}
    /\ avail' = avail \cup {o}
    /\ ptr' = Cleared(ptr, {o})

\* The collector takes or gives back dead objects, and wipes only dead ones.
Collect ==
    /\ avail' \in SUBSET (Obj \ Live)
    /\ \E D \in SUBSET (Obj \ Live) : ptr' = Cleared(ptr, D)
    /\ UNCHANGED <<stk, owned>>

Next ==
    \/ \E n \in Node, f \in Field : Read(n, f) \/ \E v \in Obj \cup {Null} : Write(n, f, v)
    \/ \E o \in Obj : Drop(o) \/ Allocate(o) \/ Free(o)
    \/ Collect

Spec == Init /\ [][Next]_heap
=============================================================================
