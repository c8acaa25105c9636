----------------------------- MODULE DarwinStop -----------------------------
(***************************************************************************)
(* Stopping the world on Darwin when the threads are listed by the kernel  *)
(* (darwin_stop_world.c, DARWIN_PARSE_STACK): the thread list is taken     *)
(* again until it holds no thread that was not in the previous one, while  *)
(* the threads not yet suspended go on creating threads and exiting.       *)
(*                                                                         *)
(* A thread is known by the name of its port.  The kernel lists threads in *)
(* the order of their creation; the name of a thread that is gone is used  *)
(* again once the task holds no right for it (mach is external).           *)
(***************************************************************************)
EXTENDS Naturals, Integers, Sequences, SequencesExt, FiniteSets

CONSTANTS
    MachPort,       \* names of thread ports
    SelfPort,       \* the collecting thread (my_thread)
    HandlerPort,    \* GC_mach_handler_thread, or a parallel marker
    MaxSpawns,      \* bound: threads created
    MaxWorldStops   \* bound: collections

\* What is assumed of the constants.
DarwinStopAssumption ==
    SelfPort \in MachPort /\ HandlerPort \in MachPort /\ SelfPort # HandlerPort

VARIABLES
    alive,          \* the threads of the task, in the order the kernel lists them
    suspendCnt,     \* how often a thread is suspended
    rights,         \* send rights the collector holds for a port
    GC_mach_threads,\* what GC_stop_world suspended: <<[thread, suspended], ...>>
    dpc,            \* where the collector is
    act_list, prev_list, li, lj, changed,   \* locals of the loops
    spawns, worldStops

darwinVars == <<alive, suspendCnt, rights, GC_mach_threads, dpc, act_list, prev_list, li, lj, changed, spawns, worldStops>>
kernelVars == <<alive, suspendCnt, spawns>>

Clients == ToSet(alive) \ {SelfPort, HandlerPort}

DarwinStopTypeOK ==
    /\ ToSet(alive) \subseteq MachPort /\ IsInjective(alive)
    /\ suspendCnt \in [MachPort -> 0 .. MaxWorldStops] /\ rights \in [MachPort -> 0 .. 4]
    /\ \A k \in DOMAIN GC_mach_threads : GC_mach_threads[k] \in [thread : MachPort, suspended : BOOLEAN]
    /\ dpc \in {"idle", "list", "suspend", "stopped", "resume"}
    /\ ToSet(act_list) \cup ToSet(prev_list) \subseteq MachPort
    /\ li \in 1 .. Cardinality(MachPort) + 1 /\ lj \in -1 .. Cardinality(MachPort)
    /\ changed \in BOOLEAN /\ spawns \in 0 .. MaxSpawns /\ worldStops \in 0 .. MaxWorldStops

DarwinStopInit ==
    /\ alive \in {<<SelfPort, HandlerPort, p>> : p \in MachPort \ {SelfPort, HandlerPort}}
    /\ suspendCnt = [p \in MachPort |-> 0] /\ rights = [p \in MachPort |-> 0]
    /\ GC_mach_threads = <<>> /\ dpc = "idle"
    /\ act_list = <<>> /\ prev_list = <<>> /\ li = 1 /\ lj = -1 /\ changed = FALSE
    /\ spawns = 0 /\ worldStops = 0

(***************************************************************************)
(* The threads.                                                            *)
(***************************************************************************)
Runs(p) == p \in Clients /\ suspendCnt[p] = 0

\* A thread creates another, which gets a name no right is held for.
SpawnThread(p, new) ==
    /\ Runs(p) /\ spawns < MaxSpawns
    /\ new \in MachPort \ ToSet(alive) /\ rights[new] = 0
    /\ alive' = Append(alive, new) /\ spawns' = spawns + 1
    /\ UNCHANGED <<suspendCnt, rights, GC_mach_threads, dpc, act_list, prev_list, li, lj, changed, worldStops>>

ThreadEnds(p) ==
    /\ Runs(p)
    /\ alive' = SelectSeq(alive, LAMBDA q : q # p)
    /\ UNCHANGED <<suspendCnt, rights, GC_mach_threads, dpc, act_list, prev_list, li, lj, changed, spawns, worldStops>>

(***************************************************************************)
(* The search of both loops, in an array indexed from 0: from the position *)
(* after the last one found to the end, then from the start up to it.      *)
(***************************************************************************)
Find(list, from, below, p) ==
    LET hits == {k \in from .. below - 1 : list[k + 1] = p}
    IN  IF hits = {} THEN below ELSE CHOOSE k \in hits : \A h \in hits : k <= h

\* Where the search ends, and whether it ends at p.
SearchList(list, last, p) ==
    LET n == Len(list)
        after == Find(list, last + 1, n, p)
        before == IF last < 0 THEN 0 ELSE Find(list, 0, last, p)
    IN  IF after < n THEN [j |-> after, found |-> TRUE]
        ELSE [j |-> before, found |-> before < last]

Release(r, p) == [r EXCEPT ![p] = @ - 1]
Listed_(r) == [p \in MachPort |-> IF p \in ToSet(alive) THEN r[p] + 1 ELSE r[p]]

(***************************************************************************)
(* GC_stop_world.                                                          *)
(***************************************************************************)
StopBegins ==
    /\ dpc = "idle" /\ worldStops < MaxWorldStops
    /\ GC_mach_threads' = <<>> /\ changed' = TRUE /\ prev_list' = <<>> /\ dpc' = "list"
    /\ worldStops' = worldStops + 1
    /\ UNCHANGED <<kernelVars, rights, act_list, li, lj>>

\* task_threads, while the last list had a new thread; it may fail, and is
\* then called again.
TaskThreads ==
    /\ dpc = "list" /\ changed
    /\ act_list' = alive /\ rights' = Listed_(rights)
    /\ li' = 1 /\ lj' = -1 /\ changed' = FALSE /\ dpc' = "suspend"
    /\ UNCHANGED <<kernelVars, GC_mach_threads, prev_list, worldStops>>

\* A mutant: a new thread does not call for another list.
NewThreadUnnoticed(p) ==
    /\ GC_mach_threads' = Append(GC_mach_threads, [thread |-> p, suspended |-> p \in ToSet(alive)])
    /\ suspendCnt' = [suspendCnt EXCEPT ![p] = IF p \in ToSet(alive) THEN @ + 1 ELSE @]
    /\ UNCHANGED <<rights, changed>>

\* A thread not in the previous list is suspended, unless it is gone; its
\* port is kept.
NewThread_(p) ==
    /\ GC_mach_threads' = Append(GC_mach_threads, [thread |-> p, suspended |-> p \in ToSet(alive)])
    /\ suspendCnt' = [suspendCnt EXCEPT ![p] = IF p \in ToSet(alive) THEN @ + 1 ELSE @]
    /\ changed' = TRUE
    /\ UNCHANGED rights

\* One pass of the loop of GC_suspend_thread_list.
SuspendNext ==
    /\ dpc = "suspend" /\ li <= Len(act_list)
    /\ LET p == act_list[li]
           s == SearchList(prev_list, lj, p)
       IN  IF p \in {SelfPort, HandlerPort}
           THEN rights' = Release(rights, p) /\ UNCHANGED <<suspendCnt, GC_mach_threads, changed, lj>>
           ELSE /\ lj' = s.j
                /\ IF s.found THEN /\ rights' = Release(rights, p)
                                   /\ UNCHANGED <<suspendCnt, GC_mach_threads, changed>>
                   ELSE NewThread_(p)
    /\ li' = li + 1
    /\ UNCHANGED <<alive, dpc, act_list, prev_list, spawns, worldStops>>

ListDone ==
    /\ dpc = "suspend" /\ li > Len(act_list)
    /\ prev_list' = act_list
    /\ dpc' = IF changed THEN "list" ELSE "stopped"
    /\ UNCHANGED <<kernelVars, rights, GC_mach_threads, act_list, li, lj, changed,
                   worldStops>>

(***************************************************************************)
(* GC_start_world.                                                         *)
(***************************************************************************)
StartBegins ==
    /\ dpc = "stopped" /\ dpc' = "resume"
    /\ act_list' = alive /\ rights' = Listed_(rights)
    /\ li' = 1 /\ lj' = Len(alive)
    /\ UNCHANGED <<kernelVars, GC_mach_threads, prev_list, changed, worldStops>>

\* Whether the thread is found again, and where.
ResumeSearch(list, last, p) ==
    LET n == Len(list)
        after == Find(list, last + 1, n, p)
        j == IF after < n THEN after ELSE Find(list, 0, last, p)
    IN  [j |-> j, found |-> j # last]

ResumeNext ==
    /\ dpc = "resume" /\ li <= Len(GC_mach_threads)
    /\ LET e == GC_mach_threads[li]
           s == ResumeSearch(act_list, lj, e.thread)
       IN  /\ IF e.suspended
              THEN /\ lj' = s.j
                   /\ suspendCnt' = [suspendCnt EXCEPT ![e.thread] = IF s.found THEN @ - 1 ELSE @]
              ELSE UNCHANGED <<lj, suspendCnt>>
           /\ rights' = Release(rights, e.thread)
    /\ li' = li + 1
    /\ UNCHANGED <<alive, GC_mach_threads, dpc, act_list, prev_list, changed, spawns,
                   worldStops>>

\* The rights of the second list are given back.
StartEnds ==
    /\ dpc = "resume" /\ li > Len(GC_mach_threads)
    /\ rights' = [p \in MachPort |-> IF p \in ToSet(act_list) THEN rights[p] - 1 ELSE rights[p]]
    /\ dpc' = "idle" /\ li' = 1 /\ lj' = -1 /\ act_list' = <<>> /\ prev_list' = <<>>
    /\ GC_mach_threads' = <<>>
    /\ UNCHANGED <<kernelVars, changed, worldStops>>

DarwinStopNext ==
    \/ \E p \in MachPort : ThreadEnds(p) \/ \E new \in MachPort : SpawnThread(p, new)
    \/ StopBegins \/ TaskThreads \/ SuspendNext \/ ListDone
    \/ StartBegins \/ ResumeNext \/ StartEnds
DarwinStopSpec == DarwinStopInit /\ [][DarwinStopNext]_darwinVars

(***************************************************************************)
(* Properties.                                                             *)
(***************************************************************************)
\* When GC_stop_world returns, no client thread runs, those included that were
\* created while the others were being suspended, and each is suspended once.
AllThreadsStopped ==
    dpc = "stopped" => \A p \in Clients : suspendCnt[p] = 1

\* After GC_start_world every thread runs again, and no port is kept: nothing
\* that was suspended is passed over in the search, and nothing resumed twice.
AllThreadsResumed ==
    dpc = "idle" => \A p \in MachPort : (p \in ToSet(alive) => suspendCnt[p] = 0) /\ rights[p] = 0
=============================================================================
