---------------------------- MODULE ThreadTable ----------------------------
(***************************************************************************)
(* The registry of threads (pthread_support.c): the wrappers of            *)
(* pthread_create, join, detach, cancel and exit, the explicit             *)
(* registration of threads made elsewhere and of threads whose key         *)
(* destructors run, and fork.  Thread ids are recycled by the system once  *)
(* a thread is joined or, if detached, gone; a descriptor is recycled once *)
(* it is freed.  The table is one chain, searched from its newest entry.   *)
(* Every critical section of the allocator lock is one step; joining and   *)
(* detaching release the lock between the lookup and the rest.             *)
(***************************************************************************)
EXTENDS Integers, Sequences, SequencesExt, FiniteSets

CONSTANTS Tid, Main,      \* thread ids, the main thread
          Desc, first_thread,   \* thread descriptors, the static one
          NoDesc,
          MaxGcNo,        \* bound on the number of collections
          MaxDontGc       \* bound on GC_dont_gc, of either sign

\* What is assumed of the constants.
ThreadTableAssumption ==
    /\ Main \in Tid /\ first_thread \in Desc /\ NoDesc \notin Desc
    /\ MaxGcNo \in Nat /\ MaxDontGc \in Nat

VARIABLES
    os,           \* what the thread with an id does
    wrapped,      \* made by GC_pthread_create
    osDetached,   \* detached, as the system sees it
    GC_threads,   \* descriptors in the table, the newest first
    dsc,          \* their id and flags
    calls,        \* GC_pthread_join and GC_pthread_detach in flight
    me,           \* the descriptor the start routine of the wrapper keeps
    GC_dont_gc,
    gcNo, inProgress,     \* incremental collections
    pushed,       \* stacks on its mark stack: id, number of the collection
    exitNo,       \* GC_gc_no when the thread began to unregister
    adopted       \* descriptors whose join or detach has been lost: taken over by
                  \* a thread with the recycled id, or left over by fork

osVars == <<os, wrapped, osDetached>>
tableVars == <<GC_threads, dsc, me>>
gcVars == <<gcNo, inProgress, pushed>>
threadTableVars == <<osVars, tableVars, calls, GC_dont_gc, gcVars, exitNo, adopted>>

\* "new" is not registered yet; "out" was made elsewhere and is not registered;
\* "run" is registered; "destr" runs the destructors of its keys after the exit
\* handler, "dreg" registered again in one; the others wait to unregister.
States == {"free", "new", "out", "run", "exit", "outexit", "destr", "dreg", "dregexit", "zombie"}
After == [exit |-> "destr", outexit |-> "out", dregexit |-> "destr"]
Registering == {"run", "dreg", "exit", "outexit", "dregexit"}

InTable == ToSet(GC_threads)
Blank == [id |-> Main, finished |-> FALSE, detached |-> FALSE, disabled |-> FALSE]

\* Types of the threads and of the table.
ThreadTableTypeOK ==
    /\ os \in [Tid -> States] /\ wrapped \subseteq Tid /\ osDetached \subseteq Tid
    /\ GC_threads \in Seq(Desc) /\ Cardinality(InTable) = Len(GC_threads)
    /\ dsc \in [Desc -> [id : Tid, finished : BOOLEAN, detached : BOOLEAN, disabled : BOOLEAN]]
    /\ calls \subseteq [fn : {"join", "detach"}, id : Tid, t : Desc \cup {NoDesc}, at : {"real", "post"}]
    /\ me \in [Tid -> Desc \cup {NoDesc}]
    /\ GC_dont_gc \in -MaxDontGc .. MaxDontGc /\ gcNo \in 0 .. MaxGcNo /\ inProgress \in BOOLEAN
    /\ pushed \subseteq Tid \X Nat /\ exitNo \in [Tid -> Int] /\ adopted \subseteq Desc

ThreadTableInit ==
    /\ os = [i \in Tid |-> IF i = Main THEN "run" ELSE "free"]
    /\ wrapped = {} /\ osDetached = {}
    /\ GC_threads = <<first_thread>>
    /\ dsc = [d \in Desc |-> IF d = first_thread THEN [Blank EXCEPT !.detached = TRUE] ELSE Blank]
    /\ calls = {} /\ me = [i \in Tid |-> NoDesc]
    /\ GC_dont_gc = 0 /\ gcNo = 0 /\ inProgress = FALSE /\ pushed = {}
    /\ exitNo = [i \in Tid |-> -1] /\ adopted = {}

(***************************************************************************)
(* The table.                                                              *)
(***************************************************************************)
\* GC_lookup_thread, GC_lookup_by_pthread, GC_self_thread_inner.
Lookup(i) ==
    LET found == SelectSeq(GC_threads, LAMBDA d : dsc[d].id = i)
    IN IF found = <<>> THEN NoDesc ELSE Head(found)

\* GC_new_thread for thread i.
NewThread(d, i, detached) ==
    /\ d \in Desc \ (InTable \cup {first_thread})
    /\ GC_threads' = <<d>> \o GC_threads
    /\ dsc' = [dsc EXCEPT ![d] = [Blank EXCEPT !.id = i, !.detached = detached]]

\* The rest of the table, in the places that delete a descriptor.
Without(d) == SelectSeq(GC_threads, LAMBDA x : x # d)

(***************************************************************************)
(* Making a thread.                                                        *)
(***************************************************************************)
SomeoneRuns == \E i \in Tid : os[i] \in {"run", "dreg"}

\* GC_pthread_create; the caller returns when the new thread has registered.
Create(i, detached) ==
    /\ SomeoneRuns /\ os[i] = "free"
    /\ os' = [os EXCEPT ![i] = "new"]
    /\ wrapped' = wrapped \cup {i}
    /\ osDetached' = IF detached THEN osDetached \cup {i} ELSE osDetached \ {i}
    /\ UNCHANGED <<tableVars, calls, GC_dont_gc, gcVars, exitNo, adopted>>

\* A thread made without the wrapper.
CreateForeign(i) ==
    /\ SomeoneRuns /\ os[i] = "free"
    /\ os' = [os EXCEPT ![i] = "out"]
    /\ wrapped' = wrapped \ {i} /\ osDetached' = osDetached \ {i}
    /\ UNCHANGED <<tableVars, calls, GC_dont_gc, gcVars, exitNo, adopted>>

\* GC_start_rtn_prepare_thread.
StartThread_(i, d) ==
    /\ os[i] = "new"
    /\ NewThread(d, i, i \in osDetached)
    /\ os' = [os EXCEPT ![i] = "run"]
    /\ me' = [me EXCEPT ![i] = d]
    /\ UNCHANGED <<wrapped, osDetached, calls, GC_dont_gc, gcVars, exitNo, adopted>>

\* GC_register_my_thread, from a thread made elsewhere or from a destructor.
GC_register_my_thread(i) ==
    /\ os[i] \in {"out", "destr"} /\ GC_dont_gc > -MaxDontGc
    /\ os' = [os EXCEPT ![i] = IF @ = "out" THEN "run" ELSE "dreg"]
    /\ IF Lookup(i) = NoDesc THEN \E d \in Desc : NewThread(d, i, TRUE)
       ELSE /\ dsc[Lookup(i)].finished
            /\ dsc' = [dsc EXCEPT ![Lookup(i)].finished = FALSE]
            /\ UNCHANGED GC_threads
    /\ adopted' = adopted \cup {c.t : c \in {x \in calls : x.at = "post" /\ x.t = Lookup(i)}}
    /\ UNCHANGED <<wrapped, osDetached, me, calls, GC_dont_gc, gcVars, exitNo>>

(***************************************************************************)
(* The end of a thread.                                                    *)
(***************************************************************************)
\* disable_gc_for_pthread.
DisableGc(d) ==
    IF d # NoDesc /\ ~dsc[d].disabled
    THEN dsc' = [dsc EXCEPT ![d].disabled = TRUE] /\ GC_dont_gc' = GC_dont_gc + 1
    ELSE UNCHANGED <<dsc, GC_dont_gc>>

\* GC_pthread_cancel of a thread whose id is valid.
Cancel(i) ==
    /\ SomeoneRuns /\ os[i] \notin {"free", "new"} /\ i \in wrapped /\ GC_dont_gc < MaxDontGc
    /\ DisableGc(Lookup(i))
    /\ UNCHANGED <<osVars, GC_threads, me, calls, gcVars, exitNo, adopted>>

\* The thread is about to unregister, perhaps through GC_pthread_exit.
Exiting(i, throughExit) ==
    /\ os[i] \in {"run", "dreg"} /\ i # Main
    /\ os' = [os EXCEPT ![i] = IF @ = "dreg" THEN "dregexit"
                               ELSE IF i \in wrapped THEN "exit" ELSE "outexit"]
    /\ throughExit => GC_dont_gc < MaxDontGc
    /\ IF throughExit /\ os[i] = "run" /\ i \in wrapped THEN DisableGc(Lookup(i))
       ELSE UNCHANGED <<dsc, GC_dont_gc>>
    /\ exitNo' = [exitNo EXCEPT ![i] = gcNo]
    /\ UNCHANGED <<wrapped, osDetached, GC_threads, me, calls, gcVars, adopted>>

\* GC_wait_for_gc_completion(FALSE) has nothing left to wait for.
WaitOver(i) == ~inProgress \/ gcNo # exitNo[i]

\* Mutant: the descriptor is deleted though the thread may still be joined.
UnregisterDeletes(i) ==
    /\ os[i] \in DOMAIN After /\ WaitOver(i)
    /\ LET d == IF os[i] = "exit" THEN me[i] ELSE Lookup(i)
       IN /\ GC_dont_gc' = GC_dont_gc - (IF dsc[d].disabled THEN 1 ELSE 0)
          /\ GC_threads' = Without(d) /\ dsc' = [dsc EXCEPT ![d].finished = TRUE]
    /\ os' = [os EXCEPT ![i] = After[@]]
    /\ UNCHANGED <<wrapped, osDetached, me, calls, gcVars, exitNo, adopted>>

\* GC_unregister_my_thread_inner: from GC_thread_exit_proc with the descriptor
\* kept by the start routine, from GC_unregister_my_thread with the one found.
Unregister_(i) ==
    /\ os[i] \in DOMAIN After /\ WaitOver(i)
    /\ LET d == IF os[i] = "exit" THEN me[i] ELSE Lookup(i)
       IN /\ GC_dont_gc' = GC_dont_gc - (IF dsc[d].disabled THEN 1 ELSE 0)
          /\ IF dsc[d].detached THEN GC_threads' = Without(d) /\ UNCHANGED dsc
             ELSE dsc' = [dsc EXCEPT ![d].finished = TRUE] /\ UNCHANGED GC_threads
    /\ os' = [os EXCEPT ![i] = After[@]]
    /\ UNCHANGED <<wrapped, osDetached, me, calls, gcVars, exitNo, adopted>>

\* The system ends the thread, and unmaps its stack.
Die(i) ==
    /\ os[i] \in {"destr", "out"}
    /\ os' = [os EXCEPT ![i] = IF i \in wrapped /\ i \notin osDetached THEN "zombie" ELSE "free"]
    /\ UNCHANGED <<wrapped, osDetached, tableVars, calls, GC_dont_gc, gcVars, exitNo, adopted>>

\* GC_pthread_join, GC_pthread_detach: the lookup.
Joinable(i) == i \in wrapped /\ i \notin osDetached /\ os[i] \notin {"free", "new"}

CallOn(fn, i) ==
    /\ SomeoneRuns /\ Joinable(i) /\ ~\E c \in calls : c.id = i /\ c.at = "real"
    /\ calls' = calls \cup {[fn |-> fn, id |-> i, t |-> Lookup(i), at |-> "real"]}
    /\ UNCHANGED <<osVars, tableVars, GC_dont_gc, gcVars, exitNo, adopted>>

\* The call of the system; the id of a thread that has ended is free after it.
RealCall(c) ==
    /\ c \in calls /\ c.at = "real" /\ (c.fn = "join" => os[c.id] = "zombie")
    /\ os' = [os EXCEPT ![c.id] = IF @ = "zombie" THEN "free" ELSE @]
    /\ osDetached' = IF c.fn = "detach" THEN osDetached \cup {c.id} ELSE osDetached
    /\ calls' = (calls \ {c}) \cup {[c EXCEPT !.at = "post"]}
    /\ UNCHANGED <<wrapped, tableVars, GC_dont_gc, gcVars, exitNo, adopted>>

\* The rest of the wrapper.
PostCall(c) ==
    /\ c \in calls /\ c.at = "post"
    /\ IF dsc[c.t].finished THEN GC_threads' = Without(c.t) /\ UNCHANGED dsc
       ELSE /\ dsc' = IF c.fn = "detach" THEN [dsc EXCEPT ![c.t].detached = TRUE] ELSE dsc
            /\ UNCHANGED GC_threads
    /\ calls' = calls \ {c}
    /\ UNCHANGED <<osVars, me, GC_dont_gc, gcVars, exitNo, adopted>>

(***************************************************************************)
(* Collections of the other threads, and fork.                             *)
(***************************************************************************)
\* An incremental collection starts and pushes the stacks of the table.
CollectionStart ==
    /\ SomeoneRuns /\ ~inProgress /\ gcNo < MaxGcNo /\ GC_dont_gc = 0
    /\ inProgress' = TRUE
    /\ pushed' = {<<dsc[d].id, gcNo>> : d \in {x \in InTable : ~dsc[x].finished}}
    /\ UNCHANGED <<osVars, tableVars, calls, GC_dont_gc, gcNo, exitNo, adopted>>

CollectionEnd ==
    /\ inProgress
    /\ inProgress' = FALSE /\ gcNo' = gcNo + 1 /\ pushed' = {}
    /\ UNCHANGED <<osVars, tableVars, calls, GC_dont_gc, exitNo, adopted>>

\* The child after a fork by thread i: fork_prepare_proc waits for the end of
\* the collection if i is registered, and GC_remove_all_threads_but_me leaves
\* its descriptor.  The stacks of the others stay mapped in the child.
Fork(i) ==
    /\ os[i] \in {"run", "dreg", "out"}
    /\ Lookup(i) # NoDesc /\ ~dsc[Lookup(i)].finished => ~inProgress
    /\ os' = [j \in Tid |-> IF j = i THEN os[i] ELSE "free"]
    /\ GC_threads' = IF Lookup(i) = NoDesc THEN <<>> ELSE <<Lookup(i)>>
    /\ adopted' = Desc /\ calls' = {} /\ pushed' = {p \in pushed : p[1] = i}
    /\ UNCHANGED <<wrapped, osDetached, dsc, me, GC_dont_gc, gcNo, inProgress, exitNo>>

ThreadTableNext ==
    \/ \E i \in Tid :
        \/ \E b \in BOOLEAN : Create(i, b) \/ Exiting(i, b)
        \/ CreateForeign(i) \/ GC_register_my_thread(i) \/ Cancel(i) \/ Unregister_(i) \/ Die(i)
        \/ \E d \in Desc : StartThread_(i, d)
        \/ \E fn \in {"join", "detach"} : CallOn(fn, i)
        \/ Fork(i)
    \/ \E c \in calls : RealCall(c) \/ PostCall(c)
    \/ CollectionStart \/ CollectionEnd

(***************************************************************************)
(* Properties.                                                             *)
(***************************************************************************)
\* A registered thread is found under its id, in a descriptor of its own that is
\* not finished: however ids and descriptors are recycled while joins and
\* detaches are in flight, a collection suspends and scans every thread that
\* may use the heap, and no thread twice.
RegisteredFound ==
    \A i \in Tid : os[i] \in Registering =>
        /\ Lookup(i) # NoDesc /\ ~dsc[Lookup(i)].finished
        /\ \A d \in InTable : dsc[d].id = i /\ ~dsc[d].finished => d = Lookup(i)
        /\ os[i] = "exit" => me[i] = Lookup(i)

\* The descriptor that GC_pthread_join and GC_pthread_detach keep across the
\* call of the system is in the table when they use it again.
CallsKeepDescriptor == \A c \in calls : c.t \in InTable

\* A descriptor outlives its thread only until the join or the detach, unless a
\* later thread with the recycled id has taken it over.
NoStrayDescriptor ==
    \A d \in InTable \ adopted : dsc[d].finished =>
        \/ os[dsc[d].id] \in {"destr", "zombie"}
        \/ \E c \in calls : c.t = d

\* A thread that unregisters waits until the collection that was going on when
\* it began has ended: the mark stack of that collection does not refer to a
\* stack that is gone.
OwnCollectionOver ==
    \A i \in Tid : os[i] \in {"zombie", "destr"} /\ exitNo[i] >= 0 => <<i, exitNo[i]>> \notin pushed
=============================================================================
