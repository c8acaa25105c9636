--------------------------- MODULE Win32Threads ---------------------------
(***************************************************************************)
(* Windows threads discovered by DllMain (GC_win32_dll_threads).  A thread *)
(* enters and leaves dll_thread_table in GC_DllMain without the allocator  *)
(* lock, also while the world is being stopped, is stopped or restarts;    *)
(* the collector (the thread in the first entry) suspends, scans and       *)
(* resumes what it finds in the table.                                     *)
(*                                                                         *)
(* An entry is abstracted to the fields the two sides race on.  GC_suspend *)
(* always gets the context of a thread it has suspended, and thread-local  *)
(* free lists are left out.                                                *)
(***************************************************************************)
EXTENDS Naturals, FiniteSets

CONSTANTS
    WThr,         \* ids of threads other than the collecting one
    MainThr,      \* GC_main_thread_id: the thread that collects
    NoThr,        \* no thread: the id 0, or a closed handle
    MAX_THREADS,  \* length of dll_thread_table
    MaxAttaches,  \* bound on the threads started
    MaxStops      \* bound on the collections

\* What is assumed of the constants.
Win32ThreadsAssumption ==
    MainThr \notin WThr /\ NoThr \notin WThr \union {MainThr} /\ MAX_THREADS \in Nat \ {0}

VARIABLES
    entry,        \* dll_thread_table
    GC_max_thread_index_p1,
    GC_please_stop,
    GC_attached_thread,
    GC_has_pending_delete_threads,
    detachLock,   \* GC_dll_main_detach_thread_lock: its holder
    worldPc,          \* where each thread is
    widx,         \* i of GC_register_my_thread_inner, or t of GC_DllMain
    suspended,    \* threads the system has suspended
    coll,         \* the collector: where, its i and my_max
    pushedStacks,       \* threads whose stack the current marking has pushed
    attaches, stops,
    staleHandle   \* ghost: a closed handle was used

win32Vars == <<entry, GC_max_thread_index_p1, GC_please_stop,
               GC_attached_thread, GC_has_pending_delete_threads, detachLock,
               worldPc, widx, suspended, coll, pushedStacks, attaches, stops, staleHandle>>

stopFlags == <<GC_please_stop, GC_attached_thread, GC_has_pending_delete_threads>>
collVars == <<coll, pushedStacks, stops, staleHandle, suspended>>

Index == 1 .. MAX_THREADS
NoEntry == [in_use |-> FALSE, crtn |-> FALSE, stack_end |-> FALSE, id |-> NoThr,
            handle |-> NoThr, blocking |-> FALSE, is_suspended |-> FALSE,
            pending |-> FALSE]

Pcs == {"none", "xchg", "index", "inc", "crtn", "record", "publish", "check",
        "note", "run", "lookup", "lock", "test", "unlock", "close", "clear",
        "exit", "dead", "killed"}
CollAt == {"idle", "clear", "max", "scan", "suspend", "push", "restart", "marked",
           "resume", "unstop", "delete", "crashed"}

Win32ThreadsTypeOK ==
    /\ entry \in [Index -> [in_use : BOOLEAN, crtn : BOOLEAN, stack_end : BOOLEAN,
                            id : WThr \union {MainThr, NoThr},
                            handle : WThr \union {MainThr, NoThr},
                            blocking : BOOLEAN, is_suspended : BOOLEAN,
                            pending : BOOLEAN]]
    /\ GC_max_thread_index_p1 \in Nat
    /\ GC_please_stop \in BOOLEAN /\ GC_attached_thread \in BOOLEAN
    /\ GC_has_pending_delete_threads \in BOOLEAN
    /\ detachLock \in WThr \union {NoThr}
    /\ worldPc \in [WThr -> Pcs] /\ widx \in [WThr -> Index]
    /\ suspended \subseteq WThr /\ pushedStacks \subseteq WThr \union {MainThr}
    /\ coll \in [at : CollAt, i : 0 .. MAX_THREADS + 1, max : 0 .. MAX_THREADS]
    /\ attaches \in Nat /\ stops \in Nat /\ staleHandle \in BOOLEAN

\* GC_thr_init registers the thread that initialises the collector.
Win32ThreadsInit ==
    /\ entry = [i \in Index |->
                  IF i = 1
                  THEN [NoEntry EXCEPT !.in_use = TRUE, !.crtn = TRUE,
                                       !.stack_end = TRUE, !.id = MainThr,
                                       !.handle = MainThr]
                  ELSE NoEntry]
    /\ GC_max_thread_index_p1 = 1
    /\ GC_please_stop = FALSE /\ GC_attached_thread = FALSE
    /\ GC_has_pending_delete_threads = FALSE /\ detachLock = NoThr
    /\ worldPc = [t \in WThr |-> "none"] /\ widx = [t \in WThr |-> 1]
    /\ suspended = {} /\ coll = [at |-> "idle", i |-> 0, max |-> 0]
    /\ pushedStacks = {} /\ attaches = 0 /\ stops = 0 /\ staleHandle = FALSE

\* A step of a thread that is not suspended, from one place to another.
Win32Steps(t, from, to) ==
    /\ t \notin suspended /\ worldPc[t] = from /\ coll.at # "crashed"
    /\ worldPc' = [worldPc EXCEPT ![t] = to]

\* GC_get_max_thread_index, as a count.
GC_get_max_thread_index ==
    IF GC_max_thread_index_p1 < MAX_THREADS THEN GC_max_thread_index_p1
    ELSE MAX_THREADS

-----------------------------------------------------------------------------
(* A thread attaches: GC_register_my_thread_inner, called by GC_DllMain.   *)

\* The system starts a thread; its id may be that of a thread that is gone
\* and to which no handle is open.
ThreadAttach(t) ==
    /\ attaches < MaxAttaches /\ worldPc[t] \in {"none", "dead", "killed"}
    /\ coll.at # "crashed" /\ \A i \in Index : entry[i].handle # t
    /\ worldPc' = [worldPc EXCEPT ![t] = "xchg"] /\ widx' = [widx EXCEPT ![t] = 1]
    /\ attaches' = attaches + 1
    /\ UNCHANGED <<entry, GC_max_thread_index_p1, stopFlags, detachLock, collVars>>

\* InterlockedExchange of the in_use field takes the first entry that is not;
\* at the last one the process aborts with "Too many threads".
TakeEntry(t) ==
    LET i == widx[t]
    IN  /\ IF entry[i].in_use
           THEN /\ i < MAX_THREADS /\ Win32Steps(t, "xchg", "xchg")
                /\ widx' = [widx EXCEPT ![t] = i + 1] /\ UNCHANGED entry
           ELSE /\ Win32Steps(t, "xchg", "index")
                /\ entry' = [entry EXCEPT ![i].in_use = TRUE] /\ UNCHANGED widx
        /\ UNCHANGED <<GC_max_thread_index_p1, stopFlags, detachLock, collVars, attaches>>

\* The loop that raises GC_max_thread_index_p1: the test ...
TestMaxIndex(t) ==
    /\ Win32Steps(t, "index", IF widx[t] > GC_max_thread_index_p1 THEN "inc" ELSE "crtn")
    /\ UNCHANGED <<entry, GC_max_thread_index_p1, stopFlags, detachLock, widx,
                   collVars, attaches>>

\* ... and InterlockedIncrement, by which two threads may overshoot.
RaiseMaxIndex(t) ==
    /\ Win32Steps(t, "inc", "index")
    /\ GC_max_thread_index_p1' = GC_max_thread_index_p1 + 1
    /\ UNCHANGED <<entry, stopFlags, detachLock, widx, collVars, attaches>>

\* An index that overshot is put back, and the entry gets its stack context.
SetCrtn(t) ==
    /\ Win32Steps(t, "crtn", "record")
    /\ GC_max_thread_index_p1' = GC_get_max_thread_index
    /\ entry' = [entry EXCEPT ![widx[t]].crtn = TRUE]
    /\ UNCHANGED <<stopFlags, detachLock, widx, collVars, attaches>>

\* DuplicateHandle, then GC_record_stack_base.
RecordStack(t) ==
    /\ Win32Steps(t, "record", "publish")
    /\ entry' = [entry EXCEPT ![widx[t]].handle = t, ![widx[t]].stack_end = TRUE]
    /\ UNCHANGED <<GC_max_thread_index_p1, stopFlags, detachLock, widx, collVars, attaches>>

PublishId(t) ==
    /\ Win32Steps(t, "publish", "check")
    /\ entry' = [entry EXCEPT ![widx[t]].id = t]
    /\ UNCHANGED <<GC_max_thread_index_p1, stopFlags, detachLock, widx, collVars, attaches>>

\* A mutant: a thread that attaches to a stopped world tells nobody.
CheckPleaseStopNot(t) ==
    /\ Win32Steps(t, "check", "run")
    /\ UNCHANGED <<entry, GC_max_thread_index_p1, stopFlags, detachLock, widx,
                   collVars, attaches>>

\* A thread cannot wait in DllMain: when the world is to be stopped it has
\* the marking restarted instead.
CheckPleaseStop(t) ==
    /\ Win32Steps(t, "check", IF GC_please_stop THEN "note" ELSE "run")
    /\ UNCHANGED <<entry, GC_max_thread_index_p1, stopFlags, detachLock, widx,
                   collVars, attaches>>

NoteAttached(t) ==
    /\ Win32Steps(t, "note", "run") /\ GC_attached_thread' = TRUE
    /\ UNCHANGED <<entry, GC_max_thread_index_p1, GC_please_stop,
                   GC_has_pending_delete_threads, detachLock, widx, collVars, attaches>>

\* GC_do_blocking sets and resets DO_BLOCKING under the allocator lock.
ToggleBlocking(t) ==
    /\ Win32Steps(t, "run", "run") /\ coll.at = "idle"
    /\ entry' = [entry EXCEPT ![widx[t]].blocking = ~@]
    /\ UNCHANGED <<GC_max_thread_index_p1, stopFlags, detachLock, widx, collVars, attaches>>

-----------------------------------------------------------------------------
(* A thread detaches: GC_DllMain with DLL_THREAD_DETACH.                   *)

Detach(t) ==
    /\ Win32Steps(t, "run", "lookup") /\ ~entry[widx[t]].blocking
    /\ UNCHANGED <<entry, GC_max_thread_index_p1, stopFlags, detachLock, widx,
                   collVars, attaches>>

\* GC_win32_dll_lookup_thread.
LookupEntry(t) ==
    LET Own == {i \in 1 .. GC_get_max_thread_index : entry[i].in_use /\ entry[i].id = t}
    IN  /\ IF Own = {} THEN Win32Steps(t, "lookup", "exit") /\ UNCHANGED widx
           ELSE /\ Win32Steps(t, "lookup", "lock")
                /\ widx' = [widx EXCEPT ![t] =
                              CHOOSE i \in Own : \A j \in Own : i <= j]
        /\ UNCHANGED <<entry, GC_max_thread_index_p1, stopFlags, detachLock,
                       collVars, attaches>>

TakeDetachLock(t) ==
    /\ detachLock = NoThr /\ Win32Steps(t, "lock", "test") /\ detachLock' = t
    /\ UNCHANGED <<entry, GC_max_thread_index_p1, stopFlags, widx, collVars, attaches>>

\* While the world is to be stopped the entry is left for GC_start_world to
\* delete; otherwise it is invalidated before the lock is given up.
DetachTest(t) ==
    /\ Win32Steps(t, "test", "unlock")
    /\ IF GC_please_stop
       THEN /\ entry' = [entry EXCEPT ![widx[t]].pending = TRUE]
            /\ GC_has_pending_delete_threads' = TRUE
       ELSE /\ entry' = [entry EXCEPT ![widx[t]].stack_end = FALSE]
            /\ UNCHANGED GC_has_pending_delete_threads
    /\ UNCHANGED <<GC_max_thread_index_p1, GC_please_stop, GC_attached_thread,
                   detachLock, widx, collVars, attaches>>

\* DETACH_THREAD_UNLOCK; t is NULL if the entry was left.
DetachUnlock(t) ==
    /\ Win32Steps(t, "unlock", IF entry[widx[t]].stack_end THEN "exit" ELSE "close")
    /\ detachLock' = NoThr
    /\ UNCHANGED <<entry, GC_max_thread_index_p1, stopFlags, widx, collVars, attaches>>

\* GC_delete_thread by the thread itself: CloseHandle ...
CloseOwn(t) ==
    /\ Win32Steps(t, "close", "clear")
    /\ entry' = [entry EXCEPT ![widx[t]].handle = NoThr]
    /\ UNCHANGED <<GC_max_thread_index_p1, stopFlags, detachLock, widx, collVars, attaches>>

\* An entry that GC_delete_thread has released; its crtn stays.
Deleted == [NoEntry EXCEPT !.crtn = TRUE]

\* ... and the entry is free.
ClearOwn(t) ==
    /\ Win32Steps(t, "clear", "exit")
    /\ entry' = [entry EXCEPT ![widx[t]] = Deleted]
    /\ UNCHANGED <<GC_max_thread_index_p1, stopFlags, detachLock, widx, collVars, attaches>>

Exit(t) ==
    /\ Win32Steps(t, "exit", "dead")
    /\ UNCHANGED <<entry, GC_max_thread_index_p1, stopFlags, detachLock, widx,
                   collVars, attaches>>

\* TerminateThread: no DllMain call is made.
Killed(t) ==
    /\ Win32Steps(t, "run", "killed")
    /\ UNCHANGED <<entry, GC_max_thread_index_p1, stopFlags, detachLock, widx,
                   collVars, attaches>>

ThreadStep(t) ==
    \/ TakeEntry(t) \/ TestMaxIndex(t) \/ RaiseMaxIndex(t) \/ SetCrtn(t)
    \/ RecordStack(t) \/ PublishId(t) \/ CheckPleaseStop(t) \/ NoteAttached(t)
    \/ LookupEntry(t) \/ TakeDetachLock(t) \/ DetachTest(t) \/ DetachUnlock(t)
    \/ CloseOwn(t) \/ ClearOwn(t) \/ Exit(t)

-----------------------------------------------------------------------------
(* The collector.                                                          *)

threadSide == <<worldPc, widx, attaches>>

\* GC_stop_world: GC_please_stop is set under DETACH_THREAD_LOCK,
StopBegin ==
    /\ coll.at = "idle" /\ stops < MaxStops /\ detachLock = NoThr
    /\ GC_please_stop' = TRUE /\ stops' = stops + 1
    /\ coll' = [coll EXCEPT !.at = "clear"] /\ pushedStacks' = {}
    /\ UNCHANGED <<entry, GC_max_thread_index_p1, GC_attached_thread,
                   GC_has_pending_delete_threads, detachLock, suspended,
                   staleHandle, threadSide>>

\* GC_attached_thread is reset, then my_max is read.
ClearAttached ==
    \/ /\ coll.at = "clear" /\ GC_attached_thread' = FALSE
       /\ coll' = [coll EXCEPT !.at = "max"]
       /\ UNCHANGED <<entry, GC_max_thread_index_p1, GC_please_stop,
                      GC_has_pending_delete_threads, detachLock, pushedStacks, stops,
                      suspended, staleHandle, threadSide>>
    \/ /\ coll.at = "max"
       /\ coll' = [at |-> "scan", i |-> 1, max |-> GC_get_max_thread_index]
       /\ UNCHANGED <<entry, GC_max_thread_index_p1, stopFlags, detachLock, pushedStacks,
                      stops, suspended, staleHandle, threadSide>>

\* The collector goes to entry i, or on to the next part after the last one.
GoOn(here, next) ==
    coll' = IF coll.i < coll.max THEN [coll EXCEPT !.at = here, !.i = @ + 1]
            ELSE [coll EXCEPT !.at = next, !.i = 1]

\* GC_stop_world looks at an entry: a thread that is neither blocked, nor the
\* collector, nor to be deleted is to be suspended.  The stack context of an
\* entry is read whether it is in use or not.
ScanEntry ==
    LET e == entry[coll.i]
    IN  /\ coll.at = "scan"
        /\ CASE ~e.crtn -> coll' = [coll EXCEPT !.at = "crashed"]
             [] e.crtn /\ e.stack_end /\ ~e.blocking /\ e.id # MainThr /\ ~e.pending ->
                    coll' = [coll EXCEPT !.at = "suspend"]
             [] OTHER -> GoOn("scan", "push")
        /\ UNCHANGED <<entry, GC_max_thread_index_p1, stopFlags, detachLock, pushedStacks,
                       stops, suspended, staleHandle, threadSide>>

\* GC_suspend: a thread that has exited is left for deletion, any other is
\* suspended.
GC_suspend ==
    LET e == entry[coll.i]
    IN  /\ coll.at = "suspend" /\ GoOn("scan", "push")
        /\ staleHandle' = (staleHandle \/ e.handle = NoThr)
        /\ IF e.handle # NoThr /\ worldPc[e.handle] \notin {"dead", "killed"}
           THEN /\ suspended' = suspended \union {e.handle}
                /\ entry' = [entry EXCEPT ![coll.i].is_suspended = TRUE]
                /\ UNCHANGED GC_has_pending_delete_threads
           ELSE /\ entry' = [entry EXCEPT ![coll.i].pending = TRUE]
                /\ GC_has_pending_delete_threads' = TRUE /\ UNCHANGED suspended
        /\ UNCHANGED <<GC_max_thread_index_p1, GC_please_stop, GC_attached_thread,
                       detachLock, pushedStacks, stops, threadSide>>

\* GC_push_all_stacks: the stacks of all entries in use that have one and are
\* not to be deleted.
GC_push_all_stacks ==
    LET Used == {i \in 1 .. GC_get_max_thread_index : entry[i].in_use}
    IN  /\ coll.at = "push"
        /\ IF \E i \in Used : ~entry[i].crtn
           THEN coll' = [coll EXCEPT !.at = "crashed"] /\ UNCHANGED pushedStacks
           ELSE /\ coll' = [coll EXCEPT !.at = "restart"]
                /\ pushedStacks' = {entry[i].handle : i \in
                                {j \in Used : entry[j].stack_end /\ ~entry[j].pending}}
        /\ UNCHANGED <<entry, GC_max_thread_index_p1, stopFlags, detachLock, stops,
                       suspended, staleHandle, threadSide>>

\* GC_mark_some: GC_started_thread_while_stopped makes the marking start over.
GC_started_thread_while_stopped ==
    /\ coll.at = "restart" /\ GC_attached_thread' = FALSE
    /\ coll' = [coll EXCEPT !.at = IF GC_attached_thread THEN "push" ELSE "marked"]
    /\ UNCHANGED <<entry, GC_max_thread_index_p1, GC_please_stop,
                   GC_has_pending_delete_threads, detachLock, pushedStacks, stops,
                   suspended, staleHandle, threadSide>>

\* GC_start_world: the table is gone through again,
StartWorld ==
    /\ coll.at = "marked"
    /\ coll' = [at |-> "resume", i |-> 1, max |-> GC_get_max_thread_index]
    /\ UNCHANGED <<entry, GC_max_thread_index_p1, stopFlags, detachLock, pushedStacks,
                   stops, suspended, staleHandle, threadSide>>

\* what was suspended is resumed,
ResumeEntry ==
    LET e == entry[coll.i]
    IN  /\ coll.at = "resume" /\ GoOn("resume", "unstop")
        /\ IF e.is_suspended
           THEN /\ entry' = [entry EXCEPT ![coll.i].is_suspended = FALSE]
                /\ suspended' = suspended \ {e.handle}
                /\ staleHandle' = (staleHandle \/ e.handle = NoThr \/ ~e.stack_end)
           ELSE UNCHANGED <<entry, suspended, staleHandle>>
        /\ UNCHANGED <<GC_max_thread_index_p1, stopFlags, detachLock, pushedStacks, stops,
                       threadSide>>

\* GC_please_stop is reset under the lock,
Unstop ==
    /\ coll.at = "unstop" /\ detachLock = NoThr /\ GC_please_stop' = FALSE
    /\ GC_has_pending_delete_threads' = FALSE
    /\ coll' = IF GC_has_pending_delete_threads
               THEN [at |-> "delete", i |-> 1, max |-> GC_get_max_thread_index]
               ELSE [at |-> "idle", i |-> 0, max |-> 0]
    /\ UNCHANGED <<entry, GC_max_thread_index_p1, GC_attached_thread, detachLock,
                   pushedStacks, stops, suspended, staleHandle, threadSide>>

\* and the entries left for deletion are deleted.
DeletePending ==
    /\ coll.at = "delete"
    /\ coll' = IF coll.i < coll.max THEN [coll EXCEPT !.i = @ + 1]
               ELSE [at |-> "idle", i |-> 0, max |-> 0]
    /\ staleHandle' = (staleHandle \/ (entry[coll.i].pending /\ entry[coll.i].handle = NoThr))
    /\ entry' = IF entry[coll.i].pending THEN [entry EXCEPT ![coll.i] = Deleted]
                ELSE entry
    /\ UNCHANGED <<GC_max_thread_index_p1, stopFlags, detachLock, pushedStacks, stops,
                   suspended, threadSide>>

CollectorStep ==
    \/ ClearAttached \/ ScanEntry \/ GC_suspend \/ GC_push_all_stacks
    \/ GC_started_thread_while_stopped \/ StartWorld \/ ResumeEntry \/ Unstop
    \/ DeletePending

-----------------------------------------------------------------------------

Win32ThreadsNext ==
    \/ \E t \in WThr : ThreadAttach(t) \/ ToggleBlocking(t) \/ Detach(t) \/ Killed(t)
    \/ \E t \in WThr : ThreadStep(t)
    \/ StopBegin \/ CollectorStep

Win32ThreadsSpec == Win32ThreadsInit /\ [][Win32ThreadsNext]_win32Vars

-----------------------------------------------------------------------------

\* DETACH_THREAD_LOCK "avoids a race between CloseHandle and SuspendThread /
\* ResumeThread": the collector never uses the handle of an entry whose
\* thread has closed it, and what it has suspended still has its stack.
HandlesOpen ==
    /\ ~staleHandle
    /\ \A i \in Index : entry[i].is_suspended =>
           entry[i].handle \in suspended /\ entry[i].stack_end

\* Marking does not end before the stack of every thread that runs client
\* code has been pushed: a thread that attached while the world was stopped
\* is pushed by a restart, unless it attached after the last look at
\* GC_attached_thread.
ClientsPushed ==
    coll.at = "marked" =>
        \A t \in WThr : worldPc[t] = "run" /\ t \notin suspended =>
            entry[widx[t]].blocking \/ t \in pushedStacks \/ GC_attached_thread

\* The world is stopped, or has been started again.
PleaseStop == GC_please_stop
Restarted == ~GC_please_stop \/ coll.at = "crashed"

\* The entry of a thread that detached from a stopped world, or that was
\* found to have exited, does not outlast the collection.
PendingDeleted == coll.at = "idle" => \A i \in Index : ~entry[i].pending
=============================================================================
