----------------------------- MODULE StopWorld -----------------------------
(***************************************************************************)
(* Stopping and restarting the threads by signals (pthread_stop_world.c):  *)
(* the suspend handler and its acknowledgements, the resending of lost     *)
(* signals, the suspension of a single thread by the client, and the       *)
(* blocking state that keeps a thread out of it (pthread_support.c).       *)
(*                                                                         *)
(* The signals of one kind sent to a thread merge while they are pending.  *)
(* A thread sleeping in sigsuspend may be woken by a signal of the client. *)
(* The signals of one pass over the table are sent in one step: a handler  *)
(* touches nothing that the pass reads of another thread.  A send may be   *)
(* lost only where the code resends (MaxLosses times in a behaviour).  The *)
(* abort after 150 resends without progress is left out.                   *)
(***************************************************************************)
EXTENDS Integers, FiniteSets

CONSTANTS Thr,            \* client threads
          Suspenders,     \* the ones that collect, suspend and resume threads
          NoThread,
          MaxStopCount,   \* bound on GC_stop_count
          MaxSuspends,    \* bound on the suspensions of a thread by the client
          MaxLosses       \* bound on the signals lost

\* What is assumed of the constants.
StopWorldAssumption ==
    /\ IsFiniteSet(Thr) /\ Suspenders \subseteq Thr /\ NoThread \notin Thr
    /\ MaxStopCount \in Nat /\ MaxSuspends \in Nat /\ MaxLosses \in Nat

VARIABLES
    GC_retry_signals,     \* set once, by GC_stop_init
    GC_stop_count,        \* even while the threads are being suspended
    ackSem,               \* the value of GC_suspend_ack_sem
    allocLock,            \* holder of the allocator lock
    dirtyLock,            \* holder of the lock taken by GC_dirty
    op,                   \* what the lock holder is doing: step, need, target
    registered,           \* threads in GC_threads, not FINISHED
    doBlocking,           \* the ones with the DO_BLOCKING flag
    last_stop_count, ext_suspend_cnt,
    suspendSig, restartSig,       \* threads with a pending signal
    hpc,                  \* where every thread is in the suspend handler
    my_stop_count, suspend_cnt,   \* locals of the handler
    losses,
    outrun                \* a suspend signal was resent to a thread that was in
                          \* its handler already

countVars == <<GC_stop_count, ackSem>>
threadVars == <<registered, doBlocking>>
sigHandlerVars == <<hpc, my_stop_count, suspend_cnt, last_stop_count>>
sigVars == <<suspendSig, restartSig, losses, outrun>>
lockVars == <<allocLock, dirtyLock, op>>
stopWorldVars == <<GC_retry_signals, countVars, threadVars, sigHandlerVars, sigVars, lockVars,
                   ext_suspend_cnt>>

Odd(n) == n % 2 = 1
Even(n) == n % 2 = 0
ThreadIdle == [step |-> "idle", need |-> 0, target |-> NoThread]
Steps == {"idle", "stop_dirty", "stop_send", "stop_timed", "stop_resend", "stop_wait", "stopped",
          "start_send", "start_timed", "start_resend", "start_wait",
          "susp_count", "susp_send", "susp_wait", "resume_send", "resume_wait"}

\* Types of the counters, the handlers and the pending signals.
StopWorldTypeOK ==
    /\ GC_retry_signals \in BOOLEAN /\ outrun \in BOOLEAN
    /\ GC_stop_count \in 1 .. MaxStopCount /\ ackSem \in Nat
    /\ allocLock \in Thr \cup {NoThread} /\ dirtyLock \in Thr \cup {NoThread}
    /\ op \in [step : Steps, need : Nat, target : Thr \cup {NoThread}]
    /\ (allocLock = NoThread) = (op = ThreadIdle)
    /\ registered \subseteq Thr /\ doBlocking \subseteq registered
    /\ suspendSig \subseteq Thr /\ restartSig \subseteq Thr
    /\ hpc \in [Thr -> {"none", "enter", "post", "publish", "sleep", "woken", "repost", "republish"}]
    /\ \A f \in {my_stop_count, suspend_cnt, last_stop_count, ext_suspend_cnt} : f \in [Thr -> Nat]
    /\ losses \in 0 .. MaxLosses

StopWorldInit ==
    /\ GC_retry_signals \in BOOLEAN
    /\ GC_stop_count = 1 /\ ackSem = 0
    /\ allocLock = NoThread /\ dirtyLock = NoThread /\ op = ThreadIdle
    /\ registered = Thr /\ doBlocking = {}
    /\ suspendSig = {} /\ restartSig = {} /\ losses = 0 /\ outrun = FALSE
    /\ hpc = [t \in Thr |-> "none"]
    /\ my_stop_count = [t \in Thr |-> 0] /\ suspend_cnt = [t \in Thr |-> 0]
    /\ last_stop_count = [t \in Thr |-> 0] /\ ext_suspend_cnt = [t \in Thr |-> 0]

\* The thread executes code of the client, or of the collector on its behalf.
Executing(t) == hpc[t] = "none"
InClient(t) == t \in registered /\ Executing(t) /\ t \notin doBlocking /\ allocLock # t

(***************************************************************************)
(* The suspend handler.                                                    *)
(***************************************************************************)
\* A suspend signal that came during the handler is delivered when it returns.
Return(t) == hpc' = [hpc EXCEPT ![t] = IF t \in suspendSig THEN "enter" ELSE "none"]

\* The tests at the start of GC_suspend_handler_inner, then the store of the
\* stack pointer.
HandlerEntry(t) ==
    /\ t \in suspendSig /\ hpc[t] \in {"none", "enter"}
    /\ suspendSig' = suspendSig \ {t}
    /\ LET duplicate == GC_stop_count \in {last_stop_count[t], last_stop_count[t] - 1}
       IN IF Odd(GC_stop_count) \/ duplicate
          THEN /\ hpc' = [hpc EXCEPT ![t] = "none"]
               /\ UNCHANGED <<my_stop_count, suspend_cnt>>
          ELSE /\ my_stop_count' = [my_stop_count EXCEPT ![t] = GC_stop_count]
               /\ suspend_cnt' = [suspend_cnt EXCEPT ![t] = ext_suspend_cnt[t]]
               /\ hpc' = [hpc EXCEPT ![t] = "post"]
    /\ UNCHANGED <<GC_retry_signals, countVars, threadVars, last_stop_count, restartSig, losses,
                   outrun, lockVars, ext_suspend_cnt>>

HandlerPost(t) ==
    /\ \/ hpc[t] = "post" /\ hpc' = [hpc EXCEPT ![t] = "publish"]
       \/ hpc[t] = "repost" /\ hpc' = [hpc EXCEPT ![t] = "republish"]
    /\ ackSem' = ackSem + 1
    /\ UNCHANGED <<GC_retry_signals, GC_stop_count, threadVars, my_stop_count, suspend_cnt,
                   last_stop_count, sigVars, lockVars, ext_suspend_cnt>>

HandlerPublish(t) ==
    /\ \/ /\ hpc[t] = "publish" /\ hpc' = [hpc EXCEPT ![t] = "sleep"]
          /\ last_stop_count' = [last_stop_count EXCEPT ![t] = my_stop_count[t]]
       \/ /\ hpc[t] = "republish" /\ Return(t)
          /\ last_stop_count' = [last_stop_count EXCEPT ![t] = my_stop_count[t] + 1]
    /\ UNCHANGED <<GC_retry_signals, countVars, threadVars, my_stop_count, suspend_cnt, sigVars,
                   lockVars, ext_suspend_cnt>>

\* sigsuspend returns after the restart handler.
HandlerWake(t) ==
    /\ hpc[t] = "sleep" /\ t \in restartSig
    /\ hpc' = [hpc EXCEPT ![t] = "woken"]
    /\ restartSig' = restartSig \ {t}
    /\ UNCHANGED <<GC_retry_signals, countVars, threadVars, my_stop_count, suspend_cnt,
                   last_stop_count, suspendSig, losses, outrun, lockVars, ext_suspend_cnt>>

\* sigsuspend returns after a handler of the client.
UserSignal(t) ==
    /\ hpc[t] = "sleep"
    /\ hpc' = [hpc EXCEPT ![t] = "woken"]
    /\ UNCHANGED <<GC_retry_signals, countVars, threadVars, my_stop_count, suspend_cnt,
                   last_stop_count, sigVars, lockVars, ext_suspend_cnt>>

\* Mutant: only the restart of the world is looked at.
HandlerLoopNoExt(t) ==
    /\ hpc[t] = "woken"
    /\ IF GC_stop_count = my_stop_count[t]
       THEN hpc' = [hpc EXCEPT ![t] = "sleep"]
       ELSE IF GC_retry_signals THEN hpc' = [hpc EXCEPT ![t] = "repost"] ELSE Return(t)
    /\ UNCHANGED <<GC_retry_signals, countVars, threadVars, my_stop_count, suspend_cnt,
                   last_stop_count, sigVars, lockVars, ext_suspend_cnt>>

HandlerLoop(t) ==
    /\ hpc[t] = "woken"
    /\ IF \/ GC_stop_count = my_stop_count[t]
          \/ Odd(suspend_cnt[t]) /\ ext_suspend_cnt[t] = suspend_cnt[t]
       THEN hpc' = [hpc EXCEPT ![t] = "sleep"]
       ELSE IF GC_retry_signals THEN hpc' = [hpc EXCEPT ![t] = "repost"] ELSE Return(t)
    /\ UNCHANGED <<GC_retry_signals, countVars, threadVars, my_stop_count, suspend_cnt,
                   last_stop_count, sigVars, lockVars, ext_suspend_cnt>>

\* GC_restart_handler on a thread that does not wait for it.
RestartHandler(t) ==
    /\ t \in restartSig /\ Executing(t)
    /\ restartSig' = restartSig \ {t}
    /\ UNCHANGED <<GC_retry_signals, countVars, threadVars, sigHandlerVars, suspendSig, losses, outrun,
                   lockVars, ext_suspend_cnt>>

(***************************************************************************)
(* Client threads: the lock of GC_dirty, the blocking state, registration. *)
(***************************************************************************)
DirtyLock(t) ==
    /\ InClient(t) /\ dirtyLock = NoThread
    /\ dirtyLock' = t
    /\ UNCHANGED <<GC_retry_signals, countVars, threadVars, sigHandlerVars, sigVars, allocLock, op,
                   ext_suspend_cnt>>

DirtyUnlock(t) ==
    /\ dirtyLock = t /\ Executing(t) /\ allocLock # t
    /\ dirtyLock' = NoThread
    /\ UNCHANGED <<GC_retry_signals, countVars, threadVars, sigHandlerVars, sigVars, allocLock, op,
                   ext_suspend_cnt>>

\* do_blocking_enter, under the allocator lock.
BlockingEnter(t) ==
    /\ InClient(t) /\ allocLock = NoThread /\ dirtyLock # t
    /\ doBlocking' = doBlocking \cup {t}
    /\ UNCHANGED <<GC_retry_signals, countVars, registered, sigHandlerVars, sigVars, lockVars,
                   ext_suspend_cnt>>

\* The loop at the end of GC_do_blocking_inner: the thread sleeps without the
\* lock until it is resumed, and leaves once it holds the lock and is not
\* suspended.  GC_suspend_self_blocked waits in the same way.
BlockingLeave(t) ==
    /\ t \in doBlocking /\ Executing(t) /\ allocLock = NoThread
    /\ Even(ext_suspend_cnt[t])
    /\ doBlocking' = doBlocking \ {t}
    /\ UNCHANGED <<GC_retry_signals, countVars, registered, sigHandlerVars, sigVars, lockVars,
                   ext_suspend_cnt>>

Register(t) ==
    /\ t \notin registered /\ allocLock = NoThread
    /\ registered' = registered \cup {t}
    /\ last_stop_count' = [last_stop_count EXCEPT ![t] = 0]
    /\ ext_suspend_cnt' = [ext_suspend_cnt EXCEPT ![t] = 0]
    /\ UNCHANGED <<GC_retry_signals, countVars, doBlocking, hpc, my_stop_count, suspend_cnt, sigVars,
                   lockVars>>

Unregister(t) ==
    /\ InClient(t) /\ t \notin Suspenders /\ allocLock = NoThread /\ dirtyLock # t
    /\ registered' = registered \ {t}
    /\ UNCHANGED <<GC_retry_signals, countVars, doBlocking, sigHandlerVars, sigVars, lockVars,
                   ext_suspend_cnt>>

(***************************************************************************)
(* The holder of the allocator lock.                                       *)
(***************************************************************************)
\* The threads GC_suspend_all signals.
SuspendTargets ==
    {p \in registered \ ({allocLock} \cup doBlocking) :
        Even(ext_suspend_cnt[p]) /\ last_stop_count[p] # GC_stop_count}

\* The threads GC_restart_all signals, the first time and when it resends.
RestartTargets(resend) ==
    {p \in registered \ ({allocLock} \cup doBlocking) :
        /\ Even(ext_suspend_cnt[p])
        /\ resend /\ GC_retry_signals => last_stop_count[p] # GC_stop_count}

\* raise_signal for the threads of S; some sends may come to nothing.
Send(S, toSuspend) ==
    \E L \in SUBSET S :
        /\ L # {} => GC_retry_signals
        /\ losses + Cardinality(L) <= MaxLosses /\ losses' = losses + Cardinality(L)
        /\ IF toSuspend
           THEN /\ suspendSig' = suspendSig \cup (S \ L)
                /\ outrun' = (outrun \/ \E p \in S \ L : /\ hpc[p] \in {"post", "publish"}
                                                         /\ my_stop_count[p] = GC_stop_count)
                /\ UNCHANGED restartSig
           ELSE restartSig' = restartSig \cup (S \ L) /\ UNCHANGED <<suspendSig, outrun>>

At(step) == op.step = step
Goto(step) == op' = [op EXCEPT !.step = step]
GotoNeed(step, n) == op' = [op EXCEPT !.step = step, !.need = n]

\* GC_stop_world, up to the lock of GC_dirty (taken if GC_manual_vdb).
GC_stop_world(t) ==
    /\ InClient(t) /\ allocLock = NoThread /\ dirtyLock # t /\ GC_stop_count + 2 <= MaxStopCount
    /\ allocLock' = t
    /\ GC_stop_count' = GC_stop_count + 1
    /\ op' = [ThreadIdle EXCEPT !.step = "stop_dirty"]
    /\ UNCHANGED <<GC_retry_signals, ackSem, threadVars, sigHandlerVars, sigVars, dirtyLock,
                   ext_suspend_cnt>>

StopAcquireDirty ==
    /\ At("stop_dirty") /\ dirtyLock = NoThread
    /\ dirtyLock' = allocLock
    /\ Goto("stop_send")
    /\ UNCHANGED <<GC_retry_signals, countVars, threadVars, sigHandlerVars, sigVars, allocLock,
                   ext_suspend_cnt>>

\* GC_suspend_all, the first time.
StopSend ==
    /\ At("stop_send")
    /\ Send(SuspendTargets, TRUE)
    /\ GotoNeed(IF GC_retry_signals THEN "stop_timed" ELSE "stop_wait", Cardinality(SuspendTargets))
    /\ UNCHANGED <<GC_retry_signals, countVars, threadVars, sigHandlerVars, allocLock, dirtyLock,
                   ext_suspend_cnt>>

\* One sem_timedwait, sem_wait that succeeds.
TakeAck ==
    /\ op.step \in {"stop_timed", "stop_wait", "start_timed", "start_wait"}
    /\ op.need > 0 /\ ackSem > 0
    /\ ackSem' = ackSem - 1
    /\ op' = [op EXCEPT !.need = @ - 1]
    /\ UNCHANGED <<GC_retry_signals, GC_stop_count, threadVars, sigHandlerVars, sigVars, allocLock,
                   dirtyLock, ext_suspend_cnt>>

\* sem_timedwait fails; resend_lost_signals starts.
AckTimeout ==
    /\ op.need > 0
    /\ \/ At("stop_timed") /\ Goto("stop_resend")
       \/ At("start_timed") /\ Goto("start_resend")
    /\ UNCHANGED <<GC_retry_signals, countVars, threadVars, sigHandlerVars, sigVars, allocLock,
                   dirtyLock, ext_suspend_cnt>>

\* Mutant: the missing acknowledgements are not asked for again.
ResendNothing ==
    /\ op.step \in {"stop_resend", "start_resend"} /\ ackSem # op.need
    /\ GotoNeed(op.step, ackSem)
    /\ UNCHANGED <<GC_retry_signals, countVars, threadVars, sigHandlerVars, sigVars, allocLock,
                   dirtyLock, ext_suspend_cnt>>

\* One pass of resend_lost_signals after RETRY_INTERVAL.
Resend ==
    /\ op.step \in {"stop_resend", "start_resend"} /\ ackSem # op.need
    /\ LET S == IF At("stop_resend") THEN SuspendTargets ELSE RestartTargets(TRUE)
       IN /\ Send(S, At("stop_resend"))
          /\ GotoNeed(op.step, IF Cardinality(S) < op.need - ackSem
                               THEN ackSem + Cardinality(S) ELSE op.need)
    /\ UNCHANGED <<GC_retry_signals, countVars, threadVars, sigHandlerVars, allocLock, dirtyLock,
                   ext_suspend_cnt>>

ResendDone ==
    /\ ackSem = op.need
    /\ \/ At("stop_resend") /\ Goto("stop_wait")
       \/ At("start_resend") /\ Goto("start_wait")
    /\ UNCHANGED <<GC_retry_signals, countVars, threadVars, sigHandlerVars, sigVars, allocLock,
                   dirtyLock, ext_suspend_cnt>>

\* The end of GC_stop_world.
StopDone ==
    /\ op.step \in {"stop_timed", "stop_wait"} /\ op.need = 0
    /\ dirtyLock' = IF dirtyLock = allocLock THEN NoThread ELSE dirtyLock
    /\ Goto("stopped")
    /\ UNCHANGED <<GC_retry_signals, countVars, threadVars, sigHandlerVars, sigVars, allocLock,
                   ext_suspend_cnt>>

\* GC_start_world, up to the restart signals.
GC_start_world ==
    /\ At("stopped")
    /\ GC_stop_count' = GC_stop_count + 1
    /\ Goto("start_send")
    /\ UNCHANGED <<GC_retry_signals, ackSem, threadVars, sigHandlerVars, sigVars, allocLock, dirtyLock,
                   ext_suspend_cnt>>

StartSend ==
    /\ At("start_send")
    /\ Send(RestartTargets(FALSE), FALSE)
    /\ GotoNeed("start_timed", IF GC_retry_signals THEN Cardinality(RestartTargets(FALSE)) ELSE 0)
    /\ UNCHANGED <<GC_retry_signals, countVars, threadVars, sigHandlerVars, allocLock, dirtyLock,
                   ext_suspend_cnt>>

\* The end of GC_start_world; the caller releases the lock.
StartDone ==
    /\ op.step \in {"start_timed", "start_wait"} /\ op.need = 0
    /\ allocLock' = NoThread /\ op' = ThreadIdle
    /\ UNCHANGED <<GC_retry_signals, countVars, threadVars, sigHandlerVars, sigVars, dirtyLock,
                   ext_suspend_cnt>>

(***************************************************************************)
(* GC_suspend_thread and GC_resume_thread.                                 *)
(***************************************************************************)
MaySuspend(t) == Even(ext_suspend_cnt[t]) /\ ext_suspend_cnt[t] < 2 * MaxSuspends

\* Nothing to wait for: the thread is blocking, or is the caller, which goes
\* on to GC_suspend_self_blocked.
SuspendBlocked(s, t) ==
    /\ InClient(s) /\ allocLock = NoThread /\ dirtyLock # s
    /\ t \in registered /\ MaySuspend(t) /\ (t \in doBlocking \/ t = s)
    /\ ext_suspend_cnt' = [ext_suspend_cnt EXCEPT ![t] = @ + 1]
    /\ doBlocking' = doBlocking \cup {t}
    /\ UNCHANGED <<GC_retry_signals, countVars, registered, sigHandlerVars, sigVars, lockVars>>

GC_suspend_thread(s, t) ==
    /\ InClient(s) /\ allocLock = NoThread /\ dirtyLock # s /\ GC_stop_count + 2 <= MaxStopCount
    /\ t \in registered \ (doBlocking \cup {s}) /\ MaySuspend(t)
    /\ allocLock' = s
    /\ op' = [ThreadIdle EXCEPT !.step = "susp_count", !.target = t]
    /\ UNCHANGED <<GC_retry_signals, countVars, threadVars, sigHandlerVars, sigVars, dirtyLock,
                   ext_suspend_cnt>>

SuspendCount ==
    /\ At("susp_count") /\ dirtyLock = NoThread
    /\ dirtyLock' = allocLock
    /\ GC_stop_count' = GC_stop_count + 1
    /\ Goto("susp_send")
    /\ UNCHANGED <<GC_retry_signals, ackSem, threadVars, sigHandlerVars, sigVars, allocLock,
                   ext_suspend_cnt>>

SuspendSend ==
    /\ At("susp_send")
    /\ ext_suspend_cnt' = [ext_suspend_cnt EXCEPT ![op.target] = @ + 1]
    /\ suspendSig' = suspendSig \cup {op.target}
    /\ Goto("susp_wait")
    /\ UNCHANGED <<GC_retry_signals, countVars, threadVars, sigHandlerVars, restartSig, losses, outrun,
                   allocLock, dirtyLock>>

SuspendDone ==
    /\ At("susp_wait") /\ ackSem > 0
    /\ ackSem' = ackSem - 1
    /\ dirtyLock' = NoThread /\ allocLock' = NoThread /\ op' = ThreadIdle
    /\ GC_stop_count' = GC_stop_count + 1
    /\ UNCHANGED <<GC_retry_signals, threadVars, sigHandlerVars, sigVars, ext_suspend_cnt>>

GC_resume_thread(s, t) ==
    /\ InClient(s) /\ allocLock = NoThread /\ dirtyLock # s
    /\ t \in registered /\ Odd(ext_suspend_cnt[t])
    /\ ext_suspend_cnt' = [ext_suspend_cnt EXCEPT ![t] = @ + 1]
    /\ IF t \in doBlocking THEN UNCHANGED <<allocLock, op>>
       ELSE allocLock' = s /\ op' = [ThreadIdle EXCEPT !.step = "resume_send", !.target = t]
    /\ UNCHANGED <<GC_retry_signals, countVars, threadVars, sigHandlerVars, sigVars, dirtyLock>>

ResumeSend ==
    /\ At("resume_send")
    /\ restartSig' = restartSig \cup {op.target}
    /\ IF GC_retry_signals THEN Goto("resume_wait") /\ UNCHANGED allocLock
       ELSE allocLock' = NoThread /\ op' = ThreadIdle
    /\ UNCHANGED <<GC_retry_signals, countVars, threadVars, sigHandlerVars, suspendSig, losses, outrun,
                   dirtyLock, ext_suspend_cnt>>

ResumeDone ==
    /\ At("resume_wait") /\ ackSem > 0
    /\ ackSem' = ackSem - 1
    /\ allocLock' = NoThread /\ op' = ThreadIdle
    /\ UNCHANGED <<GC_retry_signals, GC_stop_count, threadVars, sigHandlerVars, sigVars, dirtyLock,
                   ext_suspend_cnt>>

Handler(t) == HandlerEntry(t) \/ HandlerPost(t) \/ HandlerPublish(t) \/ HandlerWake(t) \/ HandlerLoop(t)
Holder ==
    \/ StopAcquireDirty \/ StopSend \/ TakeAck \/ AckTimeout \/ Resend \/ ResendDone \/ StopDone
    \/ GC_start_world \/ StartSend \/ StartDone
    \/ SuspendCount \/ SuspendSend \/ SuspendDone \/ ResumeSend \/ ResumeDone
Client(t) ==
    \/ UserSignal(t) \/ RestartHandler(t) \/ DirtyLock(t) \/ DirtyUnlock(t)
    \/ BlockingEnter(t) \/ BlockingLeave(t) \/ Register(t) \/ Unregister(t)
    \/ /\ t \in Suspenders
       /\ \/ GC_stop_world(t)
          \/ \E u \in Thr : SuspendBlocked(t, u) \/ GC_suspend_thread(t, u) \/ GC_resume_thread(t, u)

StopWorldNext == Holder \/ \E t \in Thr : Handler(t) \/ Client(t)

StopWorldSpec == StopWorldInit /\ [][StopWorldNext]_stopWorldVars

(***************************************************************************)
(* Properties.                                                             *)
(***************************************************************************)
InHandler(t) == hpc[t] \in {"post", "publish", "sleep", "woken"}

\* While the collector has the world stopped, no other registered thread
\* executes code of the client, unless it said it is blocking; and none can
\* leave its handler.  Signals may be lost, late or resent; the one exception
\* is a signal resent to a thread that is in its handler but has not stored
\* last_stop_count: it stays pending, possibly until a later stop of the world.
WorldIsStopped ==
    At("stopped") /\ ~outrun =>
        \A t \in registered \ {allocLock} :
            \/ t \in doBlocking
            \/ InHandler(t) /\ (my_stop_count[t] = GC_stop_count \/ Odd(suspend_cnt[t]))

\* A thread suspended by GC_suspend_thread stays out of the client's code until
\* GC_resume_thread is called for it, across collections and across the end
\* of its blocking calls.
SuspendedStaysSuspended ==
    ~outrun /\ allocLock = NoThread =>
        \A t \in registered : Odd(ext_suspend_cnt[t]) => t \in doBlocking \/ InHandler(t)

\* suspend_restart_barrier asserts that the semaphore is drained after it:
\* every acknowledgement is taken by the operation that caused it.
AcknowledgementsMatch ==
    ~outrun /\ (At("stopped") \/ allocLock = NoThread) => ackSem = 0

\* A suspended thread never holds the lock of GC_dirty, for which the thread
\* that suspends the others waits.
NotSuspendedInGCDirty == ~outrun => \A t \in Thr : InHandler(t) => dirtyLock # t

\* A collector starts to stop the world, and has stopped it.
Stopping == At("stop_dirty") /\ ~outrun
WorldStopped == At("stopped") \/ outrun

\* A thread sleeps in the handler, and is back in its code unless the client
\* has suspended it.
Sleeps(t) == hpc[t] = "sleep"
RunsOrSuspended(t) == hpc[t] = "none" \/ Odd(ext_suspend_cnt[t]) \/ outrun
=============================================================================
