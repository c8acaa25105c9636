--------------------------- MODULE StopWorldSteps ---------------------------
(***************************************************************************)
(* Stopping the world by signals: the calls of the client and the steps of *)
(* the holder of the lock, from GC_stop_world to the restart, keep the     *)
(* invariant of StopWorldInvariant.tla.                                    *)
(***************************************************************************)
EXTENDS StopWorldInvariant

(* The default provers in their order, then SMT once more with more time. *)
USE SMT, Zenon, SMTT(30)
USE DEF countVars, threadVars, sigHandlerVars, sigVars, lockVars

-----------------------------------------------------------------------------
(* The calls of the client. *)

\* Nobody holds the lock: no stop is under way and every thread has left its
\* handler, or will, or is kept there by the client.
LEMMA Idle ==
  ASSUME StopWorldAssumption, FiniteSetFacts, Types, Sound, allocLock = NoThread
  PROVE  /\ At("idle") /\ Odd(GC_stop_count) /\ ackSem = 0 /\ Targets = {} /\ suspendSig = {}
         /\ Others = registered \ doBlocking
         /\ \A p \in Thr : hpc[p] # "post" /\ ~Acked(p)
         /\ GC_retry_signals => Late = {}
<1>1. At("idle")
  BY DEF Types
<1>2. Targets = {}
  BY <1>1 DEF Targets, WaitSteps, At
<1>3. ~Even(GC_stop_count)
  BY <1>1 DEF Sound, Phases, EvenSteps, At
<1>4. Odd(GC_stop_count)
  BY <1>3, Parity DEF Types
<1>5. ackSem = 0 /\ (GC_retry_signals => Late = {})
  BY <1>1 DEF Sound, StartCount, LeaveSteps, StartSteps, WaitSteps, At
<1>6. \A p \in Thr : p \notin suspendSig /\ hpc[p] # "post" /\ ~Acked(p)
  BY <1>1, <1>2 DEF Sound, Handlers, At
<1>7. suspendSig = {}
  BY <1>6 DEF Types
<1>8. Others = registered \ doBlocking
  BY DEF Others, Types, StopWorldAssumption
<1> QED BY <1>1, <1>2, <1>4, <1>5, <1>6, <1>7, <1>8

\* A call that changes the flags of one thread, which is not in its handler.
LEMMA IdleStep ==
  ASSUME StopWorldAssumption, FiniteSetFacts, Types, Types', Sound, allocLock = NoThread,
         UNCHANGED <<GC_retry_signals, countVars, hpc, my_stop_count, suspend_cnt, suspendSig, lockVars>>,
         NEW t \in Thr, hpc[t] = "none",
         last_stop_count'[t] \in {last_stop_count[t], 0},
         t \in registered' /\ Odd(ext_suspend_cnt'[t]) => t \in doBlocking',
         \A p \in Thr \ {t} : /\ p \in registered' <=> p \in registered
                              /\ p \in doBlocking' <=> p \in doBlocking
                              /\ last_stop_count'[p] = last_stop_count[p]
                              /\ ext_suspend_cnt'[p] = ext_suspend_cnt[p]
  PROVE  Sound'
<1>1. /\ At("idle") /\ Odd(GC_stop_count) /\ ackSem = 0 /\ suspendSig = {}
      /\ Others = registered \ doBlocking
      /\ \A p \in Thr : hpc[p] # "post" /\ ~Acked(p)
      /\ GC_retry_signals => Late = {}
  BY Idle
<1>2. Targets' = {} /\ At("idle")'
  BY <1>1 DEF Targets, WaitSteps, At
<1>3. Others' = registered' \ doBlocking'
  BY DEF Others, Types, StopWorldAssumption
<1>4. \A p \in Thr \ {t} : p \in Others' <=> p \in Others
  BY <1>1, <1>3
<1>5. \A p \in Thr : InSleep(p)' <=> InSleep(p)
  BY DEF InSleep
<1>6. \A p \in Thr : ~Acked(p)'
  BY <1>1, <1>5 DEF Acked
<1>7. \A p \in Thr \ {t} : Suspended(p)' <=> Suspended(p)
  BY <1>5 DEF Suspended
<1>8. ~InSleep(t)
  BY DEF InSleep
<1>9. GC_retry_signals => Late' = {}
  <2>1. SUFFICES ASSUME GC_retry_signals, NEW p \in Late' PROVE FALSE
    OBVIOUS
  <2>2. p \in Thr
    BY <1>3, <2>1 DEF Late, Types
  <2>3. p # t
    BY <1>5, <1>8, <2>1 DEF Late
  <2>4. p \in Late
    BY <1>4, <1>5, <1>7, <2>1, <2>2, <2>3 DEF Late
  <2> QED BY <1>1, <2>1, <2>4
<1>10. Phases'
  BY <1>1, <1>2, Parity DEF Sound, Phases, At, DirtySteps, RetrySteps, TargetSteps, EvenSteps, Types
<1>11. StopCount'
  BY <1>2 DEF StopCount, WaitSteps, At
<1>12. StartCount'
  BY <1>1, <1>2, <1>9 DEF StartCount, StartSteps, LeaveSteps, At
<1>13. ASSUME NEW p \in Thr PROVE Counts(p)'
  <2>1. Counts(p) /\ ~Acked(p)
    BY <1>1 DEF Sound
  <2>2. op'.step \notin FreshSteps /\ ~Even(GC_stop_count)
    BY <1>1, Parity DEF At, FreshSteps, Types
  <2>3. last_stop_count'[p] = last_stop_count[p] \/ (p = t /\ last_stop_count'[p] = 0)
    OBVIOUS
  <2> QED BY <2>1, <2>2, <2>3 DEF Counts, Types
<1>14. ASSUME NEW p \in Thr PROVE Handlers(p)'
  <2>1. Handlers(p)
    BY DEF Sound
  <2>2. p \notin Others' => hpc'[p] = "none"
    BY <1>4, <2>1 DEF Handlers
  <2>3. /\ p \in registered' /\ Odd(ext_suspend_cnt'[p]) => p \in doBlocking' \/ Suspended(p)'
    BY <1>1, <1>7, <2>1 DEF Handlers, At
  <2> QED BY <1>1, <1>2, <1>6, <2>1, <2>2, <2>3 DEF Handlers, At
<1> QED BY <1>10, <1>11, <1>12, <1>13, <1>14 DEF Sound

\* Registration, the blocking state, and the calls on a thread that is blocking.
LEMMA SoundIdle ==
  ASSUME StopWorldAssumption, FiniteSetFacts, Types, Types', Sound, NEW t \in Thr,
         \/ BlockingEnter(t) \/ BlockingLeave(t) \/ Register(t) \/ Unregister(t)
         \/ \E u \in Thr : \/ SuspendBlocked(t, u)
                           \/ u \in doBlocking /\ GC_resume_thread(t, u)
  PROVE  Sound'
<1>1. CASE BlockingEnter(t)
  BY <1>1, IdleStep DEF BlockingEnter, InClient, Executing
<1>2. CASE BlockingLeave(t)
  <2>1. Even(ext_suspend_cnt[t]) /\ ~Odd(ext_suspend_cnt[t])
    BY <1>2, Parity DEF BlockingLeave, Types
  <2> QED BY <1>2, <2>1, IdleStep DEF BlockingLeave, Executing
<1>3. CASE Register(t)
  <2>1. hpc[t] = "none"
    BY <1>3 DEF Register, Sound, Handlers, Others
  <2>2. last_stop_count'[t] = 0 /\ ext_suspend_cnt'[t] = 0 /\ ~Odd(0)
    BY <1>3 DEF Register, Types, Odd
  <2> QED BY <1>3, <2>1, <2>2, IdleStep DEF Register, Types
<1>4. CASE Unregister(t)
  BY <1>4, IdleStep DEF Unregister, InClient, Executing
<1>5. ASSUME NEW u \in Thr, SuspendBlocked(t, u) PROVE Sound'
  <2>1. hpc[u] = "none"
    BY <1>5 DEF SuspendBlocked, InClient, Executing, Sound, Handlers, Others
  <2> QED BY <1>5, <2>1, IdleStep DEF SuspendBlocked, Types
<1>6. ASSUME NEW u \in Thr, u \in doBlocking, GC_resume_thread(t, u) PROVE Sound'
  <2>1. hpc[u] = "none"
    BY <1>6 DEF Sound, Handlers, Others
  <2>2. allocLock' = allocLock /\ op' = op
    BY <1>6, ZenonT(30) DEF GC_resume_thread
  <2>3. ext_suspend_cnt' = [ext_suspend_cnt EXCEPT ![u] = @ + 1]
    BY <1>6, ZenonT(30) DEF GC_resume_thread
  <2>4. \A p \in Thr \ {u} : ext_suspend_cnt'[p] = ext_suspend_cnt[p]
    BY <2>3 DEF Types
  <2> QED BY <1>6, <2>1, <2>2, <2>4, IdleStep, ZenonT(30) DEF GC_resume_thread
<1> QED BY <1>1, <1>2, <1>3, <1>4, <1>5, <1>6

\* The holder takes the lock and goes to a step that raises GC_stop_count, or to
\* one that does not: no thread that runs changes.
LEMMA SoundTake ==
  ASSUME StopWorldAssumption, FiniteSetFacts, Types, Types', Sound, NEW t \in Thr,
         GC_stop_world(t) \/ \E u \in Thr : GC_suspend_thread(t, u)
  PROVE  Sound'
<1>1. /\ At("idle") /\ Odd(GC_stop_count) /\ ackSem = 0 /\ suspendSig = {}
      /\ Others = registered \ doBlocking
      /\ \A p \in Thr : hpc[p] # "post" /\ ~Acked(p)
      /\ GC_retry_signals => Late = {}
  BY Idle, ZenonT(30) DEF GC_stop_world, GC_suspend_thread
<1>2. /\ UNCHANGED <<GC_retry_signals, ackSem, threadVars, sigHandlerVars, sigVars, dirtyLock, ext_suspend_cnt>>
      /\ allocLock' = t /\ hpc[t] = "none"
      /\ \/ op'.step = "stop_dirty" /\ GC_stop_count' = GC_stop_count + 1
         \/ /\ op'.step = "susp_count" /\ GC_stop_count' = GC_stop_count
            /\ op'.target \in registered \ (doBlocking \cup {t}) /\ Even(ext_suspend_cnt[op'.target])
  BY ZenonT(30) DEF GC_stop_world, GC_suspend_thread, ThreadIdle, InClient, Executing, MaySuspend
<1>3. Others' = Others \ {t} /\ Targets' = {}
  BY <1>1, <1>2 DEF Others, Targets, WaitSteps, At
<1>4. \A p \in Thr : (InSleep(p)' <=> InSleep(p)) /\ (Suspended(p)' <=> Suspended(p))
  BY <1>2 DEF InSleep, Suspended
<1>5. \A p \in Thr : my_stop_count[p] <= GC_stop_count /\ last_stop_count[p] <= GC_stop_count
  BY DEF Sound, Counts
<1>6. \A p \in Thr : ~Acked(p)'
  BY <1>1, <1>2, <1>4, <1>5 DEF Acked, Types
<1>7. GC_retry_signals => Late' = {}
  <2>1. SUFFICES ASSUME GC_retry_signals, NEW p \in Late' PROVE FALSE
    OBVIOUS
  <2>2. p \in Thr /\ p \in Others
    BY <1>3, <2>1 DEF Late, Others, Types
  <2>3. p \in Late
    BY <1>1, <1>2, <1>4, <2>1, <2>2 DEF Late, Acked
  <2> QED BY <1>1, <2>1, <2>3
<1>8. Even(GC_stop_count') <=> op'.step \in EvenSteps
  BY <1>1, <1>2, Parity DEF EvenSteps, Types
<1>9. Phases'
  BY <1>1, <1>2, <1>3, <1>8 DEF Phases, DirtySteps, RetrySteps, TargetSteps, Evens
<1>10. StopCount'
  BY <1>2 DEF StopCount, WaitSteps, At
<1>11. StartCount'
  BY <1>1, <1>2, <1>7 DEF StartCount, StartSteps, LeaveSteps, At
<1>12. ASSUME NEW p \in Thr PROVE Counts(p)'
  <2>1. Counts(p) /\ my_stop_count[p] <= GC_stop_count' /\ last_stop_count[p] <= GC_stop_count'
    BY <1>2, <1>5 DEF Sound, Types
  <2>2. op'.step = "stop_dirty" => my_stop_count[p] # GC_stop_count' /\ last_stop_count[p] # GC_stop_count'
    BY <1>2, <1>5 DEF Types
  <2>3. op'.step = "susp_count" => ~Even(GC_stop_count')
    BY <1>8 DEF EvenSteps
  <2> QED BY <1>2, <2>1, <2>2, <2>3 DEF Counts, FreshSteps
<1>13. ASSUME NEW p \in Thr PROVE Handlers(p)'
  BY <1>1, <1>2, <1>3, <1>4, <1>6 DEF Sound, Handlers, At
<1> QED BY <1>9, <1>10, <1>11, <1>12, <1>13 DEF Sound

\* The thread to be resumed is the one that has not left its handler.
LEMMA SoundResume ==
  ASSUME StopWorldAssumption, FiniteSetFacts, Types, Types', Sound, NEW s \in Thr, NEW t \in Thr \ doBlocking,
         GC_resume_thread(s, t)
  PROVE  Sound'
<1>1. /\ At("idle") /\ Odd(GC_stop_count) /\ ackSem = 0 /\ suspendSig = {}
      /\ Others = registered \ doBlocking
      /\ \A p \in Thr : hpc[p] # "post" /\ ~Acked(p)
      /\ GC_retry_signals => Late = {}
  BY Idle DEF GC_resume_thread
<1>2. /\ UNCHANGED <<GC_retry_signals, countVars, threadVars, sigHandlerVars, sigVars, dirtyLock>>
      /\ hpc[s] = "none" /\ t \in registered /\ Odd(ext_suspend_cnt[t])
      /\ ext_suspend_cnt' = [ext_suspend_cnt EXCEPT ![t] = @ + 1]
  BY DEF GC_resume_thread, InClient, Executing
<1>3. allocLock' = s /\ op'.step = "resume_send" /\ op'.target = t
  <2>1. allocLock' = s /\ op' = [ThreadIdle EXCEPT !.step = "resume_send", !.target = t]
    BY DEF GC_resume_thread
  <2> QED BY <2>1 DEF ThreadIdle
<1>4. Others' = Others \ {s} /\ Targets' = {}
  BY <1>1, <1>2, <1>3 DEF Others, Targets, WaitSteps, At
<1>5. Suspended(t) /\ InSleep(t) /\ t # s /\ t \in Others'
  <2>1. Suspended(t)
    BY <1>1, <1>2 DEF Sound, Handlers, At
  <2> QED BY <1>1, <1>2, <1>4, <2>1 DEF Suspended, InSleep
<1>6. ext_suspend_cnt'[t] = ext_suspend_cnt[t] + 1 /\ Even(ext_suspend_cnt'[t]) /\ ~Odd(ext_suspend_cnt'[t])
  BY <1>2, Parity DEF Types
<1>7. \A p \in Thr : (InSleep(p)' <=> InSleep(p)) /\ ~Acked(p)'
  BY <1>1, <1>2 DEF InSleep, Acked
<1>8. ~Suspended(t)' /\ \A p \in Thr \ {t} : Suspended(p)' <=> Suspended(p)
  BY <1>2, <1>5, <1>6, <1>7 DEF Suspended, Types
<1>9. GC_retry_signals => Late' = {t}
  <2>1. SUFFICES ASSUME GC_retry_signals PROVE Late' = {t}
    OBVIOUS
  <2>2. ASSUME NEW p \in Late', p # t PROVE FALSE
    <3>1. p \in Thr /\ p \in Others
      BY <1>4, <2>2 DEF Late, Others, Types
    <3>2. p \in Late
      BY <1>2, <1>7, <1>8, <2>2, <3>1, ZenonT(30) DEF Late
    <3> QED BY <1>1, <2>1, <3>2
  <2>3. t \in Late'
    BY <1>1, <1>2, <1>5, <1>7, <1>8 DEF Late, Acked
  <2> QED BY <2>2, <2>3
<1>10. Phases'
  BY <1>1, <1>2, <1>3, <1>5, <1>6, Parity
     DEF Phases, DirtySteps, RetrySteps, EvenSteps, Evens, Types
<1>11. StopCount'
  BY <1>3 DEF StopCount, WaitSteps, At
<1>12. StartCount'
  <2>1. GC_retry_signals => Cardinality(Late') = 1
    BY <1>9, ZenonT(30) DEF FiniteSetFacts
  <2> QED BY <1>1, <1>2, <1>3, <1>9, <2>1 DEF StartCount, StartSteps, LeaveSteps, At
<1>13. ASSUME NEW p \in Thr PROVE Counts(p)'
  <2>1. Counts(p) /\ ~Even(GC_stop_count)
    BY <1>1, Parity DEF Sound, Types
  <2> QED BY <1>2, <1>3, <2>1 DEF Counts, FreshSteps
<1>14. ASSUME NEW p \in Thr PROVE Handlers(p)'
  <2>1. Handlers(p)
    BY DEF Sound
  <2>2. CASE p = t
    BY <1>1, <1>2, <1>3, <1>4, <1>5, <1>6, <1>7, <2>1, <2>2 DEF Handlers, At
  <2>3. CASE p # t
    <3>1. ext_suspend_cnt'[p] = ext_suspend_cnt[p]
      BY <1>2, <2>3 DEF Types
    <3> QED BY <1>1, <1>2, <1>3, <1>4, <1>7, <1>8, <2>1, <2>3, <3>1 DEF Handlers, At
  <2> QED BY <2>2, <2>3
<1> QED BY <1>10, <1>11, <1>12, <1>13, <1>14 DEF Sound

-----------------------------------------------------------------------------
(* The holder of the lock stops the world. *)

\* What the steps of the holder leave alone, but for a new GC_stop_count or the
\* suspension of a thread.
HolderFrame ==
    UNCHANGED <<GC_retry_signals, GC_stop_count, threadVars, sigHandlerVars, allocLock, ext_suspend_cnt>>

\* Such a step changes nothing in the handlers.
LEMMA SameHandlers ==
  ASSUME HolderFrame
  PROVE  /\ Others' = Others /\ Evens' = Evens /\ Late' = Late
         /\ \A p : /\ Acked(p)' <=> Acked(p)
                   /\ InSleep(p)' <=> InSleep(p)
                   /\ Suspended(p)' <=> Suspended(p)
<1>1. Others' = Others /\ Evens' = Evens
  BY DEF HolderFrame, Others, Evens
<1>2. \A p : (Acked(p)' <=> Acked(p)) /\ (InSleep(p)' <=> InSleep(p)) /\ (Suspended(p)' <=> Suspended(p))
  BY DEF HolderFrame, Acked, InSleep, Suspended
<1>3. Late' = Late
  BY <1>1, <1>2 DEF HolderFrame, Late
<1> QED BY <1>1, <1>2, <1>3

\* A thread keeps its part of the invariant when the holder goes on within the
\* phase it is in: the same targets, and no new signal.
LEMMA SamePhase ==
  ASSUME HolderFrame, Targets' = Targets, suspendSig' = suspendSig,
         At("stopped")' <=> At("stopped"), At("susp_wait")' <=> At("susp_wait"), op'.target = op.target,
         op'.step \in FreshSteps => op.step \in FreshSteps,
         NEW p, Counts(p), Handlers(p), hpc[p] # "none" => dirtyLock' # p
  PROVE  Counts(p)' /\ Handlers(p)'
<1>1. Others' = Others /\ (Acked(p)' <=> Acked(p)) /\ (Suspended(p)' <=> Suspended(p))
  BY SameHandlers
<1>2. Counts(p)'
  BY <1>1 DEF Counts, HolderFrame
<1>3. Handlers(p)'
  BY <1>1 DEF Handlers, HolderFrame
<1> QED BY <1>2, <1>3

\* The lock of GC_dirty: its holder is not in a handler.
LEMMA SoundAcquire ==
  ASSUME StopWorldAssumption, FiniteSetFacts, Types, Types', Sound, StopAcquireDirty
  PROVE  Sound'
<1>1. HolderFrame /\ suspendSig' = suspendSig /\ ackSem' = ackSem /\ dirtyLock' = allocLock
  BY DEF StopAcquireDirty, HolderFrame
<1>2. op.step = "stop_dirty" /\ op'.step = "stop_send" /\ op'.target = op.target
  BY DEF StopAcquireDirty, Goto, At, Types
<1>3. Targets = {} /\ Targets' = {}
  BY <1>2 DEF Targets, WaitSteps, At
<1>4. Others' = Others /\ Late' = Late /\ Evens' = Evens
  BY <1>1, SameHandlers
<1>5. Phases'
  BY <1>1, <1>2, <1>4 DEF Sound, Phases, HolderFrame, EvenSteps, DirtySteps, RetrySteps, TargetSteps
<1>6. StopCount'
  BY <1>2 DEF StopCount, WaitSteps, At
<1>7. StartCount'
  BY <1>1, <1>2, <1>4 DEF Sound, StartCount, HolderFrame, WaitSteps, StartSteps, LeaveSteps, At
<1>8. ASSUME NEW p \in Thr PROVE Counts(p)' /\ Handlers(p)'
  <2>1. hpc[p] # "none" => allocLock # p
    BY DEF Sound, Handlers, Others
  <2> QED BY <1>1, <1>2, <1>3, <2>1, SamePhase DEF Sound, FreshSteps, At
<1> QED BY <1>5, <1>6, <1>7, <1>8 DEF Sound

\* Waiting takes one acknowledgement off the semaphore and off the number needed.
LEMMA SoundWait ==
  ASSUME StopWorldAssumption, FiniteSetFacts, Types, Types', Sound, TakeAck \/ AckTimeout \/ ResendDone
  PROVE  Sound'
<1>1. HolderFrame /\ suspendSig' = suspendSig /\ dirtyLock' = dirtyLock
  BY DEF TakeAck, AckTimeout, ResendDone, HolderFrame
<1>2. GC_retry_signals \/ op.step \notin StartSteps
  BY DEF TakeAck, AckTimeout, ResendDone, Sound, Phases, StartCount, RetrySteps, StartSteps, At, Types
<1>3. /\ op'.target = op.target
      /\ \/ op'.need = op.need /\ ackSem' = ackSem
         \/ op'.need = op.need - 1 /\ ackSem' = ackSem - 1
      /\ \/ op.step \in WaitSteps /\ op'.step \in WaitSteps
         \/ op.step \in StartSteps /\ op'.step \in StartSteps
      /\ op'.step = op.step \/ op.step \in RetrySteps \/ op'.step = "start_resend"
  <2> USE DEF WaitSteps, StartSteps, RetrySteps, Goto, At, Types
  <2>1. CASE TakeAck
    BY <2>1 DEF TakeAck
  <2>2. CASE AckTimeout
    BY <2>2 DEF AckTimeout
  <2>3. CASE ResendDone
    BY <2>3 DEF ResendDone
  <2> QED BY <2>1, <2>2, <2>3
<1>4. op'.step \in RetrySteps => GC_retry_signals
  BY <1>2, <1>3 DEF Sound, Phases, StartSteps, WaitSteps
<1>5. Others' = Others /\ Evens' = Evens /\ Late' = Late
  BY <1>1, SameHandlers
<1>6. Targets' = Targets
  BY <1>3, <1>5 DEF Targets, WaitSteps, StartSteps, At
<1>7. NotPosted' = NotPosted
  BY <1>1, <1>6, SameHandlers DEF NotPosted
<1>8. Phases'
  BY <1>1, <1>3, <1>4, <1>5
     DEF Sound, Phases, HolderFrame, EvenSteps, DirtySteps, TargetSteps, WaitSteps, StartSteps
<1>9. Cardinality(NotPosted) \in Nat /\ Cardinality(Late) \in Nat
  <2>1. NotPosted \subseteq Others /\ Late \subseteq Others
    BY TargetsAreOthers DEF Sound, NotPosted, Late
  <2> QED BY <2>1, Finite
<1>10. StopCount'
  BY <1>3, <1>7, <1>9 DEF Sound, StopCount, WaitSteps, StartSteps, At, Types
<1>11. StartCount'
  <2>1. StartCount /\ GC_retry_signals' = GC_retry_signals
    BY <1>1 DEF Sound, HolderFrame
  <2>2. CASE op.step \in WaitSteps
    BY <1>3, <1>5, <2>1, <2>2 DEF StartCount, WaitSteps, StartSteps, LeaveSteps, At
  <2>3. CASE op.step \in StartSteps
    <3>1. GC_retry_signals /\ op'.step \in StartSteps
      BY <1>2, <1>3, <2>3 DEF WaitSteps, StartSteps
    <3>2. op'.need = ackSem' + Cardinality(Late')
      BY <1>3, <1>5, <1>9, <2>1, <2>3, <3>1 DEF StartCount, Types
    <3> QED BY <2>1, <3>1, <3>2 DEF StartCount, StartSteps, LeaveSteps, At
  <2> QED BY <1>3, <2>2, <2>3
<1>12. ASSUME NEW p \in Thr PROVE Counts(p)' /\ Handlers(p)'
  <2>1. Counts(p) /\ Handlers(p) /\ (hpc[p] # "none" => dirtyLock' # p)
    BY <1>1 DEF Sound, Handlers
  <2>2. op'.step \notin FreshSteps /\ ~At("stopped") /\ ~At("stopped")' /\ ~At("susp_wait") /\ ~At("susp_wait")'
    BY <1>3 DEF WaitSteps, StartSteps, FreshSteps, At
  <2> QED BY <1>1, <1>3, <1>6, <2>1, <2>2, SamePhase
<1> QED BY <1>8, <1>10, <1>11, <1>12 DEF Sound

\* GC_suspend_all asks every thread that is not suspended by the client.
LEMMA SoundStopSend ==
  ASSUME StopWorldAssumption, FiniteSetFacts, Types, Types', Sound, StopSend
  PROVE  Sound'
<1>1. HolderFrame /\ ackSem' = ackSem /\ dirtyLock' = dirtyLock
  BY DEF StopSend, HolderFrame
<1>2. /\ op.step = "stop_send" /\ op'.step \in {"stop_timed", "stop_wait"} /\ op'.target = op.target
      /\ op'.step = "stop_timed" => GC_retry_signals
      /\ op'.need = Cardinality(SuspendTargets)
  BY DEF StopSend, GotoNeed, At, Types
<1>3. \A p \in Thr : /\ Counts(p) /\ Handlers(p)
                     /\ my_stop_count[p] # GC_stop_count /\ last_stop_count[p] # GC_stop_count
                     /\ hpc[p] # "post" /\ ~Acked(p) /\ p \notin suspendSig
  <2>1. Targets = {}
    BY <1>2 DEF Targets, WaitSteps, At
  <2> QED BY <1>2, <2>1 DEF Sound, Counts, Handlers, FreshSteps, Acked
<1>4. Others' = Others /\ Evens' = Evens /\ Late' = Late /\ \A p : Acked(p)' <=> Acked(p)
  BY <1>1, SameHandlers
<1>5. SuspendTargets = Evens /\ Evens \subseteq Thr
  BY <1>3 DEF SuspendTargets, Evens, Others, Types
<1>6. Targets' = Evens
  BY <1>2, <1>4 DEF Targets, WaitSteps
<1>7. NotPosted' = Evens
  BY <1>3, <1>4, <1>5, <1>6 DEF NotPosted
<1>8. suspendSig' \subseteq Evens
  <2>1. suspendSig = {}
    BY <1>3 DEF Types
  <2> QED BY <1>5, <2>1 DEF StopSend, Send
<1>9. ackSem = 0
  BY <1>2 DEF Sound, StartCount, WaitSteps, StartSteps, LeaveSteps
<1>10. Phases'
  BY <1>1, <1>2, <1>4 DEF Sound, Phases, HolderFrame, EvenSteps, DirtySteps, RetrySteps, TargetSteps
<1>11. StopCount'
  <2>1. Cardinality(Evens) \in Nat
    BY Finite DEF Evens
  <2> QED BY <1>1, <1>2, <1>5, <1>7, <1>9, <2>1 DEF StopCount, WaitSteps, At
<1>12. StartCount'
  BY <1>1, <1>2, <1>4 DEF Sound, StartCount, HolderFrame, WaitSteps, StartSteps, LeaveSteps, At
<1>13. ASSUME NEW p \in Thr PROVE Counts(p)'
  BY <1>1, <1>2, <1>3, <1>4 DEF Counts, HolderFrame, FreshSteps
<1>14. ASSUME NEW p \in Thr PROVE Handlers(p)'
  <2>1. p \in suspendSig' => p \in Targets' /\ last_stop_count[p] < GC_stop_count
    BY <1>3, <1>6, <1>8 DEF Counts, Types
  <2>2. Suspended(p)' <=> Suspended(p)
    BY <1>1, SameHandlers
  <2> QED BY <1>1, <1>2, <1>3, <1>4, <2>1, <2>2, ZenonT(30) DEF Handlers, HolderFrame, At
<1> QED BY <1>10, <1>11, <1>12, <1>13, <1>14 DEF Sound

\* A resend asks every thread that has not answered, so what is needed is what was
\* needed; and, unless a thread is outrun, only those that did not get the signal.
LEMMA SoundResend ==
  ASSUME StopWorldAssumption, FiniteSetFacts, Types, Types', Sound, Resend, ~outrun'
  PROVE  Sound'
<1>1. HolderFrame /\ ackSem' = ackSem /\ dirtyLock' = dirtyLock
  BY DEF Resend, HolderFrame
<1>2. \A p \in Thr : Counts(p) /\ Handlers(p)
  BY DEF Sound
<1> DEFINE S == IF At("stop_resend") THEN SuspendTargets ELSE RestartTargets(TRUE)
<1> DEFINE Missing == IF At("stop_resend") THEN NotPosted ELSE Late
<1>3. GC_retry_signals /\ op.step \in {"stop_resend", "start_resend"}
  BY DEF Sound, Phases, RetrySteps, Resend
<1>4. Targets \subseteq Others /\ Others \subseteq Thr
  BY TargetsAreOthers DEF Sound
<1>5. Missing \subseteq S
  <2>1. CASE op.step = "stop_resend"
    <3>1. Targets = Evens /\ Even(GC_stop_count)
      BY <2>1 DEF Targets, WaitSteps, Sound, Phases, EvenSteps
    <3>2. \A p \in NotPosted : p \in Evens /\ last_stop_count[p] # GC_stop_count
      BY <1>2, <1>4, <3>1 DEF NotPosted, Counts
    <3> QED BY <2>1, <3>2 DEF At, SuspendTargets, Evens, Others
  <2>2. CASE op.step = "start_resend"
    <3>1. ~Even(GC_stop_count)
      BY <2>2 DEF Sound, Phases, EvenSteps
    <3>2. ASSUME NEW p \in Late PROVE p \in Others /\ Even(ext_suspend_cnt[p]) /\ last_stop_count[p] # GC_stop_count
      <4>1. p \in Others /\ p \in Thr /\ (hpc[p] = "repost" \/ InSleep(p)) /\ ~Suspended(p)
        BY <1>4 DEF Late, Suspended, InSleep
      <4>2. ~Odd(ext_suspend_cnt[p])
        BY <1>2, <2>2, <4>1 DEF Handlers, Others, At
      <4>3. Even(ext_suspend_cnt[p])
        BY <4>1, <4>2, Parity DEF Types
      <4>4. Even(my_stop_count[p]) /\ my_stop_count[p] <= GC_stop_count
            /\ (last_stop_count[p] = my_stop_count[p] \/ last_stop_count[p] < my_stop_count[p])
        BY <1>2, <4>1 DEF Counts, InSleep
      <4>5. last_stop_count[p] # GC_stop_count
        BY <3>1, <4>1, <4>4 DEF Types
      <4> QED BY <4>1, <4>3, <4>5
    <3> QED BY <2>2, <3>2 DEF At, RestartTargets, Others
  <2> QED BY <1>3, <2>1, <2>2, ZenonT(30)
<1>6. op.need = ackSem + Cardinality(Missing) /\ Cardinality(Missing) <= Cardinality(S)
      /\ Cardinality(Missing) \in Nat /\ Cardinality(S) \in Nat
  <2>1. IsFiniteSet(S) /\ Cardinality(S) \in Nat
    BY Finite, ZenonT(30)
  <2>2. op.need = ackSem + Cardinality(Missing)
    BY <1>3 DEF Sound, StopCount, StartCount, WaitSteps, StartSteps, At
  <2> HIDE DEF S, Missing
  <2> QED BY <1>5, <2>1, <2>2 DEF FiniteSetFacts
<1>7. op'.step = op.step /\ op'.need = op.need /\ op'.target = op.target
  <2>1. op' = [op EXCEPT !.step = op.step, !.need = IF Cardinality(S) < op.need - ackSem
                                                    THEN ackSem + Cardinality(S) ELSE op.need]
    BY DEF Resend, GotoNeed
  <2> HIDE DEF S, Missing
  <2>2. ~(Cardinality(S) < op.need - ackSem)
    BY <1>6 DEF Types
  <2> QED BY <2>1, <2>2 DEF Types
<1>8. Others' = Others /\ Evens' = Evens /\ Late' = Late /\ \A p : (Acked(p)' <=> Acked(p)) /\ (Suspended(p)' <=> Suspended(p))
  BY <1>1, SameHandlers
<1>9. Targets' = Targets /\ NotPosted' = NotPosted
  <2>1. Targets' = Targets
    BY <1>7, <1>8 DEF Targets, At
  <2> QED BY <1>8, <2>1 DEF NotPosted
<1>10. Phases' /\ StopCount' /\ StartCount'
  <2>1. Phases'
    BY <1>1, <1>7, <1>8 DEF Sound, Phases, HolderFrame
  <2>2. StopCount'
    BY <1>1, <1>7, <1>8, <1>9 DEF Sound, StopCount, At
  <2>3. StartCount'
    BY <1>1, <1>7, <1>8, ZenonT(30) DEF Sound, StartCount, At, HolderFrame
  <2> QED BY <2>1, <2>2, <2>3
<1>11. ASSUME NEW p \in Thr PROVE Counts(p)'
  BY <1>1, <1>2, <1>7, <1>8, ZenonT(30) DEF Counts, HolderFrame
<1>12. ASSUME NEW p \in suspendSig', p \notin suspendSig, p \in Thr
       PROVE  p \in Targets /\ last_stop_count[p] < GC_stop_count /\ hpc[p] # "post" /\ ~Acked(p)
  <2>1. At("stop_resend") /\ p \in SuspendTargets
        /\ ~(hpc[p] \in {"post", "publish"} /\ my_stop_count[p] = GC_stop_count)
    BY <1>12, ZenonT(30) DEF Resend, Send
  <2>2. p \in Targets /\ last_stop_count[p] # GC_stop_count
    BY <2>1 DEF SuspendTargets, Targets, Evens, Others, WaitSteps, At
  <2>3. hpc[p] # "post"
    BY <1>2, <1>12, <2>1, ZenonT(30) DEF Handlers
  <2>4. ~Acked(p)
    BY <1>2, <1>12, <2>1, <2>2 DEF Acked, InSleep, Counts
  <2>5. last_stop_count[p] < GC_stop_count
    BY <1>2, <1>12, <2>2 DEF Counts, Types
  <2> QED BY <2>2, <2>3, <2>4, <2>5
<1>13. ASSUME NEW p \in Thr PROVE Handlers(p)'
  BY <1>1, <1>2, <1>7, <1>8, <1>9, <1>12, ZenonT(30) DEF Handlers, HolderFrame, At
<1> QED BY <1>10, <1>11, <1>13 DEF Sound

\* The last acknowledgement: every thread that was to be stopped is in its handler,
\* and no signal is left.
LEMMA SoundStopDone ==
  ASSUME StopWorldAssumption, FiniteSetFacts, Types, Types', Sound, StopDone
  PROVE  Sound'
<1>1. HolderFrame /\ ackSem' = ackSem /\ suspendSig' = suspendSig /\ dirtyLock' \in {dirtyLock, NoThread}
  BY DEF StopDone, HolderFrame
<1>2. /\ op.step \in {"stop_timed", "stop_wait"} /\ op.need = 0
      /\ op'.step = "stopped" /\ op'.target = op.target
  BY DEF StopDone, Goto, Types
<1>3. \A p \in Thr : Counts(p) /\ Handlers(p)
  BY DEF Sound
<1>4. Targets = Evens /\ Evens \subseteq Thr
  BY <1>2 DEF Targets, WaitSteps, Evens, Others, Types
<1>5. ackSem = 0 /\ NotPosted = {}
  <2>1. IsFiniteSet(NotPosted) /\ Cardinality(NotPosted) \in Nat
    BY <1>4, Finite DEF NotPosted, Evens
  <2>2. 0 = ackSem + Cardinality(NotPosted)
    BY <1>2 DEF Sound, StopCount, WaitSteps
  <2>3. ackSem = 0 /\ Cardinality(NotPosted) = 0
    BY <2>1, <2>2 DEF Types
  <2> HIDE DEF NotPosted
  <2> QED BY <2>1, <2>3 DEF FiniteSetFacts
<1>6. \A p \in Evens : Acked(p)
  BY <1>4, <1>5 DEF NotPosted
<1>7. \A p \in Thr : hpc[p] # "post" /\ p \notin suspendSig
  BY <1>3, <1>4, <1>6 DEF Handlers, Acked, InSleep
<1>8. Others' = Others /\ Evens' = Evens /\ Late' = Late /\ \A p : (Acked(p)' <=> Acked(p)) /\ (Suspended(p)' <=> Suspended(p))
  BY <1>1, SameHandlers
<1>9. Phases'
  BY <1>1, <1>2, <1>8 DEF Sound, Phases, HolderFrame, EvenSteps, DirtySteps, RetrySteps, TargetSteps
<1>10. StopCount'
  BY <1>2, <1>6, <1>8 DEF StopCount, WaitSteps, At
<1>11. StartCount'
  BY <1>1, <1>2, <1>5, <1>8 DEF Sound, StartCount, HolderFrame, WaitSteps, StartSteps, LeaveSteps, At
<1>12. ASSUME NEW p \in Thr PROVE Counts(p)'
  BY <1>1, <1>2, <1>3, <1>8, ZenonT(30) DEF Counts, HolderFrame, FreshSteps
<1>13. ASSUME NEW p \in Thr PROVE Handlers(p)'
  <2>1. hpc[p] # "none" => dirtyLock' # p
    BY <1>1, <1>3, ZenonT(30) DEF Handlers, StopWorldAssumption
  <2> QED BY <1>1, <1>2, <1>3, <1>7, <1>8, <2>1, ZenonT(30) DEF Handlers, HolderFrame, At
<1> QED BY <1>9, <1>10, <1>11, <1>12, <1>13 DEF Sound

\* Raising GC_stop_count lets exactly the stopped threads go.
LEMMA SoundStartWorld ==
  ASSUME StopWorldAssumption, FiniteSetFacts, Types, Types', Sound, GC_start_world
  PROVE  Sound'
<1>1. /\ UNCHANGED <<GC_retry_signals, ackSem, threadVars, sigHandlerVars, sigVars, allocLock, dirtyLock,
                     ext_suspend_cnt>>
      /\ GC_stop_count' = GC_stop_count + 1
  BY DEF GC_start_world
<1>2. op.step = "stopped" /\ op'.step = "start_send" /\ op'.target = op.target
  BY DEF GC_start_world, Goto, At, Types
<1>3. \A p \in Thr : Counts(p) /\ Handlers(p)
  BY DEF Sound
<1>4. Targets = {} /\ Targets' = {} /\ Others' = Others /\ Evens' = Evens /\ Others \subseteq Thr
  BY <1>1, <1>2 DEF Targets, Others, Evens, WaitSteps, At, Types
<1>5. \A p \in Thr : (InSleep(p)' <=> InSleep(p)) /\ (Suspended(p)' <=> Suspended(p))
  BY <1>1, ZenonT(30) DEF InSleep, Suspended
<1>6. \A p \in Thr : my_stop_count[p] # GC_stop_count' /\ last_stop_count[p] # GC_stop_count' /\ ~Acked(p)'
  BY <1>1, <1>3 DEF Counts, Acked, Types
<1>7. Even(GC_stop_count) /\ ~Even(GC_stop_count')
  <2>1. Even(GC_stop_count)
    BY <1>2 DEF Sound, Phases, EvenSteps
  <2> QED BY <1>1, <2>1, Parity DEF Types
<1>8. ackSem = 0
  BY <1>2 DEF Sound, StartCount, WaitSteps, LeaveSteps, StartSteps
<1>9. GC_retry_signals => Late' = Evens
  <2>1. SUFFICES ASSUME GC_retry_signals PROVE Late' = Evens
    OBVIOUS
  <2>2. Late = {}
    BY <1>2, <2>1 DEF Sound, StartCount, LeaveSteps, StartSteps
  <2>3. ASSUME NEW p \in Late' PROVE p \in Evens
    <3>1. p \in Others /\ p \in Thr /\ p \notin Late
      BY <1>4, <2>2, <2>3 DEF Late
    <3>2. InSleep(p) /\ ~Suspended(p)
      BY <1>1, <1>5, <2>3, <3>1 DEF Late
    <3>3. ~Odd(ext_suspend_cnt[p])
      BY <1>2, <1>3, <3>1, <3>2, ZenonT(30) DEF Handlers, Others, At
    <3> QED BY <3>1, <3>3, Parity DEF Evens, Types
  <2>4. ASSUME NEW p \in Evens PROVE p \in Late'
    <3>1. p \in Others /\ p \in Thr /\ Acked(p) /\ Even(ext_suspend_cnt[p])
      BY <1>2, <1>4 DEF Evens, Sound, StopCount, At
    <3>2. InSleep(p) /\ ~Suspended(p)
      BY <3>1, Parity DEF Acked, Suspended, Types
    <3> QED BY <1>1, <1>4, <1>5, <1>6, <3>1, <3>2, ZenonT(30) DEF Late
  <2> QED BY <2>3, <2>4
<1>10. Phases'
  BY <1>2, <1>7 DEF Phases, EvenSteps, DirtySteps, RetrySteps, TargetSteps
<1>11. StopCount'
  BY <1>2 DEF StopCount, WaitSteps, At
<1>12. StartCount'
  <2>1. Cardinality(Evens) \in Nat
    BY Finite DEF Evens
  <2>2. GC_retry_signals' = GC_retry_signals /\ ackSem' = 0 /\ Evens' = Evens
    BY <1>1, <1>4, <1>8
  <2>3. GC_retry_signals => Cardinality(Evens') = ackSem' + Cardinality(Late')
    BY <1>9, <2>1, <2>2
  <2> QED BY <1>2, <2>2, <2>3 DEF StartCount, StartSteps, LeaveSteps, WaitSteps, At
<1>13. ASSUME NEW p \in Thr PROVE Counts(p)'
  BY <1>1, <1>2, <1>3, <1>6 DEF Counts, FreshSteps, Types
<1>14. ASSUME NEW p \in Thr PROVE Handlers(p)'
  BY <1>1, <1>2, <1>3, <1>4, <1>5, <1>6, ZenonT(30) DEF Handlers, At
<1> QED BY <1>10, <1>11, <1>12, <1>13, <1>14 DEF Sound

\* GC_restart_all asks every thread that was stopped.
LEMMA SoundStartSend ==
  ASSUME StopWorldAssumption, FiniteSetFacts, Types, Types', Sound, StartSend
  PROVE  Sound'
<1>1. HolderFrame /\ ackSem' = ackSem /\ dirtyLock' = dirtyLock /\ suspendSig' = suspendSig
  BY ZenonT(30) DEF StartSend, HolderFrame, Send
<1>2. op.step = "start_send" /\ op'.step = "start_timed" /\ op'.target = op.target
      /\ op'.need = IF GC_retry_signals THEN Cardinality(RestartTargets(FALSE)) ELSE 0
  BY DEF StartSend, GotoNeed, At, Types
<1>3. RestartTargets(FALSE) = Evens
  BY DEF RestartTargets, Evens, Others
<1>4. Others' = Others /\ Evens' = Evens /\ Late' = Late
  BY <1>1, SameHandlers
<1>5. Targets = {} /\ Targets' = {}
  BY <1>2 DEF Targets, WaitSteps, At
<1>6. Phases'
  BY <1>1, <1>2, <1>4 DEF Sound, Phases, HolderFrame, EvenSteps, DirtySteps, RetrySteps, TargetSteps
<1>7. StopCount'
  BY <1>2 DEF StopCount, WaitSteps, At
<1>8. StartCount'
  BY <1>1, <1>2, <1>3, <1>4, ZenonT(30) DEF Sound, StartCount, HolderFrame, WaitSteps, StartSteps, LeaveSteps, At
<1>9. ASSUME NEW p \in Thr PROVE Counts(p)' /\ Handlers(p)'
  <2>1. Counts(p) /\ Handlers(p) /\ (hpc[p] # "none" => dirtyLock' # p)
    BY <1>1, ZenonT(30) DEF Sound, Handlers
  <2> QED BY <1>1, <1>2, <1>5, <2>1, SamePhase DEF FreshSteps, At
<1> QED BY <1>6, <1>7, <1>8, <1>9 DEF Sound
=============================================================================
