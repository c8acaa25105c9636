-------------------------- MODULE StopWorldProofs --------------------------
(***************************************************************************)
(* Stopping the world by signals: the remaining steps of the holder of the *)
(* lock keep the invariant of StopWorldInvariant.tla, so whoever waited    *)
(* for the acknowledgements finds every thread in its handler, and a       *)
(* thread that the client suspended stays there.                           *)
(***************************************************************************)
EXTENDS StopWorldSteps, FiniteSetTheorems

(* The default provers in their order, then SMT once more with more time. *)
USE SMT, Zenon, SMTT(30)
USE DEF countVars, threadVars, sigHandlerVars, sigVars, lockVars

-----------------------------------------------------------------------------
(* The facts about finite sets that the steps were proved from. *)
LEMMA FiniteSetFactsHold == FiniteSetFacts
<1>1. \A S : IsFiniteSet(S) => Cardinality(S) \in Nat /\ (Cardinality(S) = 0 <=> S = {})
  BY FS_CardinalityType, FS_EmptySet
<1>2. \A S, T : IsFiniteSet(S) /\ T \subseteq S => IsFiniteSet(T) /\ Cardinality(T) <= Cardinality(S)
  BY FS_Subset
<1>3. \A S, x : IsFiniteSet(S) /\ x \in S => Cardinality(S \ {x}) = Cardinality(S) - 1
  BY FS_RemoveElement
<1>4. \A x : Cardinality({x}) = 1
  BY FS_Singleton, ZenonT(30)
<1> QED BY <1>1, <1>2, <1>3, <1>4, ZenonT(30) DEF FiniteSetFacts

-----------------------------------------------------------------------------
(* The end of an operation, and the suspension of one thread. *)

\* The holder releases the lock with the semaphore drained and nobody on the way
\* out whose acknowledgement it would miss.
LEMMA Release ==
  ASSUME StopWorldAssumption, FiniteSetFacts, Types, Types', Sound,
         UNCHANGED <<GC_retry_signals, GC_stop_count, threadVars, sigHandlerVars, suspendSig, dirtyLock,
                     ext_suspend_cnt>>,
         allocLock' = NoThread, op'.step = "idle", op.step \notin EvenSteps,
         ackSem' = 0, GC_retry_signals => Late = {}
  PROVE  Sound'
<1>1. \A p \in Thr : Counts(p) /\ Handlers(p)
  BY DEF Sound
<1>2. Targets = {} /\ Targets' = {} /\ ~At("stopped") /\ ~At("susp_wait")
  BY DEF Targets, WaitSteps, EvenSteps, At
<1>3. Others \subseteq Others' /\ Others' \subseteq Others \cup {allocLock} /\ Others' \subseteq Thr
  BY DEF Others, Types, StopWorldAssumption
<1>4. \A p : (InSleep(p)' <=> InSleep(p)) /\ (Acked(p)' <=> Acked(p)) /\ (Suspended(p)' <=> Suspended(p))
  BY DEF InSleep, Acked, Suspended
<1>5. allocLock \in Thr => ~InSleep(allocLock) /\ hpc[allocLock] # "repost"
  BY <1>1 DEF Handlers, Others, InSleep
<1>6. GC_retry_signals => Late' = {}
  <2>1. Late' \subseteq Late
    BY <1>3, <1>4, <1>5 DEF Late
  <2> QED BY <2>1
<1>7. Phases'
  BY DEF Sound, Phases, EvenSteps, DirtySteps, RetrySteps, TargetSteps
<1>8. StopCount'
  BY DEF StopCount, WaitSteps, At
<1>9. StartCount'
  BY <1>6 DEF StartCount, StartSteps, LeaveSteps, At
<1>10. ASSUME NEW p \in Thr PROVE Counts(p)'
  BY <1>1, <1>4 DEF Counts, FreshSteps
<1>11. ASSUME NEW p \in Thr PROVE Handlers(p)'
  BY <1>1, <1>2, <1>3, <1>4 DEF Handlers, At
<1> QED BY <1>7, <1>8, <1>9, <1>10, <1>11 DEF Sound

\* The end of GC_start_world, and of GC_resume_thread once the thread has answered.
LEMMA SoundRelease ==
  ASSUME StopWorldAssumption, FiniteSetFacts, Types, Types', Sound,
         StartDone \/ ResumeDone \/ (ResumeSend /\ ~GC_retry_signals)
  PROVE  Sound'
<1>1. /\ UNCHANGED <<GC_retry_signals, GC_stop_count, threadVars, sigHandlerVars, suspendSig, dirtyLock,
                     ext_suspend_cnt>>
      /\ allocLock' = NoThread /\ op'.step = "idle"
  BY DEF StartDone, ResumeDone, ResumeSend, ThreadIdle
<1>2. op.step \notin EvenSteps
  BY DEF StartDone, ResumeDone, ResumeSend, EvenSteps, At
<1>3. IsFiniteSet(Late) /\ Cardinality(Late) \in Nat
  BY Finite DEF Late
<1>4. ackSem' = 0 /\ (GC_retry_signals => Cardinality(Late) = 0)
  <2>1. CASE StartDone
    <3>1. op.step \in StartSteps /\ op.need = 0 /\ ackSem' = ackSem
      BY <2>1 DEF StartDone, StartSteps
    <3>2. CASE GC_retry_signals
      BY <1>3, <3>1, <3>2 DEF Sound, StartCount, Types
    <3>3. CASE ~GC_retry_signals
      BY <3>1, <3>3 DEF Sound, StartCount, StartSteps, WaitSteps
    <3> QED BY <3>2, <3>3
  <2>2. CASE ResumeDone
    <3>1. op.step = "resume_wait" /\ ackSem > 0 /\ ackSem' = ackSem - 1
      BY <2>2 DEF ResumeDone, At
    <3>2. GC_retry_signals
      BY <3>1 DEF Sound, Phases, RetrySteps
    <3> QED BY <1>3, <3>1, <3>2 DEF Sound, StartCount, Types
  <2>3. CASE ResumeSend /\ ~GC_retry_signals
    BY <2>3 DEF ResumeSend, Sound, StartCount, WaitSteps, At
  <2> QED BY <2>1, <2>2, <2>3
<1>5. GC_retry_signals => Late = {}
  <2> HIDE DEF Late
  <2> QED BY <1>3, <1>4 DEF FiniteSetFacts
<1> QED BY <1>1, <1>2, <1>4, <1>5, Release

\* GC_resume_thread waits for the thread to leave if it may have to ask again.
LEMMA SoundResumeSend ==
  ASSUME StopWorldAssumption, FiniteSetFacts, Types, Types', Sound, ResumeSend, GC_retry_signals
  PROVE  Sound'
<1>1. HolderFrame /\ ackSem' = ackSem /\ dirtyLock' = dirtyLock /\ suspendSig' = suspendSig
  BY DEF ResumeSend, HolderFrame
<1>2. op.step = "resume_send" /\ op'.step = "resume_wait" /\ op'.target = op.target
  BY DEF ResumeSend, Goto, At, Types
<1>3. Others' = Others /\ Evens' = Evens /\ Late' = Late
  BY <1>1, SameHandlers
<1>4. Targets = {} /\ Targets' = {}
  BY <1>2 DEF Targets, WaitSteps, At
<1>5. Phases'
  BY <1>1, <1>2, <1>3 DEF Sound, Phases, HolderFrame, EvenSteps, DirtySteps, RetrySteps, TargetSteps
<1>6. StopCount'
  BY <1>2 DEF StopCount, WaitSteps, At
<1>7. StartCount'
  BY <1>1, <1>2, <1>3 DEF Sound, StartCount, HolderFrame, WaitSteps, StartSteps, LeaveSteps, At
<1>8. ASSUME NEW p \in Thr PROVE Counts(p)' /\ Handlers(p)'
  <2>1. Counts(p) /\ Handlers(p) /\ (hpc[p] # "none" => dirtyLock' # p)
    BY <1>1 DEF Sound, Handlers
  <2> QED BY <1>1, <1>2, <1>4, <2>1, SamePhase DEF FreshSteps, At
<1> QED BY <1>5, <1>6, <1>7, <1>8 DEF Sound

\* GC_suspend_thread raises GC_stop_count for one thread.
LEMMA SoundSuspendCount ==
  ASSUME StopWorldAssumption, FiniteSetFacts, Types, Types', Sound, SuspendCount
  PROVE  Sound'
<1>1. /\ UNCHANGED <<GC_retry_signals, ackSem, threadVars, sigHandlerVars, suspendSig, allocLock, ext_suspend_cnt>>
      /\ GC_stop_count' = GC_stop_count + 1 /\ dirtyLock' = allocLock
  BY DEF SuspendCount
<1>2. op.step = "susp_count" /\ op'.step = "susp_send" /\ op'.target = op.target
  BY DEF SuspendCount, Goto, At, Types
<1>3. \A p \in Thr : Counts(p) /\ Handlers(p)
  BY DEF Sound
<1>4. Targets = {} /\ Targets' = {} /\ Others' = Others /\ Evens' = Evens /\ Others \subseteq Thr
  BY <1>1, <1>2 DEF Targets, Others, Evens, WaitSteps, At, Types
<1>5. \A p \in Thr : (InSleep(p)' <=> InSleep(p)) /\ (Suspended(p)' <=> Suspended(p)) /\ ~Acked(p)
  BY <1>1, <1>2, <1>3, <1>4 DEF InSleep, Suspended, Handlers, At
<1>6. \A p \in Thr : my_stop_count[p] # GC_stop_count' /\ last_stop_count[p] # GC_stop_count' /\ ~Acked(p)'
  BY <1>1, <1>3 DEF Counts, Acked, Types
<1>7. Even(GC_stop_count')
  <2>1. ~Even(GC_stop_count)
    BY <1>2 DEF Sound, Phases, EvenSteps
  <2> QED BY <1>1, <2>1, Parity DEF Types
<1>8. GC_retry_signals => Late' = {}
  <2>1. SUFFICES ASSUME GC_retry_signals, NEW p \in Late' PROVE FALSE
    OBVIOUS
  <2>2. Late = {}
    BY <1>2, <2>1 DEF Sound, StartCount, LeaveSteps, StartSteps
  <2>3. p \in Late
    BY <1>1, <1>4, <1>5, <2>1 DEF Late, Acked
  <2> QED BY <2>2, <2>3
<1>9. Phases'
  BY <1>1, <1>2, <1>4, <1>7 DEF Sound, Phases, EvenSteps, DirtySteps, RetrySteps, TargetSteps
<1>10. StopCount'
  BY <1>2 DEF StopCount, WaitSteps, At
<1>11. StartCount'
  BY <1>1, <1>2, <1>8 DEF Sound, StartCount, StartSteps, LeaveSteps, WaitSteps, At
<1>12. ASSUME NEW p \in Thr PROVE Counts(p)'
  BY <1>1, <1>3, <1>6 DEF Counts, Types
<1>13. ASSUME NEW p \in Thr PROVE Handlers(p)'
  <2>1. hpc[p] # "none" => dirtyLock' # p
    BY <1>1, <1>3 DEF Handlers, Others
  <2> QED BY <1>1, <1>2, <1>3, <1>4, <1>5, <1>6, <2>1 DEF Handlers, At
<1> QED BY <1>9, <1>10, <1>11, <1>12, <1>13 DEF Sound

\* The one thread signalled is not in its handler yet.
LEMMA SoundSuspendSend ==
  ASSUME StopWorldAssumption, FiniteSetFacts, Types, Types', Sound, SuspendSend
  PROVE  Sound'
<1> DEFINE u == op.target
<1>1. /\ UNCHANGED <<GC_retry_signals, countVars, threadVars, sigHandlerVars, allocLock, dirtyLock>>
      /\ ext_suspend_cnt' = [ext_suspend_cnt EXCEPT ![u] = @ + 1]
      /\ suspendSig' = suspendSig \cup {u}
  BY DEF SuspendSend
<1>2. op.step = "susp_send" /\ op'.step = "susp_wait" /\ op'.target = u
  BY DEF SuspendSend, Goto, At, Types
<1>3. \A p \in Thr : Counts(p) /\ Handlers(p)
  BY DEF Sound
<1>4. u \in Thr /\ u \in Others /\ Even(ext_suspend_cnt[u])
  BY <1>2 DEF Sound, Phases, TargetSteps, Evens, Types
<1> HIDE DEF u
<1>5. Targets = {} /\ Targets' = {u} /\ Others' = Others /\ Others \subseteq Thr
  BY <1>1, <1>2 DEF Targets, Others, WaitSteps, At, Types
<1>6. \A p \in Thr : /\ InSleep(p)' <=> InSleep(p)
                     /\ ~Acked(p) /\ ~Acked(p)' /\ hpc[p] # "post" /\ p \notin suspendSig
                     /\ my_stop_count[p] # GC_stop_count /\ last_stop_count[p] # GC_stop_count
  BY <1>1, <1>2, <1>3, <1>5 DEF InSleep, Acked, Handlers, Counts, FreshSteps
<1>7. ext_suspend_cnt'[u] = ext_suspend_cnt[u] + 1 /\ Odd(ext_suspend_cnt'[u]) /\ ~Odd(ext_suspend_cnt[u])
  BY <1>1, <1>4, Parity DEF Types
<1>8. \A p \in Thr \ {u} : ext_suspend_cnt'[p] = ext_suspend_cnt[p] /\ (Suspended(p)' <=> Suspended(p))
  BY <1>1, <1>6 DEF Suspended, Types
<1>9. NotPosted' = {u} /\ ackSem = 0
  <2>1. NotPosted' = {u}
    BY <1>4, <1>5, <1>6 DEF NotPosted
  <2> QED BY <1>2, <2>1 DEF Sound, StartCount, WaitSteps, StartSteps, LeaveSteps
<1>10. GC_retry_signals => Late' = {}
  <2>1. SUFFICES ASSUME GC_retry_signals, NEW p \in Late' PROVE FALSE
    OBVIOUS
  <2>2. Late = {}
    BY <1>2, <2>1 DEF Sound, StartCount, LeaveSteps, StartSteps
  <2>3. ~Suspended(u)
    BY <1>7 DEF Suspended
  <2>4. p \in Late
    BY <1>1, <1>5, <1>6, <1>8, <2>1, <2>3 DEF Late
  <2> QED BY <2>2, <2>4
<1>11. Phases'
  BY <1>1, <1>2, <1>4, <1>5 DEF Sound, Phases, EvenSteps, DirtySteps, RetrySteps, TargetSteps
<1>12. StopCount'
  <2>1. Cardinality(NotPosted') = 1
    BY <1>9, ZenonT(30) DEF FiniteSetFacts
  <2> QED BY <1>1, <1>2, <1>9, <2>1 DEF StopCount, WaitSteps, At
<1>13. StartCount'
  BY <1>1, <1>2, <1>10 DEF StartCount, StartSteps, LeaveSteps, WaitSteps, At
<1>14. ASSUME NEW p \in Thr PROVE Counts(p)'
  BY <1>1, <1>2, <1>3, <1>6 DEF Counts, FreshSteps
<1>15. ASSUME NEW p \in Thr PROVE Handlers(p)'
  <2>1. p \in suspendSig' => p \in Targets' /\ last_stop_count[p] < GC_stop_count
    BY <1>1, <1>3, <1>5, <1>6 DEF Counts, Types
  <2>2. CASE p = u
    BY <1>1, <1>2, <1>3, <1>4, <1>5, <1>6, <1>7, <2>1, <2>2 DEF Handlers, At
  <2>3. CASE p # u
    BY <1>1, <1>2, <1>3, <1>5, <1>6, <1>8, <2>1, <2>3 DEF Handlers, At
  <2> QED BY <2>2, <2>3
<1> QED BY <1>11, <1>12, <1>13, <1>14, <1>15 DEF Sound

\* The acknowledgement is that thread's: it is in its handler, which keeps it there
\* while ext_suspend_cnt is what it was on entry.
LEMMA SoundSuspendDone ==
  ASSUME StopWorldAssumption, FiniteSetFacts, Types, Types', Sound, SuspendDone
  PROVE  Sound'
<1> DEFINE u == op.target
<1>1. /\ UNCHANGED <<GC_retry_signals, threadVars, sigHandlerVars, suspendSig, ext_suspend_cnt>>
      /\ ackSem > 0 /\ ackSem' = ackSem - 1 /\ dirtyLock' = NoThread /\ allocLock' = NoThread
      /\ GC_stop_count' = GC_stop_count + 1
  BY DEF SuspendDone
<1>2. op.step = "susp_wait" /\ op'.step = "idle"
  BY DEF SuspendDone, ThreadIdle, At
<1>3. \A p \in Thr : Counts(p) /\ Handlers(p)
  BY DEF Sound
<1>4. u \in Thr /\ u \in Others /\ Targets = {u} /\ Targets' = {}
  BY <1>2 DEF Sound, Phases, TargetSteps, Targets, WaitSteps, At, Types
<1>5. ackSem = 1 /\ NotPosted = {}
  <2>1. IsFiniteSet(NotPosted) /\ Cardinality(NotPosted) \in Nat
    BY <1>4, Finite DEF NotPosted
  <2>2. 1 = ackSem + Cardinality(NotPosted)
    BY <1>2 DEF Sound, StopCount, At
  <2>3. ackSem = 1 /\ Cardinality(NotPosted) = 0
    BY <1>1, <2>1, <2>2 DEF Types
  <2> HIDE DEF NotPosted
  <2> QED BY <2>1, <2>3 DEF FiniteSetFacts
<1>6. Acked(u) /\ Suspended(u)
  <2>1. Acked(u)
    BY <1>4, <1>5 DEF NotPosted
  <2>2. Odd(ext_suspend_cnt[u]) /\ suspend_cnt[u] = ext_suspend_cnt[u]
    BY <1>2, <1>3, <1>4, <2>1 DEF Handlers, At
  <2> QED BY <2>1, <2>2 DEF Acked, Suspended
<1> HIDE DEF u
<1>7. \A p \in Thr : hpc[p] # "post" /\ p \notin suspendSig
  BY <1>3, <1>4, <1>6 DEF Handlers, Acked, InSleep
<1>8. Others \subseteq Others' /\ Others' \subseteq Others \cup {allocLock} /\ Others' \subseteq Thr
  BY <1>1 DEF Others, Types, StopWorldAssumption
<1>9. \A p \in Thr : (InSleep(p)' <=> InSleep(p)) /\ (Suspended(p)' <=> Suspended(p))
  BY <1>1 DEF InSleep, Suspended
<1>10. \A p \in Thr : my_stop_count[p] # GC_stop_count' /\ last_stop_count[p] # GC_stop_count' /\ ~Acked(p)'
  BY <1>1, <1>3 DEF Counts, Acked, Types
<1>11. ~Even(GC_stop_count')
  <2>1. Even(GC_stop_count)
    BY <1>2 DEF Sound, Phases, EvenSteps
  <2> QED BY <1>1, <2>1, Parity DEF Types
<1>12. GC_retry_signals => Late' = {}
  <2>1. SUFFICES ASSUME GC_retry_signals, NEW p \in Late' PROVE FALSE
    OBVIOUS
  <2>2. Late = {}
    BY <1>2, <2>1 DEF Sound, StartCount, LeaveSteps, StartSteps
  <2>3. p \in Thr /\ p \in Others'
    BY <1>8, <2>1 DEF Late
  <2>4. p # allocLock
    BY <1>1, <1>3, <1>9, <2>1, <2>3 DEF Late, Handlers, Others, InSleep
  <2>5. p \in Late \/ Acked(p)
    BY <1>1, <1>8, <1>9, <2>1, <2>3, <2>4 DEF Late, Acked
  <2>6. Acked(p) => p = u
    BY <1>2, <1>3, <1>4, <2>3 DEF Handlers, At
  <2>7. p # u
    BY <1>1, <1>6, <1>9, <2>1, <2>3 DEF Late, Acked, InSleep
  <2> QED BY <2>2, <2>5, <2>6, <2>7
<1>13. Phases'
  BY <1>2, <1>11 DEF Phases, EvenSteps, DirtySteps, RetrySteps, TargetSteps
<1>14. StopCount'
  BY <1>2 DEF StopCount, WaitSteps, At
<1>15. StartCount'
  BY <1>1, <1>2, <1>5, <1>12 DEF StartCount, StartSteps, LeaveSteps, WaitSteps, At
<1>16. ASSUME NEW p \in Thr PROVE Counts(p)'
  BY <1>1, <1>2, <1>3, <1>10 DEF Counts, FreshSteps, Types
<1>17. ASSUME NEW p \in Thr PROVE Handlers(p)'
  <2>1. p \in registered /\ Odd(ext_suspend_cnt[p]) => p \in doBlocking \/ Suspended(p)
    BY <1>2, <1>3, <1>6 DEF Handlers, At, u
  <2>2. hpc[p] # "none" => p \in Others'
    BY <1>3, <1>8 DEF Handlers
  <2> QED BY <1>1, <1>2, <1>4, <1>7, <1>9, <1>10, <2>1, <2>2, ZenonT(30) DEF Handlers, At, StopWorldAssumption
<1> QED BY <1>13, <1>14, <1>15, <1>16, <1>17 DEF Sound

-----------------------------------------------------------------------------
(* The theorems. *)

\* Once a thread was outrun by a resent signal, it stays recorded.
LEMMA OutrunStays ==
  ASSUME StopWorldNext, ~outrun'
  PROVE  ~outrun
<1> USE DEF Send
<1>1. CASE Holder
  BY <1>1, ZenonT(30) DEF Holder, StopAcquireDirty, StopSend, TakeAck, AckTimeout, Resend, ResendDone, StopDone,
              GC_start_world, StartSend, StartDone, SuspendCount, SuspendSend, SuspendDone, ResumeSend,
              ResumeDone
<1>2. ASSUME NEW t \in Thr, Handler(t) \/ Client(t) PROVE ~outrun
  BY <1>2, ZenonT(30) DEF Handler, HandlerEntry, HandlerPost, HandlerPublish, HandlerWake, HandlerLoop,
              Client, UserSignal, RestartHandler, DirtyLock, DirtyUnlock, BlockingEnter, BlockingLeave,
              Register, Unregister, GC_stop_world, SuspendBlocked, GC_suspend_thread, GC_resume_thread
<1> QED BY <1>1, <1>2 DEF StopWorldNext

\* Every step keeps the invariant, one case for each action.
LEMMA SoundStep ==
  ASSUME StopWorldAssumption, FiniteSetFacts, Types, Types', Sound, StopWorldNext, ~outrun'
  PROVE  Sound'
<1>1. CASE Holder
  <2>1. CASE ResumeSend
    BY <2>1, SoundRelease, SoundResumeSend
  <2> QED
    BY <1>1, <2>1, SoundAcquire, SoundStopSend, SoundWait, SoundResend, SoundStopDone, SoundStartWorld,
       SoundStartSend, SoundRelease, SoundSuspendCount, SoundSuspendSend, SoundSuspendDone
       DEF Holder
<1>2. ASSUME NEW t \in Thr, Handler(t) PROVE Sound'
  BY <1>2, SoundEntry, SoundPost, SoundPublish, SoundLoop DEF Handler
<1>3. ASSUME NEW t \in Thr, Client(t) PROVE Sound'
  <2>1. ASSUME NEW u \in Thr, GC_resume_thread(t, u) PROVE Sound'
    BY <2>1, SoundIdle, SoundResume
  <2> QED BY <1>3, <2>1, SoundLoop, SoundDirty, SoundIdle, SoundTake DEF Client
<1> QED BY <1>1, <1>2, <1>3 DEF StopWorldNext

\* The initial state, set by GC_stop_init with every thread registered.
LEMMA InitInv ==
  ASSUME StopWorldAssumption, StopWorldInit
  PROVE  StopInv
<1> USE DEF StopWorldInit, ThreadIdle
<1>1. Types
  BY DEF Types, At, Steps, TargetSteps
<1>2. ~Even(1) /\ ~Odd(0) /\ Even(0)
  BY DEF Even, Odd
<1>3. Targets = {} /\ NotPosted = {} /\ Late = {}
  BY DEF Targets, WaitSteps, At, NotPosted, Late, InSleep, Others
<1>4. Phases /\ StopCount /\ StartCount
  BY <1>2, <1>3 DEF Phases, StopCount, StartCount, EvenSteps, DirtySteps, RetrySteps, TargetSteps, WaitSteps,
                    StartSteps, LeaveSteps, At
<1>5. ASSUME NEW t \in Thr PROVE Counts(t) /\ Handlers(t)
  BY <1>2, <1>3 DEF Counts, Handlers, FreshSteps, Acked, InSleep, At, StopWorldAssumption
<1> QED BY <1>1, <1>4, <1>5 DEF StopInv, Sound

\* A step that changes nothing keeps the invariant.
LEMMA StutterInv ==
  ASSUME StopInv, UNCHANGED stopWorldVars
  PROVE  StopInv'
<1>1. Others' = Others /\ Evens' = Evens /\ Targets' = Targets
  BY DEF stopWorldVars, Others, Evens, Targets, At
<1>2. \A p : (Acked(p)' <=> Acked(p)) /\ (InSleep(p)' <=> InSleep(p)) /\ (Suspended(p)' <=> Suspended(p))
  BY DEF stopWorldVars, Acked, InSleep, Suspended
<1>3. Late' = Late /\ NotPosted' = NotPosted
  BY <1>1, <1>2 DEF stopWorldVars, Late, NotPosted
<1>4. Types'
  BY DEF StopInv, stopWorldVars, Types, At
<1>5. Phases => Phases'
  BY <1>1 DEF stopWorldVars, Phases
<1>6. StopCount => StopCount'
  BY <1>1, <1>2, <1>3 DEF stopWorldVars, StopCount, At
<1>7. StartCount => StartCount'
  BY <1>1, <1>3 DEF stopWorldVars, StartCount, At
<1>8. \A t \in Thr : Counts(t) => Counts(t)'
  BY <1>2 DEF stopWorldVars, Counts
<1>9. \A t \in Thr : Handlers(t) => Handlers(t)'
  BY <1>1, <1>2 DEF stopWorldVars, Handlers, At
<1>10. outrun' = outrun
  BY DEF stopWorldVars
<1> QED BY <1>4, <1>5, <1>6, <1>7, <1>8, <1>9, <1>10 DEF StopInv, Sound

\* The invariant holds for any number of threads, stops and lost signals.
THEOREM StopInvariant == StopWorldAssumption /\ StopWorldSpec => []StopInv
<1> SUFFICES ASSUME StopWorldAssumption PROVE StopWorldSpec => []StopInv
  OBVIOUS
<1>1. StopWorldInit => StopInv
  BY InitInv
<1>2. StopInv /\ [StopWorldNext]_stopWorldVars => StopInv'
  <2>1. ASSUME StopInv, StopWorldNext PROVE StopInv'
    <3>1. Types'
      BY <2>1, FiniteSetFactsHold, TypeHolder, TypeHandler, TypeClient DEF StopInv, StopWorldNext
    <3>2. ASSUME ~outrun' PROVE Sound'
      BY <2>1, <3>1, <3>2, FiniteSetFactsHold, OutrunStays, SoundStep DEF StopInv
    <3> QED BY <3>1, <3>2 DEF StopInv
  <2> QED BY <2>1, StutterInv
<1> QED BY <1>1, <1>2, PTL DEF StopWorldSpec

\* GC_stop_world returns with every other thread in its handler or blocking: the
\* stacks the marker scans do not move (GC_suspend_all, suspend_restart_barrier).
THEOREM TheWorldStops == StopWorldAssumption /\ StopWorldSpec => []WorldIsStopped
<1> SUFFICES ASSUME StopWorldAssumption PROVE StopWorldSpec => []WorldIsStopped
  OBVIOUS
<1>1. StopInv => WorldIsStopped
  <2>1. SUFFICES ASSUME StopInv, At("stopped"), ~outrun, NEW t \in registered \ {allocLock}, t \notin doBlocking
                 PROVE  InHandler(t) /\ (my_stop_count[t] = GC_stop_count \/ Odd(suspend_cnt[t]))
    BY DEF WorldIsStopped
  <2>2. t \in Thr /\ t \in Others
    BY <2>1 DEF StopInv, Types, Others
  <2>3. CASE Even(ext_suspend_cnt[t])
    BY <2>1, <2>2, <2>3 DEF StopInv, Sound, StopCount, Evens, Acked, InSleep, InHandler
  <2>4. CASE Odd(ext_suspend_cnt[t])
    BY <2>1, <2>2, <2>4 DEF StopInv, Sound, Handlers, Suspended, InSleep, InHandler, At
  <2>5. ext_suspend_cnt[t] \in Nat
    BY <2>1, <2>2 DEF StopInv, Types
  <2> QED BY <2>3, <2>4, <2>5, Parity
<1> QED BY <1>1, StopInvariant, PTL

\* A thread suspended by GC_suspend_thread stays in its handler, or in its blocking
\* call, until GC_resume_thread is called for it.
THEOREM SuspensionLasts == StopWorldAssumption /\ StopWorldSpec => []SuspendedStaysSuspended
<1> SUFFICES ASSUME StopWorldAssumption PROVE StopWorldSpec => []SuspendedStaysSuspended
  OBVIOUS
<1>1. StopInv => SuspendedStaysSuspended
  BY DEF StopInv, Types, Sound, Handlers, Suspended, InSleep, InHandler, SuspendedStaysSuspended, At
<1> QED BY <1>1, StopInvariant, PTL

\* The assertion of suspend_restart_barrier: the semaphore is drained.
THEOREM SemaphoreDrained == StopWorldAssumption /\ StopWorldSpec => []AcknowledgementsMatch
<1> SUFFICES ASSUME StopWorldAssumption PROVE StopWorldSpec => []AcknowledgementsMatch
  OBVIOUS
<1>1. StopInv => AcknowledgementsMatch
  BY DEF StopInv, Types, Sound, StartCount, WaitSteps, StartSteps, LeaveSteps, AcknowledgementsMatch, At
<1> QED BY <1>1, StopInvariant, PTL

\* A thread that is suspended does not hold the lock of GC_dirty, which
\* GC_stop_world takes before it signals.
THEOREM DirtyLockFree == StopWorldAssumption /\ StopWorldSpec => []NotSuspendedInGCDirty
<1> SUFFICES ASSUME StopWorldAssumption PROVE StopWorldSpec => []NotSuspendedInGCDirty
  OBVIOUS
<1>1. StopInv => NotSuspendedInGCDirty
  BY DEF StopInv, Sound, Handlers, NotSuspendedInGCDirty, InHandler
<1> QED BY <1>1, StopInvariant, PTL
=============================================================================
