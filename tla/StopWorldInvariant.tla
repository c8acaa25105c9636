------------------------- MODULE StopWorldInvariant -------------------------
(***************************************************************************)
(* The inductive invariant of stopping the world by signals                *)
(* (StopWorld.tla), for any number of threads, signals lost and            *)
(* collections; kept here by the suspend handlers and GC_dirty, in         *)
(* StopWorldSteps.tla and StopWorldProofs.tla by the other calls of the    *)
(* client and by the holder of the lock.                                   *)
(*                                                                         *)
(* The argument counts.  While the world is being stopped, the             *)
(* acknowledgements still needed are those in the semaphore and one for    *)
(* each thread that has not posted for this GC_stop_count; while it is     *)
(* being restarted with GC_retry_signals, those in the semaphore and one   *)
(* for each thread that has not left.  A resend asks at least all of these *)
(* again, so it never lowers the number needed.                            *)
(***************************************************************************)
EXTENDS StopWorld, TLAPS

-----------------------------------------------------------------------------
(* The inductive invariant. *)

TargetSteps == {"susp_count", "susp_send", "susp_wait", "resume_send", "resume_wait"}
Types ==
    /\ GC_stop_count \in Nat \ {0} /\ ackSem \in Nat
    /\ allocLock \in Thr \cup {NoThread} /\ dirtyLock \in Thr \cup {NoThread}
    /\ op \in [step : Steps, need : Nat, target : Thr \cup {NoThread}]
    /\ (allocLock = NoThread) <=> At("idle")
    /\ op.step \in TargetSteps => op.target \in Thr
    /\ registered \subseteq Thr /\ doBlocking \subseteq registered
    /\ suspendSig \subseteq Thr /\ restartSig \subseteq Thr
    /\ hpc \in [Thr -> {"none", "enter", "post", "publish", "sleep", "woken", "repost", "republish"}]
    /\ my_stop_count \in [Thr -> Nat] /\ suspend_cnt \in [Thr -> Nat]
    /\ last_stop_count \in [Thr -> Nat] /\ ext_suspend_cnt \in [Thr -> Nat]

\* The threads that the holder of the lock may signal, those among them that are
\* not suspended by the client, and those it is stopping.
Others == registered \ ({allocLock} \cup doBlocking)
Evens == {p \in Others : Even(ext_suspend_cnt[p])}
WaitSteps == {"stop_timed", "stop_resend", "stop_wait"}
Targets == IF op.step \in WaitSteps THEN Evens
           ELSE IF At("susp_wait") THEN {op.target} ELSE {}

\* Asleep in the handler or about to be; with the acknowledgement of this stop
\* posted; suspended by the client; on the way out of the handler.
InSleep(p) == hpc[p] \in {"publish", "sleep", "woken"}
Acked(p) == InSleep(p) /\ my_stop_count[p] = GC_stop_count
Suspended(p) == InSleep(p) /\ Odd(suspend_cnt[p]) /\ suspend_cnt[p] = ext_suspend_cnt[p]
Late == {p \in Others : \/ hpc[p] = "repost"
                        \/ InSleep(p) /\ my_stop_count[p] # GC_stop_count /\ ~Suspended(p)}
NotPosted == {p \in Targets : ~Acked(p)}

\* GC_stop_count is even from the start of a stop to the start of the restart, and
\* the lock of GC_dirty is held from before the signals to after the last answer.
EvenSteps == {"stop_dirty", "stop_send", "stop_timed", "stop_resend", "stop_wait", "stopped",
              "susp_send", "susp_wait"}
DirtySteps == {"stop_send", "stop_timed", "stop_resend", "stop_wait", "susp_send", "susp_wait"}
RetrySteps == {"stop_timed", "stop_resend", "start_resend", "start_wait", "resume_wait"}
FreshSteps == {"stop_dirty", "stop_send", "susp_send"}

Phases ==
    /\ Even(GC_stop_count) <=> op.step \in EvenSteps
    /\ op.step \in DirtySteps => dirtyLock = allocLock
    /\ op.step \in RetrySteps => GC_retry_signals
    /\ op.step \in TargetSteps => op.target \in Others
    /\ op.step \in {"susp_count", "susp_send", "resume_send", "resume_wait"} => op.target \in Evens

\* The counts a thread has seen.
Counts(t) ==
    /\ my_stop_count[t] <= GC_stop_count /\ Even(my_stop_count[t])
    /\ last_stop_count[t] <= GC_stop_count
    /\ op.step \in FreshSteps => my_stop_count[t] # GC_stop_count /\ last_stop_count[t] # GC_stop_count
    /\ hpc[t] \in {"post", "publish"} => last_stop_count[t] < my_stop_count[t]
    /\ hpc[t] \in {"sleep", "woken", "repost", "republish"} => last_stop_count[t] = my_stop_count[t]
    /\ hpc[t] \in {"repost", "republish"} => GC_retry_signals /\ my_stop_count[t] # GC_stop_count
    /\ last_stop_count[t] = GC_stop_count /\ Even(GC_stop_count) => Acked(t)

\* Who is in the handler, or on the way to it.
Handlers(t) ==
    /\ t \notin Others => hpc[t] = "none"
    /\ hpc[t] # "none" => dirtyLock # t
    /\ t \in suspendSig => /\ t \in Targets /\ last_stop_count[t] < GC_stop_count
                           /\ hpc[t] # "post" /\ ~Acked(t)
    /\ hpc[t] = "post" => t \in Targets /\ my_stop_count[t] = GC_stop_count
    /\ Acked(t) => t \in Targets \/ At("stopped")
    /\ At("susp_wait") /\ t = op.target /\ (hpc[t] = "post" \/ Acked(t))
          => suspend_cnt[t] = ext_suspend_cnt[t]
    /\ t \in registered /\ Odd(ext_suspend_cnt[t])
          => t \in doBlocking \/ Suspended(t) \/ (At("susp_wait") /\ t = op.target)
    /\ At("susp_wait") /\ t = op.target => Odd(ext_suspend_cnt[t])

\* The acknowledgements.
StartSteps == {"start_timed", "start_resend", "start_wait"}
StopCount ==
    /\ op.step \in WaitSteps => op.need = ackSem + Cardinality(NotPosted)
    /\ At("susp_wait") => 1 = ackSem + Cardinality(NotPosted)
    /\ At("stopped") => \A p \in Evens : Acked(p)
LeaveSteps == StartSteps \cup {"start_send", "resume_send", "resume_wait"}
StartCount ==
    /\ GC_retry_signals =>
          /\ op.step \notin LeaveSteps => Late = {}
          /\ At("start_send") => Cardinality(Evens) = ackSem + Cardinality(Late)
          /\ op.step \in StartSteps => op.need = ackSem + Cardinality(Late)
          /\ op.step \in {"resume_send", "resume_wait"}
                => Late \subseteq {op.target} /\ 1 = ackSem + Cardinality(Late)
    /\ ~GC_retry_signals /\ op.step \in StartSteps => op.need = 0
    /\ (GC_retry_signals => op.step \notin LeaveSteps) /\ op.step \notin WaitSteps \cup {"susp_wait"}
          => ackSem = 0

Sound ==
    /\ Phases /\ StopCount /\ StartCount
    /\ \A t \in Thr : Counts(t) /\ Handlers(t)
StopInv == Types /\ (~outrun => Sound)

\* What the proof uses of finite sets; FiniteSetTheorems has it, and StopWorldProofs
\* cites it there.
FiniteSetFacts ==
    /\ \A S : IsFiniteSet(S) => Cardinality(S) \in Nat /\ (Cardinality(S) = 0 <=> S = {})
    /\ \A S, T : IsFiniteSet(S) /\ T \subseteq S => IsFiniteSet(T) /\ Cardinality(T) <= Cardinality(S)
    /\ \A S, x : IsFiniteSet(S) /\ x \in S => Cardinality(S \ {x}) = Cardinality(S) - 1
    /\ \A x : Cardinality({x}) = 1

(* The default provers in their order, then SMT once more with more time. *)
USE SMT, Zenon, SMTT(30)
USE DEF countVars, threadVars, sigHandlerVars, sigVars, lockVars

-----------------------------------------------------------------------------
(* Types. *)

\* Parity, the only arithmetic done on the counters.
LEMMA Parity ==
  ASSUME NEW n \in Nat
  PROVE  /\ Odd(n) <=> ~Even(n)
         /\ Odd(n + 1) <=> Even(n)
         /\ Even(n + 1) <=> Odd(n)
BY DEF Odd, Even

\* The sets whose sizes the holder of the lock counts are finite.
LEMMA Finite ==
  ASSUME StopWorldAssumption, FiniteSetFacts, Types
  PROVE  /\ \A S : S \subseteq Others => IsFiniteSet(S) /\ Cardinality(S) \in Nat
         /\ IsFiniteSet(SuspendTargets) /\ Cardinality(SuspendTargets) \in Nat
         /\ \A b : IsFiniteSet(RestartTargets(b)) /\ Cardinality(RestartTargets(b)) \in Nat
<1>1. \A S : S \subseteq Thr => IsFiniteSet(S) /\ Cardinality(S) \in Nat
  BY DEF StopWorldAssumption, FiniteSetFacts
<1>2. Others \subseteq Thr /\ SuspendTargets \subseteq Thr
  BY DEF Types, Others, SuspendTargets
<1>3. \A b : RestartTargets(b) \subseteq Thr
  BY DEF Types, RestartTargets
<1> QED BY <1>1, <1>2, <1>3

\* The steps of the handlers keep the types: GC_suspend_handler_inner only moves on.
LEMMA TypeHandler ==
  ASSUME Types, NEW t \in Thr, Handler(t) \/ UserSignal(t) \/ RestartHandler(t)
  PROVE  Types'
<1> USE DEF Types, At, TargetSteps
<1>1. CASE HandlerEntry(t)
  BY <1>1 DEF HandlerEntry
<1>2. CASE HandlerPost(t)
  BY <1>2 DEF HandlerPost
<1>3. CASE HandlerPublish(t)
  BY <1>3 DEF HandlerPublish, Return
<1>4. CASE HandlerWake(t)
  BY <1>4 DEF HandlerWake
<1>5. CASE HandlerLoop(t)
  BY <1>5 DEF HandlerLoop, Return
<1>6. CASE UserSignal(t)
  BY <1>6 DEF UserSignal
<1>7. CASE RestartHandler(t)
  BY <1>7 DEF RestartHandler
<1> QED BY <1>1, <1>2, <1>3, <1>4, <1>5, <1>6, <1>7 DEF Handler

\* The calls of the client keep the types.
LEMMA TypeClient ==
  ASSUME StopWorldAssumption, FiniteSetFacts, Types, NEW t \in Thr, Client(t)
  PROVE  Types'
<1> USE DEF Types, At, TargetSteps
<1>1. CASE UserSignal(t) \/ RestartHandler(t)
  BY <1>1, TypeHandler
<1>2. CASE DirtyLock(t) \/ DirtyUnlock(t)
  BY <1>2 DEF DirtyLock, DirtyUnlock
<1>3. CASE BlockingEnter(t) \/ BlockingLeave(t)
  BY <1>3 DEF BlockingEnter, BlockingLeave, InClient
<1>4. CASE Register(t)
  BY <1>4 DEF Register
<1>5. CASE Unregister(t)
  BY <1>5 DEF Unregister, InClient
<1>6. CASE GC_stop_world(t)
  BY <1>6 DEF GC_stop_world, ThreadIdle, Steps, StopWorldAssumption
<1>7. ASSUME NEW u \in Thr, SuspendBlocked(t, u) PROVE Types'
  BY <1>7 DEF SuspendBlocked
<1>8. ASSUME NEW u \in Thr, GC_suspend_thread(t, u) PROVE Types'
  BY <1>8, ZenonT(30) DEF GC_suspend_thread, ThreadIdle, Steps, StopWorldAssumption
<1>9. ASSUME NEW u \in Thr, GC_resume_thread(t, u) PROVE Types'
  <2>1. CASE u \in doBlocking
    BY <1>9, <2>1 DEF GC_resume_thread
  <2>2. CASE u \notin doBlocking
    <3>1. allocLock' = t /\ op' = [step |-> "resume_send", need |-> 0, target |-> u]
      <4>1. allocLock' = t /\ op' = [ThreadIdle EXCEPT !.step = "resume_send", !.target = u]
        BY <1>9, <2>2, Zenon DEF GC_resume_thread
      <4> QED BY <4>1, ZenonT(30) DEF ThreadIdle
    <3>2. ext_suspend_cnt' \in [Thr -> Nat]
      BY <1>9 DEF GC_resume_thread
    <3> QED BY <1>9, <3>1, <3>2 DEF GC_resume_thread, Steps, StopWorldAssumption
  <2> QED BY <2>1, <2>2
<1> QED BY <1>1, <1>2, <1>3, <1>4, <1>5, <1>6, <1>7, <1>8, <1>9 DEF Client

\* The steps of GC_stop_world, GC_start_world, GC_suspend_thread and
\* GC_resume_thread keep the types.
LEMMA TypeHolder ==
  ASSUME StopWorldAssumption, FiniteSetFacts, Types, Holder
  PROVE  Types'
<1> USE DEF Types, At, Goto, GotoNeed, Steps, TargetSteps
<1>1. CASE StopAcquireDirty
  BY <1>1 DEF StopAcquireDirty
<1>2. CASE StopSend
  <2>1. suspendSig' \subseteq Thr /\ restartSig' = restartSig
    BY <1>2 DEF StopSend, Send, SuspendTargets
  <2> QED BY <1>2, <2>1, Finite, ZenonT(30) DEF StopSend
<1>3. CASE TakeAck
  BY <1>3 DEF TakeAck
<1>4. CASE AckTimeout
  BY <1>4 DEF AckTimeout
<1>5. CASE Resend
  <2>1. suspendSig' \subseteq Thr /\ restartSig' \subseteq Thr
    BY <1>5 DEF Resend, Send, SuspendTargets, RestartTargets
  <2>2. PICK n \in Nat : op' = [op EXCEPT !.step = op.step, !.need = n]
    <3> DEFINE S == IF At("stop_resend") THEN SuspendTargets ELSE RestartTargets(TRUE)
    <3>1. Cardinality(S) \in Nat
      BY Finite, ZenonT(30)
    <3>2. op' = [op EXCEPT !.step = op.step,
                           !.need = IF Cardinality(S) < op.need - ackSem
                                    THEN ackSem + Cardinality(S) ELSE op.need]
      BY <1>5 DEF Resend
    <3> HIDE DEF S
    <3>3. (IF Cardinality(S) < op.need - ackSem THEN ackSem + Cardinality(S) ELSE op.need) \in Nat
      BY <3>1
    <3> QED BY <3>2, <3>3, Zenon
  <2> QED BY <1>5, <2>1, <2>2, ZenonT(30) DEF Resend
<1>6. CASE ResendDone
  BY <1>6 DEF ResendDone
<1>7. CASE StopDone
  BY <1>7 DEF StopDone
<1>8. CASE GC_start_world
  BY <1>8 DEF GC_start_world
<1>9. CASE StartSend
  <2>1. suspendSig' = suspendSig /\ restartSig' \subseteq Thr
    BY <1>9 DEF StartSend, Send, RestartTargets
  <2> QED BY <1>9, <2>1, Finite, ZenonT(30) DEF StartSend
<1>10. CASE StartDone
  BY <1>10 DEF StartDone, ThreadIdle
<1>11. CASE SuspendCount
  BY <1>11 DEF SuspendCount
<1>12. CASE SuspendDone
  BY <1>12 DEF SuspendDone, ThreadIdle
<1>13. CASE ResumeSend
  <2>1. CASE GC_retry_signals
    BY <1>13, <2>1 DEF ResumeSend
  <2>2. CASE ~GC_retry_signals
    BY <1>13, <2>2 DEF ResumeSend, ThreadIdle
  <2> QED BY <2>1, <2>2
<1>14. CASE ResumeDone
  BY <1>14 DEF ResumeDone, ThreadIdle
<1>15. CASE SuspendSend
  BY <1>15 DEF SuspendSend
<1> QED
  BY <1>1, <1>2, <1>3, <1>4, <1>5, <1>6, <1>7, <1>8, <1>9, <1>10, <1>11, <1>12, <1>13, <1>14, <1>15, ZenonT(30)
     DEF Holder

-----------------------------------------------------------------------------
(* The suspend handler. *)

\* The holder stops only threads that it may signal.
LEMMA TargetsAreOthers ==
  ASSUME Types, Phases
  PROVE  Targets \subseteq Others /\ Others \subseteq Thr
BY DEF Types, Phases, Targets, Others, Evens, At, TargetSteps

\* What a step of a handler leaves alone.
HandlerFrame == UNCHANGED <<GC_retry_signals, GC_stop_count, threadVars, lockVars, ext_suspend_cnt>>
SameThread(p) ==
    /\ hpc'[p] = hpc[p] /\ my_stop_count'[p] = my_stop_count[p]
    /\ suspend_cnt'[p] = suspend_cnt[p] /\ last_stop_count'[p] = last_stop_count[p]
    /\ p \in suspendSig' => p \in suspendSig

\* The step of one handler says nothing of the other threads.
LEMMA OtherThread ==
  ASSUME HandlerFrame, NEW p, SameThread(p), Counts(p), Handlers(p)
  PROVE  /\ Counts(p)' /\ Handlers(p)'
         /\ Acked(p)' <=> Acked(p)
         /\ p \in NotPosted' <=> p \in NotPosted
         /\ p \in Late' <=> p \in Late
<1>1. /\ Acked(p)' <=> Acked(p)
      /\ Suspended(p)' <=> Suspended(p)
      /\ InSleep(p)' <=> InSleep(p)
  BY DEF HandlerFrame, SameThread, Acked, Suspended, InSleep
<1>2. Others' = Others /\ Targets' = Targets
  BY DEF HandlerFrame, Others, Targets, Evens, At
<1>3. Counts(p)'
  BY <1>1 DEF HandlerFrame, SameThread, Counts
<1>4. Handlers(p)'
  BY <1>1, <1>2 DEF HandlerFrame, SameThread, Handlers, At
<1>5. p \in NotPosted' <=> p \in NotPosted
  BY <1>1, <1>2 DEF NotPosted
<1>6. p \in Late' <=> p \in Late
  BY <1>1, <1>2 DEF HandlerFrame, SameThread, Late
<1> QED BY <1>1, <1>3, <1>4, <1>5, <1>6

\* A step of a handler that posts nothing and leaves the sets that are counted
\* as they are keeps the counts.
LEMMA SameCounts ==
  ASSUME HandlerFrame, Phases, StopCount, StartCount, ackSem' = ackSem, NotPosted' = NotPosted,
         GC_retry_signals => Late' = Late, \A p \in Evens : Acked(p) => Acked(p)'
  PROVE  Phases' /\ StopCount' /\ StartCount'
<1>1. Others' = Others /\ Evens' = Evens
  BY DEF HandlerFrame, Others, Evens
<1>2. Phases'
  BY <1>1 DEF HandlerFrame, Phases
<1>3. StopCount'
  BY <1>1 DEF HandlerFrame, StopCount, At
<1>4. StartCount'
  BY <1>1 DEF HandlerFrame, StartCount, At
<1> QED BY <1>2, <1>3, <1>4

\* A step of one handler that posts nothing.
LEMMA QuietStep ==
  ASSUME Types, Sound, HandlerFrame, ackSem' = ackSem,
         NEW t \in Thr, \A p \in Thr \ {t} : SameThread(p),
         Counts(t)', Handlers(t)',
         Acked(t)' <=> Acked(t), GC_retry_signals => (t \in Late' <=> t \in Late)
  PROVE  Sound'
<1>1. \A p \in Thr \ {t} : /\ Counts(p)' /\ Handlers(p)' /\ (Acked(p)' <=> Acked(p))
                           /\ p \in NotPosted' <=> p \in NotPosted
                           /\ p \in Late' <=> p \in Late
  BY OtherThread DEF Sound
<1>2. Others' = Others /\ Evens' = Evens /\ Targets' = Targets
  BY DEF HandlerFrame, Others, Targets, Evens, At
<1>3. Targets \subseteq Others /\ Others \subseteq Thr
  BY TargetsAreOthers DEF Sound
<1>4. NotPosted' = NotPosted
  BY <1>1, <1>2, <1>3 DEF NotPosted
<1>5. Late \subseteq Thr /\ Late' \subseteq Thr
  BY <1>2, <1>3 DEF Late
<1>6. GC_retry_signals => Late' = Late
  BY <1>1, <1>5
<1>7. \A p \in Evens : Acked(p) => Acked(p)'
  BY <1>1, <1>3 DEF Evens
<1>8. Phases' /\ StopCount' /\ StartCount'
  BY <1>4, <1>6, <1>7, SameCounts DEF Sound
<1> QED BY <1>1, <1>8 DEF Sound

\* The handler answers the first signal of this stop, and no other.
LEMMA SoundEntry ==
  ASSUME StopWorldAssumption, FiniteSetFacts, Types, Types', Sound, NEW t \in Thr, HandlerEntry(t)
  PROVE  Sound'
<1>1. HandlerFrame
  BY DEF HandlerEntry, HandlerFrame
<1>2. Counts(t) /\ Handlers(t) /\ Phases
  BY DEF Sound
<1>3. t \in Targets /\ last_stop_count[t] < GC_stop_count /\ hpc[t] \in {"none", "enter"} /\ t \in suspendSig
  BY <1>2 DEF HandlerEntry, Handlers
<1>4. Even(GC_stop_count) /\ ~Odd(GC_stop_count)
  BY <1>2, <1>3, Parity DEF Targets, Phases, EvenSteps, WaitSteps, At, Types
<1>5. /\ my_stop_count' = [my_stop_count EXCEPT ![t] = GC_stop_count]
      /\ suspend_cnt' = [suspend_cnt EXCEPT ![t] = ext_suspend_cnt[t]]
      /\ hpc' = [hpc EXCEPT ![t] = "post"]
      /\ suspendSig' = suspendSig \ {t} /\ last_stop_count' = last_stop_count /\ ackSem' = ackSem
  <2>1. GC_stop_count \notin {last_stop_count[t], last_stop_count[t] - 1}
    BY <1>3 DEF Types
  <2> QED BY <1>4, <2>1 DEF HandlerEntry
<1>6. \A p \in Thr \ {t} : SameThread(p)
  BY <1>5 DEF SameThread, Types
<1>7. hpc'[t] = "post" /\ my_stop_count'[t] = GC_stop_count /\ suspend_cnt'[t] = ext_suspend_cnt[t]
  BY <1>5 DEF Types
<1>8. ~Acked(t) /\ ~Acked(t)' /\ ~InSleep(t) /\ ~InSleep(t)'
  BY <1>3, <1>7 DEF Acked, InSleep
<1>9. t \notin Late /\ t \notin Late'
  BY <1>3, <1>7, <1>8 DEF Late
<1>10. Counts(t)'
  BY <1>1, <1>2, <1>3, <1>4, <1>5, <1>7, <1>8 DEF Counts, HandlerFrame, Targets, WaitSteps, FreshSteps, At, Types
<1>11. t \in Others /\ dirtyLock # t
  BY <1>2, <1>3, TargetsAreOthers DEF Others, Targets, Phases, DirtySteps, WaitSteps, At
<1>12. Others' = Others /\ Targets' = Targets
  BY <1>1, ZenonT(30) DEF HandlerFrame, Others, Targets, Evens, At
<1>13. Handlers(t)'
  BY <1>1, <1>2, <1>3, <1>5, <1>7, <1>8, <1>11, <1>12 DEF Handlers, HandlerFrame, Suspended, At
<1> QED BY <1>1, <1>5, <1>6, <1>8, <1>9, <1>10, <1>13, QuietStep

\* last_stop_count is stored while the thread sleeps, and again on the way out.
LEMMA SoundPublish ==
  ASSUME StopWorldAssumption, FiniteSetFacts, Types, Types', Sound, NEW t \in Thr, HandlerPublish(t)
  PROVE  Sound'
<1>1. HandlerFrame /\ ackSem' = ackSem
  BY DEF HandlerPublish, HandlerFrame
<1>2. Counts(t) /\ Handlers(t) /\ Phases
  BY DEF Sound
<1>3. \A p \in Thr \ {t} : SameThread(p)
  BY DEF HandlerPublish, Return, SameThread, Types
<1>4. my_stop_count'[t] = my_stop_count[t] /\ suspend_cnt'[t] = suspend_cnt[t] /\ suspendSig' = suspendSig
  BY DEF HandlerPublish
<1>5. Others' = Others /\ Targets' = Targets
  BY <1>1 DEF HandlerFrame, Others, Targets, Evens, At
<1>6. CASE hpc[t] = "publish"
  <2>1. hpc'[t] = "sleep" /\ last_stop_count'[t] = my_stop_count[t]
    BY <1>6 DEF HandlerPublish, Types
  <2>2. /\ InSleep(t) /\ InSleep(t)' /\ (Acked(t)' <=> Acked(t)) /\ (Suspended(t)' <=> Suspended(t))
    BY <1>1, <1>4, <1>6, <2>1 DEF Acked, InSleep, Suspended, HandlerFrame
  <2>3. t \in Late' <=> t \in Late
    BY <1>1, <1>4, <1>5, <1>6, <2>1, <2>2 DEF Late, HandlerFrame
  <2>4. Counts(t)'
    BY <1>1, <1>2, <1>4, <1>6, <2>1, <2>2 DEF Counts, HandlerFrame, Acked, Types
  <2>5. Handlers(t)'
    BY <1>1, <1>2, <1>4, <1>5, <1>6, <2>1, <2>2 DEF Handlers, Counts, Acked, HandlerFrame, At, Types
  <2> QED BY <1>1, <1>3, <2>2, <2>3, <2>4, <2>5, QuietStep
<1>7. CASE hpc[t] = "republish"
  <2>1. hpc'[t] \in {"none", "enter"} /\ last_stop_count'[t] = my_stop_count[t] + 1
    BY <1>7 DEF HandlerPublish, Return, Types
  <2>2. ~InSleep(t) /\ ~InSleep(t)' /\ ~Acked(t) /\ ~Acked(t)' /\ ~Suspended(t) /\ ~Suspended(t)'
    BY <1>7, <2>1, ZenonT(30) DEF Acked, InSleep, Suspended
  <2>3. t \notin Late' /\ t \notin Late
    BY <1>7, <2>1, <2>2, ZenonT(30) DEF Late
  <2>4. my_stop_count[t] < GC_stop_count /\ Even(my_stop_count[t]) /\ ~Even(my_stop_count[t] + 1)
    <3>1. my_stop_count[t] \in Nat /\ GC_stop_count \in Nat
      BY DEF Types
    <3>2. my_stop_count[t] <= GC_stop_count /\ my_stop_count[t] # GC_stop_count /\ Even(my_stop_count[t])
      BY <1>2, <1>7 DEF Counts
    <3> QED BY <3>1, <3>2, Parity
  <2>5. Even(GC_stop_count) => last_stop_count'[t] < GC_stop_count
    BY <2>1, <2>4 DEF Types
  <2>6. op.step \in FreshSteps \/ Targets # {} => Even(GC_stop_count)
    BY <1>2 DEF Phases, EvenSteps, FreshSteps, Targets, WaitSteps, At
  <2>7. Counts(t)'
    BY <1>1, <1>2, <1>4, <2>1, <2>2, <2>4, <2>5, <2>6 DEF Counts, HandlerFrame, Types
  <2>8. Handlers(t)'
    BY <1>1, <1>2, <1>4, <1>5, <1>7, <2>1, <2>2, <2>5, <2>6, ZenonT(30) DEF Handlers, HandlerFrame, At
  <2> QED BY <1>1, <1>3, <2>2, <2>3, <2>7, <2>8, QuietStep
<1> QED BY <1>6, <1>7 DEF HandlerPublish

\* sigsuspend returns, and the loop of the handler looks at the counts again.
LEMMA SoundLoop ==
  ASSUME StopWorldAssumption, FiniteSetFacts, Types, Types', Sound,
         NEW t \in Thr, HandlerWake(t) \/ UserSignal(t) \/ HandlerLoop(t)
  PROVE  Sound'
<1>1. HandlerFrame /\ ackSem' = ackSem
  BY ZenonT(30) DEF HandlerWake, UserSignal, HandlerLoop, HandlerFrame
<1>2. Counts(t) /\ Handlers(t)
  BY DEF Sound
<1>3. \A p \in Thr \ {t} : SameThread(p)
  BY DEF HandlerWake, UserSignal, HandlerLoop, Return, SameThread, Types
<1>4. /\ my_stop_count'[t] = my_stop_count[t] /\ suspend_cnt'[t] = suspend_cnt[t]
      /\ last_stop_count'[t] = last_stop_count[t] /\ suspendSig' = suspendSig
  BY ZenonT(30) DEF HandlerWake, UserSignal, HandlerLoop
<1>5. Others' = Others /\ Targets' = Targets
  BY <1>1 DEF HandlerFrame, Others, Targets, Evens, At
<1>6. InSleep(t)
  BY ZenonT(30) DEF InSleep, HandlerWake, UserSignal, HandlerLoop
<1>7. CASE hpc[t] \in {"sleep", "woken"} /\ hpc'[t] \in {"sleep", "woken"}
  <2>1. InSleep(t)' /\ (Acked(t)' <=> Acked(t)) /\ (Suspended(t)' <=> Suspended(t))
    BY <1>1, <1>4, <1>6, <1>7, ZenonT(30) DEF Acked, InSleep, Suspended, HandlerFrame
  <2>2. t \in Late' <=> t \in Late
    BY <1>1, <1>4, <1>5, <1>6, <1>7, <2>1, ZenonT(30) DEF Late, HandlerFrame
  <2>3. Counts(t)'
    BY <1>1, <1>2, <1>4, <1>7, <2>1, ZenonT(30) DEF Counts, HandlerFrame
  <2>4. Handlers(t)'
    BY <1>1, <1>2, <1>4, <1>5, <1>7, <2>1, ZenonT(30) DEF Handlers, HandlerFrame, At
  <2> QED BY <1>1, <1>3, <2>1, <2>2, <2>3, <2>4, QuietStep
<1>8. CASE /\ hpc[t] = "woken" /\ my_stop_count[t] # GC_stop_count /\ ~Suspended(t)
           /\ hpc'[t] \in {"repost", "none", "enter"} /\ (hpc'[t] = "repost" <=> GC_retry_signals)
  <2>1. ~InSleep(t)' /\ ~Acked(t) /\ ~Acked(t)' /\ ~Suspended(t)'
    BY <1>8 DEF Acked, InSleep, Suspended
  <2>2. GC_retry_signals => (t \in Late' <=> t \in Late)
    BY <1>5, <1>6, <1>8 DEF Late
  <2>3. Counts(t)'
    BY <1>1, <1>2, <1>4, <1>8, <2>1, ZenonT(30) DEF Counts, HandlerFrame
  <2>4. Handlers(t)'
    BY <1>1, <1>2, <1>4, <1>5, <1>8, <2>1, ZenonT(30) DEF Handlers, HandlerFrame, At
  <2> QED BY <1>1, <1>3, <2>1, <2>2, <2>3, <2>4, QuietStep
<1>9. CASE HandlerWake(t) \/ UserSignal(t)
  BY <1>7, <1>9 DEF HandlerWake, UserSignal, Types
<1>10. CASE HandlerLoop(t)
  <2>1. hpc[t] = "woken"
    BY <1>10, ZenonT(30) DEF HandlerLoop
  <2>2. CASE GC_stop_count = my_stop_count[t] \/ Suspended(t)
    <3>1. hpc'[t] = "sleep"
      BY <1>10, <2>2 DEF HandlerLoop, Suspended, Types
    <3> QED BY <1>7, <2>1, <3>1
  <2>3. CASE GC_stop_count # my_stop_count[t] /\ ~Suspended(t)
    <3>1. ~(Odd(suspend_cnt[t]) /\ ext_suspend_cnt[t] = suspend_cnt[t])
      BY <1>6, <2>3 DEF Suspended
    <3>2. hpc' = [hpc EXCEPT ![t] = "repost"] \/ (~GC_retry_signals /\ Return(t))
      BY <1>10, <2>3, <3>1 DEF HandlerLoop
    <3>3. GC_retry_signals => hpc' = [hpc EXCEPT ![t] = "repost"]
      BY <1>10, <2>3, <3>1 DEF HandlerLoop
    <3>4. ~GC_retry_signals => Return(t)
      BY <1>10, <2>3, <3>1 DEF HandlerLoop
    <3>5. hpc'[t] \in {"repost", "none", "enter"} /\ (hpc'[t] = "repost" <=> GC_retry_signals)
      BY <3>3, <3>4 DEF Return, Types
    <3> QED BY <1>8, <2>1, <2>3, <3>5
  <2> QED BY <2>2, <2>3
<1> QED BY <1>9, <1>10

\* Every post is for one thread that has not posted yet, or has not left yet.
LEMMA SoundPost ==
  ASSUME StopWorldAssumption, FiniteSetFacts, Types, Types', Sound, NEW t \in Thr, HandlerPost(t)
  PROVE  Sound'
<1>1. HandlerFrame /\ ackSem' = ackSem + 1
  BY DEF HandlerPost, HandlerFrame
<1>2. Counts(t) /\ Handlers(t) /\ Phases
  BY DEF Sound
<1>3. /\ my_stop_count' = my_stop_count /\ suspend_cnt' = suspend_cnt
      /\ last_stop_count' = last_stop_count /\ suspendSig' = suspendSig
  BY DEF HandlerPost
<1>4. \A p \in Thr \ {t} : SameThread(p)
  BY DEF HandlerPost, SameThread, Types
<1>5. \A p \in Thr \ {t} : /\ Counts(p)' /\ Handlers(p)' /\ (Acked(p)' <=> Acked(p))
                           /\ p \in NotPosted' <=> p \in NotPosted
                           /\ p \in Late' <=> p \in Late
  BY <1>1, <1>4, OtherThread DEF Sound
<1>6. Others' = Others /\ Evens' = Evens /\ Targets' = Targets
  BY <1>1 DEF HandlerFrame, Others, Targets, Evens, At
<1>7. Targets \subseteq Others /\ Others \subseteq Thr
  BY <1>2, TargetsAreOthers
<1>8. NotPosted \subseteq Others /\ Late \subseteq Others /\ NotPosted' \subseteq Others /\ Late' \subseteq Others
  BY <1>6, <1>7 DEF NotPosted, Late
<1>9. Phases'
  BY <1>1, <1>2, <1>6 DEF HandlerFrame, Phases
<1>10. CASE hpc[t] = "post"
  <2>1. hpc'[t] = "publish"
    BY <1>10 DEF HandlerPost, Types
  <2>2. t \in Targets /\ my_stop_count[t] = GC_stop_count /\ Acked(t)' /\ InSleep(t)'
    BY <1>1, <1>2, <1>3, <1>10, <2>1 DEF Handlers, HandlerFrame, Acked, InSleep
  <2>3. ~Acked(t) /\ ~InSleep(t)
    BY <1>10 DEF Acked, InSleep
  <2>4. Counts(t)'
    BY <1>1, <1>2, <1>3, <1>10, <2>1, <2>2 DEF Counts, HandlerFrame
  <2>5. Handlers(t)'
    BY <1>1, <1>2, <1>3, <1>6, <1>10, <2>1, <2>2, <2>3, ZenonT(30) DEF Handlers, HandlerFrame, At, Suspended
  <2>6. t \in NotPosted /\ NotPosted' = NotPosted \ {t}
    BY <1>5, <1>6, <1>7, <1>8, <2>2, <2>3 DEF NotPosted
  <2>7. Cardinality(NotPosted') = Cardinality(NotPosted) - 1 /\ Cardinality(NotPosted) \in Nat
    <3>1. IsFiniteSet(NotPosted) /\ Cardinality(NotPosted) \in Nat
      BY <1>8, Finite
    <3> HIDE DEF NotPosted
    <3> QED BY <2>6, <3>1 DEF FiniteSetFacts
  <2>8. Late' = Late
    <3>1. t \notin Late /\ t \notin Late'
      BY <1>1, <1>3, <1>10, <2>1, <2>2, <2>3 DEF Late, HandlerFrame
    <3>2. Late \subseteq Thr /\ Late' \subseteq Thr
      BY <1>7, <1>8
    <3> QED BY <1>5, <3>1, <3>2
  <2>9. op.step \in WaitSteps \cup {"susp_wait"}
    BY <2>2 DEF Targets, At
  <2>10. StopCount'
    BY <1>1, <2>7, <2>9 DEF Sound, StopCount, HandlerFrame, At, WaitSteps, Types
  <2>11. StartCount'
    BY <1>1, <1>6, <2>8, <2>9 DEF Sound, StartCount, HandlerFrame, At, WaitSteps, LeaveSteps, StartSteps
  <2> QED BY <1>5, <1>9, <2>4, <2>5, <2>10, <2>11 DEF Sound
<1>11. CASE hpc[t] = "repost"
  <2>1. hpc'[t] = "republish"
    BY <1>11 DEF HandlerPost, Types
  <2>2. ~Acked(t) /\ ~InSleep(t) /\ ~Acked(t)' /\ ~InSleep(t)' /\ GC_retry_signals
    BY <1>2, <1>11, <2>1 DEF Acked, InSleep, Counts
  <2>3. Counts(t)'
    BY <1>1, <1>2, <1>3, <1>11, <2>1, <2>2, ZenonT(30) DEF Counts, HandlerFrame
  <2>4. Handlers(t)'
    BY <1>1, <1>2, <1>3, <1>6, <1>11, <2>1, <2>2, ZenonT(30) DEF Handlers, HandlerFrame, At, Suspended
  <2>5. t \in Late /\ Late' = Late \ {t}
    BY <1>2, <1>5, <1>6, <1>7, <1>8, <1>11, <2>1, <2>2, ZenonT(30) DEF Late, Handlers
  <2>6. Cardinality(Late') = Cardinality(Late) - 1 /\ Cardinality(Late) \in Nat
    <3>1. IsFiniteSet(Late) /\ Cardinality(Late) \in Nat
      BY <1>8, Finite
    <3> HIDE DEF Late
    <3> QED BY <2>5, <3>1 DEF FiniteSetFacts
  <2>7. NotPosted' = NotPosted
    BY <1>5, <1>6, <1>7, <1>8, <2>2 DEF NotPosted
  <2>8. op.step \in LeaveSteps
    BY <2>2, <2>5 DEF Sound, StartCount
  <2>9. StopCount'
    BY <1>1, <2>8 DEF Sound, StopCount, HandlerFrame, At, WaitSteps, LeaveSteps, StartSteps
  <2>10. StartCount'
    BY <1>1, <1>6, <2>2, <2>5, <2>6, <2>8 DEF Sound, StartCount, HandlerFrame, At, LeaveSteps, StartSteps, Types
  <2> QED BY <1>5, <1>9, <2>3, <2>4, <2>9, <2>10 DEF Sound
<1> QED BY <1>10, <1>11 DEF HandlerPost

-----------------------------------------------------------------------------
(* The calls of the client. *)

\* A client takes the lock of GC_dirty while it runs, so it is not in its handler
\* and nobody is stopping the world; it runs the restart handler at any time.
LEMMA SoundDirty ==
  ASSUME StopWorldAssumption, FiniteSetFacts, Types, Types', Sound,
         NEW t \in Thr, DirtyLock(t) \/ DirtyUnlock(t) \/ RestartHandler(t)
  PROVE  Sound'
<1>1. /\ UNCHANGED <<GC_retry_signals, countVars, threadVars, sigHandlerVars, suspendSig, allocLock, op,
                     ext_suspend_cnt>>
      /\ dirtyLock' = dirtyLock \/ (dirtyLock = NoThread /\ dirtyLock' = t) \/ (dirtyLock = t /\ dirtyLock' = NoThread)
      /\ dirtyLock' # dirtyLock => hpc[t] = "none" /\ allocLock # t
  BY DEF DirtyLock, DirtyUnlock, RestartHandler, InClient, Executing
<1>2. Others' = Others /\ Evens' = Evens /\ Targets' = Targets
  BY <1>1 DEF Others, Targets, Evens, At
<1>3. \A p : (Acked(p)' <=> Acked(p)) /\ (Suspended(p)' <=> Suspended(p)) /\ (InSleep(p)' <=> InSleep(p))
  BY <1>1 DEF Acked, Suspended, InSleep
<1>4. Late' = Late /\ NotPosted' = NotPosted
  BY <1>1, <1>2, <1>3, ZenonT(30) DEF Late, NotPosted
<1>5. StopCount' /\ StartCount'
  BY <1>1, <1>2, <1>3, <1>4, ZenonT(30) DEF Sound, StopCount, StartCount, At
<1>6. Phases'
  <2>1. op.step \in DirtySteps => dirtyLock = allocLock /\ allocLock # NoThread
    BY DEF Sound, Phases, Types, DirtySteps, At
  <2> QED BY <1>1, <1>2, <2>1, ZenonT(30) DEF Sound, Phases
<1>7. ASSUME NEW p \in Thr PROVE Counts(p)' /\ Handlers(p)'
  <2>1. Counts(p) /\ Handlers(p)
    BY DEF Sound
  <2>2. Counts(p)'
    BY <1>1, <1>3, <2>1, ZenonT(30) DEF Counts
  <2>3. hpc[p] # "none" => dirtyLock' # p
    BY <1>1, <2>1, ZenonT(30) DEF Handlers, StopWorldAssumption
  <2>4. Handlers(p)'
    BY <1>1, <1>2, <1>3, <2>1, <2>3, ZenonT(30) DEF Handlers, At
  <2> QED BY <2>2, <2>4
<1> QED BY <1>5, <1>6, <1>7 DEF Sound
=============================================================================
