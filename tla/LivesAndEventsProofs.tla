------------------------ MODULE LivesAndEventsProofs ------------------------
(***************************************************************************)
(* Two small invariants.  The emulation of the mark lock and of the        *)
(* condition variables on Windows (Win32Events.tla) is sound for any       *)
(* number of builders and helpers and any number of rounds.  The lives of  *)
(* a collector (Lifecycle.tla) stay apart for any number of threads,       *)
(* blocks, heap sections, kinds and lives: what GC_deinit leaves behind    *)
(* does not mislead the next GC_init.                                      *)
(***************************************************************************)
EXTENDS Win32Events, Lifecycle, SequenceTheorems, TLAPS

(* The default provers in their order, then SMT once more with more time. *)
USE SMT, Zenon, SMTT(30)
USE DEF EThr, EventPcs, Resting, Critical, events, lockWord, counts

-----------------------------------------------------------------------------
(* The Windows emulation: the inductive invariant. *)

\* A thread goes from the lock into a critical section, and from the release of
\* the lock out of it; only the marker's last call is made without the lock.
Places ==
    \A t \in EThr :
        /\ pc[t] \in {"lock", "again", "wait"} => then[t] \in Critical \ {"unlock"}
        /\ pc[t] \in {"unlock", "signal"} =>
               then[t] \in {"idle", "building", "waitcv", "mark", "waitmk", "notify",
                            "waith", "helping"}

\* The word is zero exactly when nobody has the lock.
WordExact == GC_mark_mutex_state = 0 <=> \A t \in EThr : pc[t] \notin Critical

\* The thread is in the call that gives up the lock before it waits at a place,
\* or waits there.
Toward(t, place) == pc[t] = place \/ (pc[t] \in {"unlock", "signal"} /\ then[t] = place)

\* While the waiter is at it, no builder is about to count itself: both begin
\* with the allocator lock.
NoneBegins ==
    pc[Waiter] # "idle" =>
        \A b \in Builder : /\ pc[b] # "build"
                           /\ pc[b] \in {"lock", "again", "wait"} => then[b] # "build"

\* Whoever is about to wait, or waits, waits for something that has not happened,
\* or its event is set.
WaitsForSomething ==
    /\ Toward(Waiter, "waitcv") => fl_builder_count # 0 \/ builder_cv
    /\ Toward(Marker_, "waitmk") => ~help_wanted /\ (helper_count # 0 \/ mark_cv)
    /\ \A h \in Helper :
           Toward(h, "waith") /\ (mark_no > my_mark_no[h] \/ (help_wanted /\ mark_no = my_mark_no[h]))
               => GC_marker_cv[h] \/ then[Marker_] = "notify"
    /\ then[Marker_] = "notify" => Toward(Marker_, "notify")

\* The invariant of the lock, that of the waiting, and the whole.
LockInv == Places /\ WordExact /\ MarkLockExcludes /\ LockWakeups
WaitInv == NoneBegins /\ WaitsForSomething
EventInv == Win32EventsTypeOK /\ LockInv /\ WaitInv

-----------------------------------------------------------------------------
(* Every step keeps it. *)

(* Types are kept. *)
LEMMA TypeStep ==
    ASSUME Win32EventsAssumption, EventInv, Win32EventsNext
    PROVE  Win32EventsTypeOK'
<1> USE DEF Call, EventInv, Win32EventsTypeOK, Win32EventsAssumption
<1>1. ASSUME NEW t \in EThr, FirstExchange(t) PROVE Win32EventsTypeOK'
  BY <1>1 DEF FirstExchange
<1>2. ASSUME NEW t \in EThr, ExchangeAgain(t) PROVE Win32EventsTypeOK'
  BY <1>2 DEF ExchangeAgain
<1>3. ASSUME NEW t \in EThr, AwaitMutex(t) PROVE Win32EventsTypeOK'
  BY <1>3, ZenonT(30) DEF AwaitMutex
<1>4. ASSUME NEW t \in EThr, ReleaseExchange(t) PROVE Win32EventsTypeOK'
  BY <1>4 DEF ReleaseExchange
<1>5. ASSUME NEW t \in EThr, WakeWaiter(t) PROVE Win32EventsTypeOK'
  BY <1>5 DEF WakeWaiter
<1>6. ASSUME NEW t \in Builder, BuilderBegins(t) PROVE Win32EventsTypeOK'
  BY <1>6 DEF BuilderBegins
<1>7. ASSUME NEW t \in Builder, BuilderCounts(t) PROVE Win32EventsTypeOK'
  BY <1>7 DEF BuilderCounts
<1>8. ASSUME NEW t \in Builder, BuilderEnds(t) PROVE Win32EventsTypeOK'
  BY <1>8 DEF BuilderEnds
<1>9. ASSUME NEW t \in Builder, BuilderNotifies(t) PROVE Win32EventsTypeOK'
  BY <1>9 DEF BuilderNotifies
<1>10. ASSUME WaitBegins PROVE Win32EventsTypeOK'
  BY <1>10 DEF WaitBegins
<1>11. ASSUME GC_wait_for_reclaim PROVE Win32EventsTypeOK'
  <2>1. /\ pc' \in [EThr -> EventPcs] /\ then' \in [EThr -> EventPcs]
        /\ fl_builder_count' \in Int /\ helper_count' \in Int /\ mark_no' \in Nat
        /\ my_mark_no' \in [Helper -> Nat]
    BY <1>11 DEF GC_wait_for_reclaim
  <2>2. /\ mark_cv' \in BOOLEAN /\ builder_cv' \in BOOLEAN
        /\ GC_marker_cv' \in [Helper -> BOOLEAN] /\ help_wanted' \in BOOLEAN
    BY <1>11, Zenon DEF GC_wait_for_reclaim
  <2> QED
    BY <1>11, <2>1, <2>2 DEF GC_wait_for_reclaim
<1>12. ASSUME MarkBegins PROVE Win32EventsTypeOK'
  BY <1>12 DEF MarkBegins
<1>13. ASSUME MarkPosts PROVE Win32EventsTypeOK'
  BY <1>13 DEF MarkPosts, GC_notify_all_marker
<1>14. ASSUME MarkDone PROVE Win32EventsTypeOK'
  BY <1>14 DEF MarkDone
<1>15. ASSUME MarkFinishes PROVE Win32EventsTypeOK'
  <2>1. /\ pc' \in [EThr -> EventPcs] /\ then' \in [EThr -> EventPcs]
        /\ fl_builder_count' \in Int /\ helper_count' \in Int /\ mark_no' \in Nat
        /\ my_mark_no' \in [Helper -> Nat]
    BY <1>15 DEF MarkFinishes, GC_notify_all_marker
  <2>2. /\ mark_cv' \in BOOLEAN /\ builder_cv' \in BOOLEAN
        /\ GC_marker_cv' \in [Helper -> BOOLEAN] /\ help_wanted' \in BOOLEAN
    <3>1. GC_notify_all_marker(Marker_) =>
              mark_cv' \in BOOLEAN /\ GC_marker_cv' \in [Helper -> BOOLEAN]
      BY DEF GC_notify_all_marker
    <3> QED
      BY <1>15, <3>1, Zenon DEF MarkFinishes
  <2> QED
    BY <1>15, <2>1, <2>2 DEF MarkFinishes, GC_notify_all_marker
<1>16. ASSUME MarkNotifies PROVE Win32EventsTypeOK'
  BY <1>16 DEF MarkNotifies, GC_notify_all_marker
<1>17. ASSUME MarkWakes PROVE Win32EventsTypeOK'
  BY <1>17 DEF MarkWakes
<1>18. ASSUME NEW t \in Helper, HelpOrWait(t) PROVE Win32EventsTypeOK'
  <2>1. /\ pc' \in [EThr -> EventPcs] /\ then' \in [EThr -> EventPcs]
        /\ fl_builder_count' \in Int /\ helper_count' \in Int /\ mark_no' \in Nat
        /\ my_mark_no' \in [Helper -> Nat]
    BY <1>18 DEF HelpOrWait
  <2>2. /\ mark_cv' \in BOOLEAN /\ builder_cv' \in BOOLEAN
        /\ GC_marker_cv' \in [Helper -> BOOLEAN] /\ help_wanted' \in BOOLEAN
    BY <1>18, Zenon DEF HelpOrWait
  <2> QED
    BY <1>18, <2>1, <2>2 DEF HelpOrWait
<1>19. ASSUME NEW t \in Helper, HelperWakes(t) PROVE Win32EventsTypeOK'
  BY <1>19 DEF HelperWakes
<1>20. ASSUME NEW t \in Helper, HelperDone(t) PROVE Win32EventsTypeOK'
  BY <1>20 DEF HelperDone
<1>21. ASSUME NEW t \in Helper, HelperLeaves(t) PROVE Win32EventsTypeOK'
  <2>1. /\ pc' \in [EThr -> EventPcs] /\ then' \in [EThr -> EventPcs]
        /\ fl_builder_count' \in Int /\ helper_count' \in Int /\ mark_no' \in Nat
        /\ my_mark_no' \in [Helper -> Nat]
    BY <1>21 DEF HelperLeaves, GC_notify_all_marker
  <2>2. /\ mark_cv' \in BOOLEAN /\ builder_cv' \in BOOLEAN
        /\ GC_marker_cv' \in [Helper -> BOOLEAN] /\ help_wanted' \in BOOLEAN
    BY <1>21, Zenon DEF HelperLeaves, GC_notify_all_marker
  <2> QED
    BY <1>21, <2>1, <2>2 DEF HelperLeaves, GC_notify_all_marker
<1> QED
  BY <1>1, <1>2, <1>3, <1>4, <1>5, <1>6, <1>7, <1>8, <1>9, <1>10, <1>11,
     <1>12, <1>13, <1>14, <1>15, <1>16, <1>17, <1>18, <1>19, <1>20, <1>21, ZenonT(30)
     DEF Win32EventsNext, LockStep, BuilderStep, MarkStep, HelperStep

(* The lock word, and who is where, stay in step. *)
LEMMA LockStepKeeps ==
    ASSUME Win32EventsAssumption, EventInv, Win32EventsNext
    PROVE  LockInv'
<1> USE DEF Call, EventInv, Win32EventsTypeOK, Win32EventsAssumption,
   LockInv, Places, WordExact, MarkLockExcludes, LockWakeups
<1>1. ASSUME NEW t \in EThr, FirstExchange(t) PROVE LockInv'
  <2>1. Places' /\ WordExact'
    BY <1>1 DEF FirstExchange
  <2>2. MarkLockExcludes'
    BY <1>1 DEF FirstExchange
  <2>3. LockWakeups'
    BY <1>1 DEF FirstExchange
  <2> QED
    BY <2>1, <2>2, <2>3
<1>2. ASSUME NEW t \in EThr, ExchangeAgain(t) PROVE LockInv'
  <2>1. Places' /\ WordExact'
    BY <1>2 DEF ExchangeAgain
  <2>2. MarkLockExcludes'
    BY <1>2 DEF ExchangeAgain
  <2>3. LockWakeups'
    BY <1>2 DEF ExchangeAgain
  <2> QED
    BY <2>1, <2>2, <2>3
<1>3. ASSUME NEW t \in EThr, AwaitMutex(t) PROVE LockInv'
  BY <1>3 DEF AwaitMutex
<1>4. ASSUME NEW t \in EThr, ReleaseExchange(t) PROVE LockInv'
  <2>1. Places' /\ WordExact'
    BY <1>4 DEF ReleaseExchange
  <2>2. MarkLockExcludes'
    BY <1>4 DEF ReleaseExchange
  <2>3. LockWakeups'
    BY <1>4 DEF ReleaseExchange
  <2> QED
    BY <2>1, <2>2, <2>3
<1>5. ASSUME NEW t \in EThr, WakeWaiter(t) PROVE LockInv'
  BY <1>5 DEF WakeWaiter
<1>6. ASSUME NEW t \in Builder, BuilderBegins(t) PROVE LockInv'
  BY <1>6 DEF BuilderBegins
<1>7. ASSUME NEW t \in Builder, BuilderCounts(t) PROVE LockInv'
  BY <1>7 DEF BuilderCounts
<1>8. ASSUME NEW t \in Builder, BuilderEnds(t) PROVE LockInv'
  BY <1>8 DEF BuilderEnds
<1>9. ASSUME NEW t \in Builder, BuilderNotifies(t) PROVE LockInv'
  BY <1>9 DEF BuilderNotifies
<1>10. ASSUME WaitBegins PROVE LockInv'
  BY <1>10 DEF WaitBegins
<1>11. ASSUME GC_wait_for_reclaim PROVE LockInv'
  BY <1>11 DEF GC_wait_for_reclaim
<1>12. ASSUME MarkBegins PROVE LockInv'
  BY <1>12 DEF MarkBegins
<1>13. ASSUME MarkPosts PROVE LockInv'
  BY <1>13 DEF MarkPosts, GC_notify_all_marker
<1>14. ASSUME MarkDone PROVE LockInv'
  BY <1>14 DEF MarkDone
<1>15. ASSUME MarkFinishes PROVE LockInv'
  BY <1>15 DEF MarkFinishes, GC_notify_all_marker
<1>16. ASSUME MarkNotifies PROVE LockInv'
  BY <1>16 DEF MarkNotifies, GC_notify_all_marker
<1>17. ASSUME MarkWakes PROVE LockInv'
  BY <1>17 DEF MarkWakes
<1>18. ASSUME NEW t \in Helper, HelpOrWait(t) PROVE LockInv'
  BY <1>18 DEF HelpOrWait
<1>19. ASSUME NEW t \in Helper, HelperWakes(t) PROVE LockInv'
  BY <1>19 DEF HelperWakes
<1>20. ASSUME NEW t \in Helper, HelperDone(t) PROVE LockInv'
  BY <1>20 DEF HelperDone
<1>21. ASSUME NEW t \in Helper, HelperLeaves(t) PROVE LockInv'
  BY <1>21 DEF HelperLeaves, GC_notify_all_marker
<1> QED
  BY <1>1, <1>2, <1>3, <1>4, <1>5, <1>6, <1>7, <1>8, <1>9, <1>10, <1>11,
     <1>12, <1>13, <1>14, <1>15, <1>16, <1>17, <1>18, <1>19, <1>20, <1>21, ZenonT(30)
     DEF Win32EventsNext, LockStep, BuilderStep, MarkStep, HelperStep

(* No wake-up is lost. *)
LEMMA WaitStepKeeps ==
    ASSUME Win32EventsAssumption, EventInv, Win32EventsNext
    PROVE  WaitInv'
<1> USE DEF Call, EventInv, Win32EventsTypeOK, Win32EventsAssumption,
   WaitInv, NoneBegins, WaitsForSomething, Toward, LockInv, Places
<1>1. ASSUME NEW t \in EThr, FirstExchange(t) PROVE WaitInv'
  BY <1>1 DEF FirstExchange
<1>2. ASSUME NEW t \in EThr, ExchangeAgain(t) PROVE WaitInv'
  BY <1>2 DEF ExchangeAgain
<1>3. ASSUME NEW t \in EThr, AwaitMutex(t) PROVE WaitInv'
  BY <1>3 DEF AwaitMutex
<1>4. ASSUME NEW t \in EThr, ReleaseExchange(t) PROVE WaitInv'
  BY <1>4 DEF ReleaseExchange
<1>5. ASSUME NEW t \in EThr, WakeWaiter(t) PROVE WaitInv'
  BY <1>5 DEF WakeWaiter
<1>6. ASSUME NEW t \in Builder, BuilderBegins(t) PROVE WaitInv'
  BY <1>6 DEF BuilderBegins
<1>7. ASSUME NEW t \in Builder, BuilderCounts(t) PROVE WaitInv'
  BY <1>7 DEF BuilderCounts
<1>8. ASSUME NEW t \in Builder, BuilderEnds(t) PROVE WaitInv'
  BY <1>8 DEF BuilderEnds
<1>9. ASSUME NEW t \in Builder, BuilderNotifies(t) PROVE WaitInv'
  <2>1. fl_builder_count' = 0 => builder_cv'
    <3>1. fl_builder_count' = 0 => fl_builder_count = 1
      BY <1>9 DEF BuilderNotifies
    <3> QED
      BY <1>9, <3>1, Zenon DEF BuilderNotifies
  <2>2. builder_cv => builder_cv'
    BY <1>9, ZenonT(30) DEF BuilderNotifies
  <2> QED
    BY <1>9, <2>1, <2>2 DEF BuilderNotifies
<1>10. ASSUME WaitBegins PROVE WaitInv'
  BY <1>10 DEF WaitBegins
<1>11. ASSUME GC_wait_for_reclaim PROVE WaitInv'
  BY <1>11 DEF GC_wait_for_reclaim
<1>12. ASSUME MarkBegins PROVE WaitInv'
  BY <1>12 DEF MarkBegins
<1>13. ASSUME MarkPosts PROVE WaitInv'
  BY <1>13, ZenonT(30) DEF MarkPosts, GC_notify_all_marker
<1>14. ASSUME MarkDone PROVE WaitInv'
  BY <1>14 DEF MarkDone
<1>15. ASSUME MarkFinishes PROVE WaitInv'
  BY <1>15 DEF MarkFinishes, GC_notify_all_marker
<1>16. ASSUME MarkNotifies PROVE WaitInv'
  BY <1>16, ZenonT(30) DEF MarkNotifies, GC_notify_all_marker
<1>17. ASSUME MarkWakes PROVE WaitInv'
  BY <1>17 DEF MarkWakes
<1>18. ASSUME NEW t \in Helper, HelpOrWait(t) PROVE WaitInv'
  BY <1>18 DEF HelpOrWait
<1>19. ASSUME NEW t \in Helper, HelperWakes(t) PROVE WaitInv'
  BY <1>19 DEF HelperWakes
<1>20. ASSUME NEW t \in Helper, HelperDone(t) PROVE WaitInv'
  BY <1>20 DEF HelperDone
<1>21. ASSUME NEW t \in Helper, HelperLeaves(t) PROVE WaitInv'
  <2>1. helper_count' = 0 => mark_cv'
    <3>1. helper_count' = 0 => helper_count = 1
      BY <1>21 DEF HelperLeaves
    <3> QED
      BY <1>21, <3>1, Zenon DEF HelperLeaves, GC_notify_all_marker
  <2>2. mark_cv => mark_cv'
    BY <1>21, ZenonT(30) DEF HelperLeaves, GC_notify_all_marker
  <2>3. \A h \in Helper : GC_marker_cv[h] => GC_marker_cv'[h]
    BY <1>21 DEF HelperLeaves, GC_notify_all_marker
  <2> HIDE DEF GC_notify_all_marker
  <2> QED
    BY <1>21, <2>1, <2>2, <2>3 DEF HelperLeaves
<1> QED
  BY <1>1, <1>2, <1>3, <1>4, <1>5, <1>6, <1>7, <1>8, <1>9, <1>10, <1>11,
     <1>12, <1>13, <1>14, <1>15, <1>16, <1>17, <1>18, <1>19, <1>20, <1>21, ZenonT(30)
     DEF Win32EventsNext, LockStep, BuilderStep, MarkStep, HelperStep

-----------------------------------------------------------------------------
(* The theorems. *)

(* The invariant holds of every behaviour of the emulation. *)
THEOREM EventInvariant == Win32EventsAssumption /\ Win32EventsSpec => []EventInv
<1> SUFFICES ASSUME Win32EventsAssumption PROVE Win32EventsSpec => []EventInv
  OBVIOUS
<1>1. Win32EventsInit => EventInv
  <2> SUFFICES ASSUME Win32EventsInit PROVE EventInv
    OBVIOUS
  <2>1. Win32EventsTypeOK
    <3>1. pc \in [EThr -> EventPcs] /\ then \in [EThr -> EventPcs]
      BY DEF Win32EventsInit
    <3>2. GC_marker_cv \in [Helper -> BOOLEAN] /\ help_wanted \in BOOLEAN
      BY Zenon DEF Win32EventsInit
    <3>3. my_mark_no \in [Helper -> Nat]
      BY DEF Win32EventsInit
    <3>4. /\ mark_mutex_event \in BOOLEAN /\ builder_cv \in BOOLEAN /\ mark_cv \in BOOLEAN
      BY Zenon DEF Win32EventsInit
    <3>5. /\ GC_mark_mutex_state \in {-1, 0, 1} /\ builds \in 0 .. MaxEventRounds
          /\ fl_builder_count \in Int /\ helper_count \in Int /\ mark_no \in Nat
      BY DEF Win32EventsInit, Win32EventsAssumption
    <3> QED
      BY <3>1, <3>2, <3>3, <3>4, <3>5, Zenon DEF Win32EventsTypeOK
  <2>2. LockInv
    BY ZenonT(30) DEF Win32EventsInit, LockInv, Places, WordExact, MarkLockExcludes, LockWakeups
  <2>3. WaitInv
    BY DEF Win32EventsInit, WaitInv, NoneBegins, WaitsForSomething, Toward,
           Win32EventsAssumption
  <2> QED
    BY <2>1, <2>2, <2>3 DEF EventInv
<1>2. EventInv /\ UNCHANGED eventVars => EventInv'
  BY DEF eventVars, EventInv, Win32EventsTypeOK, LockInv, Places, WordExact,
         MarkLockExcludes, LockWakeups, WaitInv, NoneBegins, WaitsForSomething, Toward
<1>3. EventInv /\ Win32EventsNext => EventInv'
  BY TypeStep, LockStepKeeps, WaitStepKeeps DEF EventInv
<1> QED
  BY <1>1, <1>2, <1>3, PTL DEF Win32EventsSpec

(* The exchanged word and its event exclude two threads and wake whoever waits *)
(* for the lock (GC_acquire_mark_lock, GC_release_mark_lock), and nobody sleeps *)
(* on an event whose condition holds already (GC_wait_builder, GC_wait_marker): *)
(* resetting the event with the lock held is early enough, for any number of   *)
(* builders and helpers.                                                   *)
THEOREM EmulationIsSound == Win32EventsAssumption /\ Win32EventsSpec => []EmulationSound
<1>1. EventInv => EmulationSound
  BY DEF EventInv, LockInv, WaitInv, WaitsForSomething, Toward, EmulationSound,
         ConditionWakeups
<1> QED
  BY <1>1, EventInvariant, PTL

HIDE DEF EThr, EventPcs, Resting, Critical, events, lockWord, counts

-----------------------------------------------------------------------------
(* The lives of a collector: the inductive invariant. *)

Owners == Facility \cup {"gc", "client"}
Headers == [kind : Nat, descr : KDescr, of : Owners \cup {"none"}]

Tables ==
    /\ obj_kinds \in Seq([owner : Owners, descr : KDescr])
    /\ mark_procs \in Seq(Owners)
    /\ first_kind \in [Facility -> Nat] /\ first_proc \in [Facility -> Nat]
    /\ hblks \in [KBlk -> Headers]
    /\ flags \subseteq Facility

\* A facility whose flag is clear has no kinds in the table: GC_deinit has reset
\* the table together with the flags.
NoKindsBefore ==
    \A f \in Facility \ flags : \A i \in DOMAIN obj_kinds : obj_kinds[i].owner # f

\* A block in use has a kind of the table.
BlockKinds == \A b \in KBlk : hblks[b] # NoBlock => hblks[b].kind \in DOMAIN obj_kinds

\* Nothing of an instance is there before GC_init, and a thread in
\* GC_make_descriptor keeps the instance alive.
Outside ==
    /\ is_initialized \in BOOLEAN /\ incremental \in BOOLEAN /\ isolate \in BOOLEAN
    /\ ~is_initialized => sects = {} /\ flags = {} /\ hblks = [b \in KBlk |-> NoBlock]
    /\ typing \in [LThr -> {"out", "locking"}]
    /\ \A t \in LThr : typing[t] = "locking" => is_initialized

KindInv == Tables /\ NoKindsBefore /\ KindsOwn /\ BlockKinds /\ BlockDescrCurrent
SectInv == Outside /\ SectionsRecorded
LifeInv == KindInv /\ SectInv

-----------------------------------------------------------------------------
(* The tables. *)

\* A step that adds kinds of w at the end of the table, at most two.
Adds(w) ==
    /\ obj_kinds' \in Seq([owner : Owners, descr : KDescr])
    /\ \A i \in DOMAIN obj_kinds : i \in DOMAIN obj_kinds' /\ obj_kinds'[i] = obj_kinds[i]
    /\ \A i \in DOMAIN obj_kinds' \ DOMAIN obj_kinds :
          obj_kinds'[i] = Kind(w, 0) /\ i - (Len(obj_kinds) + 1) \in 0 .. 1
    /\ Len(obj_kinds) + 1 \in DOMAIN obj_kinds' \ DOMAIN obj_kinds

(* What is in the table of kinds is a kind. *)
LEMMA KindOfTable ==
    ASSUME Tables, NEW i \in DOMAIN obj_kinds
    PROVE  obj_kinds[i] \in [owner : Owners, descr : KDescr] /\ i \in Nat
<1> DEFINE KindSet == [owner : Owners, descr : KDescr]
<1>1. obj_kinds \in Seq(KindSet)
  BY DEF Tables
<1> HIDE DEF KindSet
<1>2. obj_kinds[i] \in KindSet /\ i \in Nat
  BY <1>1, ElementOfSeq, LenProperties
<1> QED
  BY <1>2 DEF KindSet

(* GC_new_kind_inner leaves the kinds that are there and adds the new ones. *)
LEMMA NewKinds ==
    ASSUME Tables, NEW w \in Owners, NEW ds \in {<< 0 >>, << 0, 0 >>}, GC_new_kind_inner(w, ds)
    PROVE  Adds(w)
<1> DEFINE KindSet == [owner : Owners, descr : KDescr]
           new == [i \in DOMAIN ds |-> Kind(w, ds[i])]
<1>1. Len(ds) \in 1 .. 2 /\ DOMAIN ds = 1 .. Len(ds) /\ \A i \in DOMAIN ds : ds[i] = 0
  BY DEF KDescr
<1>2. new \in [1 .. Len(ds) -> KindSet] /\ \A i \in 1 .. Len(ds) : new[i] = Kind(w, 0)
  BY <1>1 DEF Kind, KDescr
<1>3. new \in Seq(KindSet) /\ Len(new) = Len(ds)
  BY <1>1, <1>2
<1>4. obj_kinds \in Seq(KindSet) /\ obj_kinds' = obj_kinds \o new
  BY DEF Tables, GC_new_kind_inner
<1> HIDE DEF new, KindSet
<1>5. /\ obj_kinds' \in Seq(KindSet) /\ Len(obj_kinds') = Len(obj_kinds) + Len(new)
      /\ \A i \in 1 .. Len(obj_kinds) + Len(new) :
            obj_kinds'[i] = IF i <= Len(obj_kinds) THEN obj_kinds[i] ELSE new[i - Len(obj_kinds)]
  <2>1. new \in Seq(KindSet) /\ obj_kinds \in Seq(KindSet)
    BY <1>3, <1>4
  <2>2. /\ obj_kinds \o new \in Seq(KindSet) /\ Len(obj_kinds \o new) = Len(obj_kinds) + Len(new)
      /\ \A i \in 1 .. Len(obj_kinds) + Len(new) :
            (obj_kinds \o new)[i] = IF i <= Len(obj_kinds) THEN obj_kinds[i] ELSE new[i - Len(obj_kinds)]
    BY <2>1, ConcatProperties, Zenon
  <2> QED
    BY <2>2, <1>4, Zenon
<1>6. \A i \in DOMAIN obj_kinds : i \in DOMAIN obj_kinds' /\ obj_kinds'[i] = obj_kinds[i]
  BY <1>1, <1>3, <1>4, <1>5
<1>7. \A i \in DOMAIN obj_kinds' \ DOMAIN obj_kinds :
          obj_kinds'[i] = Kind(w, 0) /\ i - (Len(obj_kinds) + 1) \in 0 .. 1
  <2> SUFFICES ASSUME NEW i \in DOMAIN obj_kinds' \ DOMAIN obj_kinds
               PROVE  obj_kinds'[i] = Kind(w, 0) /\ i - (Len(obj_kinds) + 1) \in 0 .. 1
    OBVIOUS
  <2>1. i \in Len(obj_kinds) + 1 .. Len(obj_kinds) + Len(new) /\ Len(obj_kinds) \in Nat
    BY <1>3, <1>4, <1>5
  <2>2. obj_kinds'[i] = new[i - Len(obj_kinds)] /\ i - Len(obj_kinds) \in 1 .. Len(ds)
    BY <1>1, <1>3, <1>5, <2>1
  <2> QED
    BY <1>1, <1>2, <2>1, <2>2
<1>8. Len(obj_kinds) + 1 \in DOMAIN obj_kinds' \ DOMAIN obj_kinds
  BY <1>1, <1>3, <1>4, <1>5
<1> QED
  BY <1>5, <1>6, <1>7, <1>8 DEF Adds, KindSet

(* GC_new_proc_inner leaves the procedures that are there. *)
LEMMA NewProcs ==
    ASSUME Tables, GC_new_proc_inner("typed", 2)
    PROVE  /\ mark_procs' \in Seq(Owners)
           /\ \A i \in 0 .. 1 : /\ Len(mark_procs) + 1 + i \in DOMAIN mark_procs'
                                /\ mark_procs'[Len(mark_procs) + 1 + i] = "typed"
<1> DEFINE new == [i \in 1 .. 2 |-> "typed"]
<1>1. new \in Seq(Owners) /\ Len(new) = 2 /\ new[1] = "typed" /\ new[2] = "typed"
  BY DEF Owners, Facility
<1>2. mark_procs \in Seq(Owners) /\ mark_procs' = mark_procs \o new
  BY DEF Tables, GC_new_proc_inner
<1> HIDE DEF new
<1>3. /\ mark_procs' \in Seq(Owners) /\ Len(mark_procs') = Len(mark_procs) + Len(new)
      /\ \A i \in 1 .. Len(mark_procs) + Len(new) :
            mark_procs'[i] = IF i <= Len(mark_procs) THEN mark_procs[i] ELSE new[i - Len(mark_procs)]
  BY <1>1, <1>2, ConcatProperties, Zenon
<1>4. \A i \in 0 .. 1 : /\ Len(mark_procs) + 1 + i \in 1 .. Len(mark_procs')
                        /\ mark_procs'[Len(mark_procs) + 1 + i] = new[1 + i]
  <2>1. Len(mark_procs) \in Nat
    BY <1>2
  <2> QED
    BY <1>1, <1>3, <2>1
<1> QED
  BY <1>1, <1>3, <1>4

(* A facility that starts with its flag clear finds its own kinds afterwards, and *)
(* the others still find theirs.                                                  *)
LEMMA StartKeeps ==
    ASSUME KindInv, NEW f \in Facility \ flags, Adds(f), Started(f),
           UNCHANGED hblks,
           \/ f = "typed" /\ GC_new_proc_inner("typed", 2)
                          /\ first_proc' = [first_proc EXCEPT !["typed"] = Len(mark_procs) + 1]
           \/ f # "typed" /\ UNCHANGED <<mark_procs, first_proc>>
    PROVE  KindInv'
<1> USE DEF KindInv
<1>1. Tables'
  BY NewProcs DEF Tables, Adds, Started, Facility
<1>2. NoKindsBefore'
  BY DEF NoKindsBefore, Adds, Started, Kind
<1>3. KindsOwn'
  <2> SUFFICES ASSUME NEW g \in flags'
               PROVE  /\ first_kind'[g] \in DOMAIN obj_kinds'
                      /\ obj_kinds'[first_kind'[g]].owner = g
                      /\ \A i \in DOMAIN obj_kinds' :
                            obj_kinds'[i].owner = g => i - first_kind'[g] \in 0 .. 1
                      /\ g = "typed" => \A i \in 0 .. 1 :
                            /\ first_proc'[g] + i \in DOMAIN mark_procs'
                            /\ mark_procs'[first_proc'[g] + i] = g
    BY DEF KindsOwn
  <2>1. CASE g = f
    <3>1. first_kind'[f] = Len(obj_kinds) + 1
      BY DEF Started, Tables
    <3>2. \A i \in DOMAIN obj_kinds : obj_kinds[i].owner # f
      BY DEF NoKindsBefore
    <3>3. f = "typed" => first_proc'[f] = Len(mark_procs) + 1
      BY DEF Tables
    <3> QED
      BY <2>1, <3>1, <3>2, <3>3, NewProcs DEF Adds, Kind
  <2>2. CASE g # f
    <3>1. g \in flags /\ first_kind'[g] = first_kind[g]
      BY <2>2 DEF Started, Tables
    <3>2. g = "typed" => UNCHANGED <<mark_procs, first_proc>>
      BY <2>2
    <3> QED
      BY <2>2, <3>1, <3>2 DEF KindsOwn, Adds, Kind
  <2> QED
    BY <2>1, <2>2
<1>4. BlockKinds' /\ BlockDescrCurrent'
  BY DEF BlockKinds, BlockDescrCurrent, Adds
<1> QED
  BY <1>1, <1>2, <1>3, <1>4

-----------------------------------------------------------------------------
(* Every step keeps the invariant. *)

(* The tables of kinds and procedures, the indices into them and the headers. *)
LEMMA KindStep ==
    ASSUME LifeInv, LifecycleNext
    PROVE  KindInv'
<1> USE DEF LifeInv
<1>1. ASSUME UNCHANGED kindVars PROVE KindInv'
  BY <1>1 DEF kindVars, KindInv, Tables, NoKindsBefore, KindsOwn, BlockKinds, BlockDescrCurrent
<1>2. ASSUME GC_deinit_ PROVE KindInv'
  <2>1. /\ obj_kinds' = StandardKinds /\ mark_procs' = <<>> /\ flags' = {}
        /\ hblks' = [b \in KBlk |-> NoBlock] /\ UNCHANGED <<first_kind, first_proc>>
    BY <1>2 DEF GC_deinit_, GC_reset_obj_kinds, ResetProcs, ArraysCleared
  <2>2. /\ StandardKinds \in Seq([owner : Owners, descr : KDescr])
        /\ \A i \in DOMAIN StandardKinds : StandardKinds[i].owner = "gc"
    BY DEF StandardKinds, Kind, Owners, KDescr
  <2>3. Tables'
    BY <2>1, <2>2 DEF KindInv, Tables, Headers, NoBlock, KDescr
  <2> QED
    BY <2>1, <2>2, <2>3
    DEF KindInv, NoKindsBefore, KindsOwn, BlockKinds, BlockDescrCurrent, Facility
<1>3. ASSUME GC_new_kind PROVE KindInv'
  <2>1. Adds("client") /\ UNCHANGED <<mark_procs, flags, first_kind, first_proc, hblks>>
    BY <1>3, NewKinds, ZenonT(30) DEF GC_new_kind, KindInv, Owners
  <2>2. Tables'
    BY <2>1, ZenonT(30) DEF KindInv, Tables, Adds
  <2>3. NoKindsBefore'
    BY <2>1 DEF KindInv, NoKindsBefore, Adds, Kind, Facility
  <2>4. BlockKinds' /\ BlockDescrCurrent'
    BY <2>1 DEF KindInv, BlockKinds, BlockDescrCurrent, Adds
  <2>5. KindsOwn'
    <3> SUFFICES ASSUME NEW f \in flags
                 PROVE  /\ first_kind[f] \in DOMAIN obj_kinds'
                        /\ obj_kinds'[first_kind[f]].owner = f
                        /\ \A i \in DOMAIN obj_kinds' :
                              obj_kinds'[i].owner = f => i - first_kind[f] \in 0 .. 1
                        /\ f = "typed" => \A i \in 0 .. 1 : /\ first_proc[f] + i \in DOMAIN mark_procs
                                                            /\ mark_procs[first_proc[f] + i] = f
      BY <2>1 DEF KindsOwn
    <3>1. /\ first_kind[f] \in DOMAIN obj_kinds /\ obj_kinds[first_kind[f]].owner = f
          /\ \A i \in DOMAIN obj_kinds : obj_kinds[i].owner = f => i - first_kind[f] \in 0 .. 1
          /\ f = "typed" => \A i \in 0 .. 1 : /\ first_proc[f] + i \in DOMAIN mark_procs
                                              /\ mark_procs[first_proc[f] + i] = f
      BY DEF KindInv, KindsOwn
    <3>2. f # "client"
      BY DEF KindInv, Tables, Facility
    <3>3. /\ \A i \in DOMAIN obj_kinds : i \in DOMAIN obj_kinds' /\ obj_kinds'[i] = obj_kinds[i]
          /\ \A i \in DOMAIN obj_kinds' \ DOMAIN obj_kinds : obj_kinds'[i].owner = "client"
      BY <2>1 DEF Adds, Kind
    <3> QED
      BY <3>1, <3>2, <3>3
  <2> QED
    BY <2>2, <2>3, <2>4, <2>5 DEF KindInv
<1>4. ASSUME GC_init_finalized_malloc PROVE KindInv'
  <2>1. Adds("finalized")
    BY <1>4, NewKinds DEF GC_init_finalized_malloc, KindInv, Owners, Facility
  <2> QED
    BY <1>4, <2>1, StartKeeps DEF GC_init_finalized_malloc, Facility
<1>5. ASSUME GC_init_gcj_malloc_mp PROVE KindInv'
  <2>1. Adds("gcj")
    BY <1>5, NewKinds DEF GC_init_gcj_malloc_mp, KindInv, Owners, Facility
  <2> QED
    BY <1>5, <2>1, StartKeeps DEF GC_init_gcj_malloc_mp, Facility
<1>6. ASSUME NEW t \in LThr, MakeDescriptorLocked(t) PROVE KindInv'
  <2>1. CASE Recheck
    <3>1. GC_init_explicit_typing /\ UNCHANGED hblks /\ "typed" \in Facility \ flags
      BY <1>6, <2>1 DEF MakeDescriptorLocked, Recheck, Facility
    <3>2. Adds("typed")
      BY <3>1, NewKinds DEF GC_init_explicit_typing, KindInv, Owners
    <3> QED
      BY <3>1, <3>2, StartKeeps DEF GC_init_explicit_typing
  <2>2. CASE ~Recheck
    BY <1>1, <1>6, <2>2 DEF MakeDescriptorLocked, kindVars
  <2> QED
    BY <2>1, <2>2
<1>7. ASSUME NEW b \in KBlk, NEW f \in Facility, AllocateFor(f, b) PROVE KindInv'
  <2> USE DEF AllocateFor
  <2>1. /\ first_kind[f] \in DOMAIN obj_kinds /\ obj_kinds[first_kind[f]].owner = f
        /\ obj_kinds[first_kind[f]].descr \in KDescr /\ first_kind[f] \in Nat
    BY <1>7, KindOfTable, ZenonT(30) DEF KindInv, KindsOwn, Tables
  <2>2. Tables'
    BY <1>7, <2>1, ZenonT(30) DEF KindInv, Tables, Headers, Owners
  <2> QED
    BY <1>7, <2>1, <2>2, ZenonT(30)
    DEF KindInv, Tables, NoKindsBefore, KindsOwn, BlockKinds, BlockDescrCurrent
<1>8. ASSUME NEW b \in KBlk, NEW k \in 1 .. MAXOBJKINDS, AllocateKind(k, b) PROVE KindInv'
  <2> USE DEF AllocateKind
  <2>1. obj_kinds[k].descr \in KDescr /\ k \in Nat
    BY <1>8, KindOfTable, ZenonT(30) DEF KindInv
  <2>2. Tables'
    BY <1>8, <2>1 DEF KindInv, Tables, Headers, Owners
  <2> QED
    BY <1>8, <2>1, <2>2, ZenonT(30)
    DEF KindInv, Tables, NoKindsBefore, KindsOwn, BlockKinds, BlockDescrCurrent
<1>9. ASSUME NEW b \in KBlk, FreeBlock(b) PROVE KindInv'
  <2> USE DEF FreeBlock
  <2>1. Tables'
    BY <1>9 DEF KindInv, Tables, Headers, NoBlock, KDescr
  <2> QED
    BY <1>9, <2>1, ZenonT(30)
    DEF KindInv, Tables, NoKindsBefore, KindsOwn, BlockKinds, BlockDescrCurrent
<1>10. ASSUME NEW k \in 1 .. MAXOBJKINDS, NEW d \in KDescr, GC_change_kind_descriptor(k, d)
       PROVE  KindInv'
  <2> USE DEF GC_change_kind_descriptor
  <2>1. /\ obj_kinds' \in Seq([owner : Owners, descr : KDescr])
        /\ DOMAIN obj_kinds' = DOMAIN obj_kinds
        /\ \A i \in DOMAIN obj_kinds :
              /\ obj_kinds'[i].owner = obj_kinds[i].owner
              /\ obj_kinds'[i].descr = IF i = k THEN d ELSE obj_kinds[i].descr
    <3>1. [obj_kinds[k] EXCEPT !.descr = d] \in [owner : Owners, descr : KDescr]
      BY <1>10, KindOfTable DEF KindInv
    <3>2. obj_kinds' = [obj_kinds EXCEPT ![k] = [obj_kinds[k] EXCEPT !.descr = d]]
      BY <1>10
    <3>3. /\ obj_kinds \in Seq([owner : Owners, descr : KDescr])
          /\ k \in 1 .. Len(obj_kinds) /\ DOMAIN obj_kinds = 1 .. Len(obj_kinds)
      BY <1>10 DEF KindInv, Tables
    <3>4. /\ obj_kinds' \in Seq([owner : Owners, descr : KDescr])
          /\ Len(obj_kinds') = Len(obj_kinds)
          /\ \A i \in 1 .. Len(obj_kinds) :
                obj_kinds'[i] = IF i = k THEN [obj_kinds[k] EXCEPT !.descr = d] ELSE obj_kinds[i]
      BY <3>1, <3>2, <3>3, ExceptSeq
    <3>5. DOMAIN obj_kinds' = DOMAIN obj_kinds
      BY <3>3, <3>4
    <3>6. \A i \in DOMAIN obj_kinds : obj_kinds[i] \in [owner : Owners, descr : KDescr]
      BY KindOfTable DEF KindInv
    <3> QED
      BY <3>3, <3>4, <3>5, <3>6
  <2>2. \A b \in KBlk :
            /\ hblks'[b] \in Headers /\ hblks'[b].kind = hblks[b].kind /\ hblks'[b].of = hblks[b].of
            /\ hblks'[b].descr = IF hblks[b].kind = k THEN d ELSE hblks[b].descr
    BY <1>10, ZenonT(30) DEF KindInv, Tables, HeaderChange, Headers
  <2>3. \A b \in KBlk : hblks'[b] # NoBlock => hblks[b] # NoBlock
    BY <1>10 DEF HeaderChange, NoBlock
  <2>4. Tables'
    BY <1>10, <2>1, <2>2 DEF KindInv, Tables
  <2>5. NoKindsBefore' /\ KindsOwn'
    BY <1>10, <2>1 DEF KindInv, Tables, NoKindsBefore, KindsOwn
  <2>6. BlockKinds' /\ BlockDescrCurrent'
    BY <1>10, <2>1, <2>2, <2>3 DEF KindInv, BlockKinds, BlockDescrCurrent
  <2> QED
    BY <2>4, <2>5, <2>6 DEF KindInv
<1> QED
  BY <1>1, <1>2, <1>3, <1>4, <1>5, <1>6, <1>7, <1>8, <1>9, <1>10, ZenonT(30)
  DEF LifecycleNext, GC_init_, GC_enable_incremental, GC_destroy_runtime, GC_expand,
      GC_make_descriptor_

(* The state of the instance, its heap sections and the cross-isolate registry. *)
LEMMA SectStep ==
    ASSUME LifeInv, LifecycleNext
    PROVE  SectInv'
<1> USE DEF LifeInv, SectInv
<1>1. ASSUME UNCHANGED <<is_initialized, incVars, typing>>, is_initialized
      PROVE  SectInv'
  BY <1>1 DEF incVars, Outside, SectionsRecorded
<1>2. ASSUME NEW wanted \in BOOLEAN, Quiet, InitTests, InitBody(wanted),
             UNCHANGED <<isolate, kindVars, typing>>
      PROVE  SectInv'
  <2>1. PICK s \in SUBSET HeapSect :
           /\ sects' = sects \cup s /\ is_initialized' = TRUE /\ incremental' \in BOOLEAN
           /\ recorded' = recorded \cup (IF isolate /\ incremental' THEN s ELSE {})
    BY <1>2, ZenonT(30) DEF InitBody, InitialHeap, set_incremental_mode_on
  <2>2. sects = {} /\ recorded = {}
    BY <1>2 DEF InitTests, Outside, SectionsRecorded
  <2>3. SectionsRecorded'
    BY <1>2, <2>1, <2>2 DEF SectionsRecorded
  <2>4. Outside'
    BY <1>2, <2>1 DEF Outside
  <2> QED
    BY <2>3, <2>4
<1>3. ASSUME GC_init_ PROVE SectInv'
  BY <1>2, <1>3, ZenonT(30) DEF GC_init_
<1>4. ASSUME GC_enable_incremental PROVE SectInv'
  <2>1. CASE InitTests /\ InitBody(TRUE)
    BY <1>2, <1>4, <2>1, ZenonT(30) DEF GC_enable_incremental
  <2>2. CASE is_initialized /\ UNCHANGED <<is_initialized, sects, recorded>>
                            /\ incremental' \in BOOLEAN
    <3>1. ~isolate
      BY <1>4, <2>2 DEF GC_enable_incremental, EnableTest
    <3>2. SectionsRecorded'
      BY <1>4, <2>2, <3>1 DEF GC_enable_incremental, SectionsRecorded
    <3>3. Outside'
      BY <1>4, <2>2 DEF GC_enable_incremental, Outside
    <3> QED
      BY <3>2, <3>3
  <2> QED
    BY <1>4, <2>1, <2>2, ZenonT(30) DEF GC_enable_incremental, set_incremental_mode_on
<1>5. ASSUME GC_deinit_ PROVE SectInv'
  <2>1. recorded' = {}
    BY <1>5 DEF GC_deinit_, VdbDeinit, SectionsRecorded
  <2>2. SectionsRecorded'
    BY <1>5, <2>1 DEF GC_deinit_, ArraysCleared, SectionsRecorded
  <2>3. Outside'
    BY <1>5, ZenonT(30) DEF GC_deinit_, ArraysCleared, Outside, Quiet
  <2> QED
    BY <2>2, <2>3
<1>6. ASSUME GC_destroy_runtime PROVE SectInv'
  BY <1>6 DEF GC_destroy_runtime, incVars, kindVars, Outside, SectionsRecorded
<1>7. ASSUME NEW s \in HeapSect, GC_expand(s) PROVE SectInv'
  <2>1. SectionsRecorded'
    BY <1>7 DEF GC_expand, coreVars, SectionsRecorded
  <2>2. Outside'
    BY <1>7 DEF GC_expand, coreVars, kindVars, Outside
  <2> QED
    BY <2>1, <2>2
<1>8. ASSUME NEW t \in LThr, GC_make_descriptor_(t) PROVE SectInv'
  BY <1>8 DEF GC_make_descriptor_, coreVars, incVars, kindVars, Outside, SectionsRecorded
<1>9. ASSUME NEW t \in LThr, MakeDescriptorLocked(t) PROVE SectInv'
  BY <1>9 DEF MakeDescriptorLocked, coreVars, incVars, Outside, SectionsRecorded
<1>10. ASSUME NEW b \in KBlk, FreeBlock(b) PROVE SectInv'
  BY <1>10 DEF FreeBlock, coreVars, incVars, Outside, SectionsRecorded
<1> QED
  BY <1>1, <1>3, <1>4, <1>5, <1>6, <1>7, <1>8, <1>9, <1>10
  DEF LifecycleNext, GC_new_kind, GC_init_finalized_malloc, GC_init_gcj_malloc_mp, AllocateFor,
      AllocateKind, GC_change_kind_descriptor, coreVars

(* The state of the static data when the program starts. *)
LEMMA InitInv ==
    ASSUME LifecycleInit
    PROVE  LifeInv
<1>1. /\ StandardKinds \in Seq([owner : Owners, descr : KDescr])
      /\ \A i \in DOMAIN StandardKinds : StandardKinds[i].owner = "gc"
  BY DEF StandardKinds, Kind, Owners, KDescr
<1>2. Tables
  BY <1>1 DEF LifecycleInit, Tables, Headers, NoBlock, KDescr
<1>3. KindInv
  BY <1>1, <1>2, ZenonT(30) DEF LifecycleInit, KindInv, NoKindsBefore, KindsOwn, BlockKinds, BlockDescrCurrent,
                    Facility
<1>4. Outside
  <2>1. is_initialized \in BOOLEAN /\ incremental \in BOOLEAN /\ isolate \in BOOLEAN
    BY Zenon DEF LifecycleInit
  <2>2. /\ sects = {} /\ flags = {} /\ hblks = [b \in KBlk |-> NoBlock]
        /\ typing \in [LThr -> {"out", "locking"}] /\ \A t \in LThr : typing[t] # "locking"
    BY DEF LifecycleInit
  <2> QED
    BY <2>1, <2>2, Zenon DEF Outside
<1>5. SectionsRecorded
  BY DEF LifecycleInit, SectionsRecorded
<1> QED
  BY <1>3, <1>4, <1>5 DEF LifeInv, SectInv

-----------------------------------------------------------------------------
(* The theorems. *)

(* The invariant holds through every sequence of GC_init, GC_enable_incremental, *)
(* GC_deinit, first uses of the facilities and changes of descriptors.           *)
THEOREM LifeInvariant == LifecycleSpec => []LifeInv
<1>1. LifecycleInit => LifeInv
  BY InitInv
<1>2. LifeInv /\ UNCHANGED lifeVars => LifeInv'
  BY DEF lifeVars, coreVars, incVars, kindVars, LifeInv, KindInv, Tables, NoKindsBefore, KindsOwn,
         BlockKinds, BlockDescrCurrent, SectInv, Outside, SectionsRecorded
<1>3. LifeInv /\ LifecycleNext => LifeInv'
  BY KindStep, SectStep DEF LifeInv
<1> QED
  BY <1>1, <1>2, <1>3, PTL DEF LifecycleSpec

(* GC_deinit clears GC_arrays and the tables but not the indices a facility keeps  *)
(* in static variables, and GC_make_descriptor tests its flag without the lock:    *)
(* still a facility only ever uses kinds and mark procedures of this life and of   *)
(* its own, every header has its kind's current descriptor, and the cross-isolate  *)
(* registry names the sections of the living incremental instance and no others.   *)
THEOREM LivesStayApart == LifecycleSpec => []LivesApart
<1>1. LifeInv => LivesApart
  BY DEF LifeInv, KindInv, SectInv, LivesApart
<1> QED
  BY <1>1, LifeInvariant, PTL
=============================================================================
