------------------------- MODULE TinyFreeListsProofs -------------------------
(***************************************************************************)
(* The thread-local free lists (TinyFreeLists.tla) for any number of       *)
(* threads, markers, objects and blocks: GC_fl_builder_count counts the    *)
(* threads that build a list without the allocator lock, so that who       *)
(* waited for it finds none, and no object is ever in two places.          *)
(***************************************************************************)
EXTENDS TinyFreeLists, FiniteSetTheorems, TLAPS

-----------------------------------------------------------------------------
(* The inductive invariant. *)

Builders == {t \in TThr : tpc[t] \in Building}
NotUp == MarkThr \ markersUp

\* The counter: the builders and the marker threads that are not up yet, once
\* GC_wait_for_markers_init has added them.
CountExact ==
    GC_fl_builder_count = Cardinality(Builders) + Cardinality(NotUp)
                          - (IF phase = "start" THEN Cardinality(MarkThr) ELSE 0)

\* Nobody builds before the wait for the markers is over.
StartAlone == phase \in {"start", "startwait"} => Builders = {}

\* A thread that is not registered has nothing and builds nothing, and who sweeps
\* or builds has a block.
ThreadsSane ==
    \A t \in TThr :
        /\ t \notin threadsIn => tpc[t] = "run" /\ using[t] = {} /\ tiny[t] = {}
        /\ tpc[t] \in {"sweep", "build"} => tblk[t] \in TBlk

\* After the marking, and before the sweep, all that a thread has is marked.
MarkedKept == phase = "marked" => \A t \in TThr : using[t] \cup tiny[t] \subseteq tmarks

CountInv == CountExact /\ StartAlone /\ MarkersUpWhenStarted /\ NoBuilderInCollection
PlaceInv == ThreadsSane /\ MarkedKept /\ OnePlace
TinyInv == TinyTypeOK /\ CountInv /\ PlaceInv

-----------------------------------------------------------------------------
(* Every step keeps it. *)
(* The default provers in their order, then SMT once more with more time. *)
USE SMT, Zenon, SMTT(30)
USE DEF threadVarsT, objVars, waitVars

(* Types are kept. *)
LEMMA TypeStep ==
    ASSUME TinyFreeListsAssumption, TinyInv, TinyNext
    PROVE  TinyTypeOK'
<1> USE DEF TinyInv, TinyTypeOK, TinyFreeListsAssumption, Building, Phases,
   CanRun, Running
<1>1. ASSUME NEW t \in TThr, NEW o \in TObj, FastAlloc(t, o) PROVE TinyTypeOK'
  BY <1>1 DEF FastAlloc
<1>2. ASSUME NEW t \in TThr, NEW o \in TObj, DropObj(t, o) PROVE TinyTypeOK'
  BY <1>2 DEF DropObj
<1>3. ASSUME NEW t \in TThr, NEW o \in TObj, GlobalAlloc(t, o) PROVE TinyTypeOK'
  BY <1>3 DEF GlobalAlloc, In
<1>4. ASSUME NEW t \in TThr, MallocMany(t) PROVE TinyTypeOK'
  BY <1>4 DEF MallocMany
<1>5. ASSUME NEW t \in TThr, ManyLocked(t) PROVE TinyTypeOK'
  BY <1>5 DEF ManyLocked, TakeBlock
<1>6. ASSUME NEW t \in TThr, BuildList(t) PROVE TinyTypeOK'
  <2>1. tiny' \in [TThr -> SUBSET TObj]
    BY <1>6 DEF BuildList, In
  <2>2. tpc' \in [TThr -> {"run", "many"} \cup Building] /\ tblk' \in [TThr -> TBlk \cup {NoBlk}]
    BY <1>6 DEF BuildList
  <2> QED
    BY <1>6, <2>1, <2>2 DEF BuildList
<1>7. ASSUME NEW t \in TThr, BuilderDone(t) PROVE TinyTypeOK'
  BY <1>7 DEF BuilderDone
<1>8. ASSUME NEW t \in TThr, Leave(t) PROVE TinyTypeOK'
  BY <1>8 DEF Leave
<1>9. ASSUME NEW t \in TThr, Join(t) PROVE TinyTypeOK'
  BY <1>9 DEF Join
<1>10. ASSUME NEW t \in TThr, CollectLock(t) PROVE TinyTypeOK'
  BY <1>10 DEF CollectLock
<1>11. ASSUME NEW t \in TThr, NEW u \in TThr, SuspendLock(t, u) PROVE TinyTypeOK'
  BY <1>11 DEF SuspendLock
<1>12. ASSUME NEW t \in TThr, NEW u \in TThr, ResumeFrozen(t, u) PROVE TinyTypeOK'
  BY <1>12 DEF ResumeFrozen
<1>13. ASSUME NEW h \in MarkThr, MarkerUp(h) PROVE TinyTypeOK'
  BY <1>13 DEF MarkerUp
<1>14. ASSUME AddMarkers PROVE TinyTypeOK'
  BY <1>14 DEF AddMarkers
<1>15. ASSUME MarkersStarted PROVE TinyTypeOK'
  BY <1>15 DEF MarkersStarted
<1>16. ASSUME StoppedMark PROVE TinyTypeOK'
  BY <1>16 DEF StoppedMark, Reachable
<1>17. ASSUME FinishSweep PROVE TinyTypeOK'
  BY <1>17 DEF FinishSweep
<1>18. ASSUME SuspendAfterWait PROVE TinyTypeOK'
  BY <1>18 DEF SuspendAfterWait
<1>19. ASSUME WaitBuilder PROVE TinyTypeOK'
  BY <1>19 DEF WaitBuilder
<1> QED
  BY <1>1, <1>2, <1>3, <1>4, <1>5, <1>6, <1>7, <1>8, <1>9, <1>10, <1>11,
     <1>12, <1>13, <1>14, <1>15, <1>16, <1>17, <1>18, <1>19, ZenonT(30)
  DEF TinyNext, HolderStep

(* What the counter says: the numbers are natural, and zero for empty sets only. *)
LEMMA CountFacts ==
    ASSUME TinyFreeListsAssumption, TinyTypeOK
    PROVE  /\ IsFiniteSet(Builders) /\ Cardinality(Builders) \in Nat
           /\ IsFiniteSet(NotUp) /\ Cardinality(NotUp) \in Nat
           /\ Cardinality(MarkThr) \in Nat
           /\ Cardinality(Builders) = 0 => Builders = {}
           /\ Cardinality(NotUp) = 0 => NotUp = {}
<1>1. IsFiniteSet(Builders) /\ IsFiniteSet(NotUp) /\ IsFiniteSet(MarkThr)
  <2>1. Builders \subseteq TThr /\ NotUp \subseteq MarkThr
    BY DEF Builders, NotUp
  <2> QED
    BY <2>1, FS_Subset DEF TinyFreeListsAssumption
<1> QED
  BY <1>1, FS_CardinalityType, FS_EmptySet

(* Who finds the counter at zero finds nobody building, and all markers up. *)
LEMMA OverMeansNone ==
    ASSUME TinyFreeListsAssumption, TinyTypeOK, CountExact, ReclaimOver, phase # "start"
    PROVE  Builders = {} /\ NotUp = {}
<1>1. Cardinality(Builders) + Cardinality(NotUp) <= 0
  BY CountFacts DEF CountExact, ReclaimOver
<1> QED
  BY <1>1, CountFacts

(* The counter stays exact. *)
LEMMA CountStep ==
    ASSUME TinyFreeListsAssumption, TinyInv, TinyNext
    PROVE  CountInv'
<1> USE DEF TinyInv, TinyTypeOK, CountInv, CountExact, StartAlone,
   MarkersUpWhenStarted, NoBuilderInCollection, Builders, NotUp, Building,
   CanRun, Running
<1>1. ASSUME NEW t \in TThr, NEW o \in TObj, FastAlloc(t, o) PROVE CountInv'
  BY <1>1 DEF FastAlloc
<1>2. ASSUME NEW t \in TThr, NEW o \in TObj, DropObj(t, o) PROVE CountInv'
  BY <1>2 DEF DropObj
<1>3. ASSUME NEW t \in TThr, NEW o \in TObj, GlobalAlloc(t, o) PROVE CountInv'
  BY <1>3 DEF GlobalAlloc
<1>4. ASSUME NEW t \in TThr, MallocMany(t) PROVE CountInv'
  BY <1>4, ZenonT(30) DEF MallocMany
<1>5. ASSUME NEW t \in TThr, ManyLocked(t) PROVE CountInv'
  <2>1. ASSUME NEW b \in TBlk, NEW p \in Building, TakeBlock(t, b, p) PROVE CountInv'
    <3>1. Builders' = Builders \cup {t} /\ t \notin Builders /\ NotUp' = NotUp
      BY <1>5, <2>1 DEF ManyLocked, TakeBlock
    <3> HIDE DEF Builders, NotUp
    <3>2. Cardinality(Builders') = Cardinality(Builders) + 1
      BY <3>1, CountFacts, FS_AddElement, ZenonT(30)
    <3> QED
      BY <1>5, <2>1, <3>1, <3>2, CountFacts DEF ManyLocked, TakeBlock
  <2>2. ASSUME Builders' = Builders, UNCHANGED GC_fl_builder_count PROVE CountInv'
    BY <1>5, <2>2, ZenonT(30) DEF ManyLocked
  <2>3. ASSUME tpc' = [tpc EXCEPT ![t] = "run"] PROVE Builders' = Builders
    BY <1>5, <2>3 DEF ManyLocked
  <2> QED
    BY <1>5, <2>1, <2>2, <2>3, ZenonT(30) DEF ManyLocked
<1>6. ASSUME NEW t \in TThr, BuildList(t) PROVE CountInv'
  BY <1>6, ZenonT(30) DEF BuildList
<1>7. ASSUME NEW t \in TThr, BuilderDone(t) PROVE CountInv'
  <2>1. Builders' = Builders \ {t} /\ t \in Builders /\ NotUp' = NotUp
    BY <1>7 DEF BuilderDone
  <2> HIDE DEF Builders, NotUp
  <2>2. Cardinality(Builders') = Cardinality(Builders) - 1
    BY <2>1, CountFacts, FS_RemoveElement, ZenonT(30)
  <2> QED
    BY <1>7, <2>1, <2>2, CountFacts DEF BuilderDone
<1>8. ASSUME NEW t \in TThr, Leave(t) PROVE CountInv'
  BY <1>8 DEF Leave
<1>9. ASSUME NEW t \in TThr, Join(t) PROVE CountInv'
  BY <1>9 DEF Join
<1>10. ASSUME NEW t \in TThr, CollectLock(t) PROVE CountInv'
  BY <1>10 DEF CollectLock
<1>11. ASSUME NEW t \in TThr, NEW u \in TThr, SuspendLock(t, u) PROVE CountInv'
  BY <1>11 DEF SuspendLock
<1>12. ASSUME NEW t \in TThr, NEW u \in TThr, ResumeFrozen(t, u) PROVE CountInv'
  BY <1>12 DEF ResumeFrozen
<1>13. ASSUME NEW h \in MarkThr, MarkerUp(h) PROVE CountInv'
  <2>1. Builders' = Builders /\ h \in NotUp /\ NotUp' = NotUp \ {h}
    BY <1>13 DEF MarkerUp
  <2> HIDE DEF Builders, NotUp
  <2>2. Cardinality(NotUp') = Cardinality(NotUp) - 1
    BY <2>1, CountFacts, FS_RemoveElement, ZenonT(30)
  <2>3. CountExact'
    BY <1>13, <2>1, <2>2, CountFacts DEF MarkerUp
  <2>4. phase \in {"start", "startwait"}
    BY <1>13 DEF MarkerUp
  <2> QED
    BY <1>13, <2>1, <2>3, <2>4 DEF MarkerUp
<1>14. ASSUME AddMarkers PROVE CountInv'
  <2>1. Builders' = Builders /\ NotUp' = NotUp
    BY <1>14 DEF AddMarkers
  <2> QED
    BY <1>14, <2>1, CountFacts DEF AddMarkers
<1>15. ASSUME MarkersStarted PROVE CountInv'
  <2>1. NotUp = {}
    BY <1>15, OverMeansNone DEF MarkersStarted
  <2> QED
    BY <1>15, <2>1 DEF MarkersStarted
<1>16. ASSUME StoppedMark PROVE CountInv'
  <2>1. Builders = {}
    BY <1>16, OverMeansNone DEF StoppedMark, Reachable
  <2> QED
    BY <1>16, <2>1 DEF StoppedMark, Reachable
<1>17. ASSUME FinishSweep PROVE CountInv'
  BY <1>17 DEF FinishSweep
<1>18. ASSUME SuspendAfterWait PROVE CountInv'
  <2>1. Builders = {}
    BY <1>18, OverMeansNone DEF SuspendAfterWait
  <2> QED
    BY <1>18, <2>1 DEF SuspendAfterWait
<1>19. ASSUME WaitBuilder PROVE CountInv'
  BY <1>19 DEF WaitBuilder
<1> QED
  BY <1>1, <1>2, <1>3, <1>4, <1>5, <1>6, <1>7, <1>8, <1>9, <1>10, <1>11,
     <1>12, <1>13, <1>14, <1>15, <1>16, <1>17, <1>18, <1>19, ZenonT(30)
  DEF TinyNext, HolderStep

(* Threads outside have nothing, and marks stand for what threads have. *)
LEMMA SaneStep ==
    ASSUME TinyFreeListsAssumption, TinyInv, TinyNext
    PROVE  (ThreadsSane /\ MarkedKept)'
<1> USE DEF TinyInv, TinyTypeOK, TinyFreeListsAssumption, PlaceInv, CountInv,
   NoBuilderInCollection, ThreadsSane, MarkedKept, Building, CanRun, Running
<1>1. ASSUME NEW t \in TThr, NEW o \in TObj, FastAlloc(t, o) PROVE (ThreadsSane /\ MarkedKept)'
  BY <1>1 DEF FastAlloc
<1>2. ASSUME NEW t \in TThr, NEW o \in TObj, DropObj(t, o) PROVE (ThreadsSane /\ MarkedKept)'
  BY <1>2 DEF DropObj
<1>3. ASSUME NEW t \in TThr, NEW o \in TObj, GlobalAlloc(t, o) PROVE (ThreadsSane /\ MarkedKept)'
  BY <1>3 DEF GlobalAlloc
<1>4. ASSUME NEW t \in TThr, MallocMany(t) PROVE (ThreadsSane /\ MarkedKept)'
  BY <1>4 DEF MallocMany
<1>5. ASSUME NEW t \in TThr, ManyLocked(t) PROVE (ThreadsSane /\ MarkedKept)'
  BY <1>5 DEF ManyLocked, TakeBlock
<1>6. ASSUME NEW t \in TThr, BuildList(t) PROVE (ThreadsSane /\ MarkedKept)'
  BY <1>6 DEF BuildList
<1>7. ASSUME NEW t \in TThr, BuilderDone(t) PROVE (ThreadsSane /\ MarkedKept)'
  BY <1>7 DEF BuilderDone
<1>8. ASSUME NEW t \in TThr, Leave(t) PROVE (ThreadsSane /\ MarkedKept)'
  BY <1>8 DEF Leave
<1>9. ASSUME NEW t \in TThr, Join(t) PROVE (ThreadsSane /\ MarkedKept)'
  BY <1>9 DEF Join
<1>10. ASSUME NEW t \in TThr, CollectLock(t) PROVE (ThreadsSane /\ MarkedKept)'
  BY <1>10 DEF CollectLock
<1>11. ASSUME NEW t \in TThr, NEW u \in TThr, SuspendLock(t, u) PROVE (ThreadsSane /\ MarkedKept)'
  BY <1>11 DEF SuspendLock
<1>12. ASSUME NEW t \in TThr, NEW u \in TThr, ResumeFrozen(t, u) PROVE (ThreadsSane /\ MarkedKept)'
  BY <1>12 DEF ResumeFrozen
<1>13. ASSUME NEW h \in MarkThr, MarkerUp(h) PROVE (ThreadsSane /\ MarkedKept)'
  BY <1>13 DEF MarkerUp
<1>14. ASSUME AddMarkers PROVE (ThreadsSane /\ MarkedKept)'
  BY <1>14 DEF AddMarkers
<1>15. ASSUME MarkersStarted PROVE (ThreadsSane /\ MarkedKept)'
  BY <1>15 DEF MarkersStarted
<1>16. ASSUME StoppedMark PROVE (ThreadsSane /\ MarkedKept)'
  BY <1>16 DEF StoppedMark, Reachable
<1>17. ASSUME FinishSweep PROVE (ThreadsSane /\ MarkedKept)'
  BY <1>17 DEF FinishSweep
<1>18. ASSUME SuspendAfterWait PROVE (ThreadsSane /\ MarkedKept)'
  BY <1>18 DEF SuspendAfterWait
<1>19. ASSUME WaitBuilder PROVE (ThreadsSane /\ MarkedKept)'
  BY <1>19 DEF WaitBuilder
<1> QED
  BY <1>1, <1>2, <1>3, <1>4, <1>5, <1>6, <1>7, <1>8, <1>9, <1>10, <1>11,
     <1>12, <1>13, <1>14, <1>15, <1>16, <1>17, <1>18, <1>19, ZenonT(30)
  DEF TinyNext, HolderStep

(* A step that moves no object and no block leaves every object in its place. *)
LEMMA PlacesStay ==
    ASSUME OnePlace, UNCHANGED objVars, tblk' = tblk,
           phase # "marked" \/ phase' = phase,
           \A t \in TThr : \/ tpc'[t] = tpc[t]
                          \/ {tpc[t], tpc'[t]} \cap {"sweep", "build"} = {}
    PROVE  OnePlace'
<1>1. ASSUME NEW t \in TThr PROVE Taken(t)' = Taken(t)
  BY ZenonT(30) DEF Taken
<1>2. globalFl' = globalFl /\ InFree' = InFree /\ ToSweep' \subseteq ToSweep
  BY DEF InFree, ToSweep
<1>3. \A t \in TThr : Own(t)' = Own(t)
  BY <1>1 DEF Own
<1> QED
  BY <1>1, <1>2, <1>3 DEF OnePlace

(* No step puts an object into a second place. *)
LEMMA OnePlaceStep ==
    ASSUME TinyFreeListsAssumption, TinyInv, TinyNext
    PROVE  OnePlace'
<1> OnePlace /\ TinyTypeOK
  BY DEF TinyInv, PlaceInv
<1> USE DEF CanRun, Running
<1>1. ASSUME NEW t \in TThr, NEW o \in TObj, FastAlloc(t, o) PROVE OnePlace'
  BY <1>1, SMTT(60)
  DEF FastAlloc, TinyTypeOK, OnePlace, Own, Taken, InFree, ToSweep
<1>2. ASSUME NEW t \in TThr, NEW o \in TObj, DropObj(t, o) PROVE OnePlace'
  BY <1>2, SMTT(60)
  DEF DropObj, TinyTypeOK, OnePlace, Own, Taken, InFree, ToSweep
<1>3. ASSUME NEW t \in TThr, NEW o \in TObj, GlobalAlloc(t, o) PROVE OnePlace'
  BY <1>3, SMTT(60)
  DEF GlobalAlloc, In, TinyTypeOK, OnePlace, Own, Taken, InFree, ToSweep
<1>4. ASSUME NEW t \in TThr, MallocMany(t) PROVE OnePlace'
  BY <1>4, PlacesStay DEF MallocMany, TinyTypeOK
<1>5. ASSUME NEW t \in TThr, ManyLocked(t) PROVE OnePlace'
  BY <1>5, SMTT(60)
  DEF ManyLocked, TakeBlock, In, TinyTypeOK, OnePlace, Own, Taken, InFree, ToSweep
<1>6. ASSUME NEW t \in TThr, BuildList(t) PROVE OnePlace'
  BY <1>6, SMTT(60)
  DEF BuildList, In, TinyTypeOK, OnePlace, Own, Taken, InFree, ToSweep
<1>7. ASSUME NEW t \in TThr, BuilderDone(t) PROVE OnePlace'
  BY <1>7, PlacesStay DEF BuilderDone, TinyTypeOK
<1>8. ASSUME NEW t \in TThr, Leave(t) PROVE OnePlace'
  BY <1>8, SMTT(60)
  DEF Leave, TinyTypeOK, OnePlace, Own, Taken, InFree, ToSweep
<1>9. ASSUME NEW t \in TThr, Join(t) PROVE OnePlace'
  BY <1>9, PlacesStay DEF Join
<1>10. ASSUME NEW t \in TThr, CollectLock(t) PROVE OnePlace'
  BY <1>10, PlacesStay DEF CollectLock, TinyTypeOK
<1>11. ASSUME NEW t \in TThr, NEW u \in TThr, SuspendLock(t, u) PROVE OnePlace'
  BY <1>11, PlacesStay DEF SuspendLock, TinyTypeOK
<1>12. ASSUME NEW t \in TThr, NEW u \in TThr, ResumeFrozen(t, u) PROVE OnePlace'
  BY <1>12, PlacesStay DEF ResumeFrozen
<1>13. ASSUME NEW h \in MarkThr, MarkerUp(h) PROVE OnePlace'
  BY <1>13, PlacesStay DEF MarkerUp
<1>14. ASSUME AddMarkers PROVE OnePlace'
  BY <1>14, PlacesStay DEF AddMarkers
<1>15. ASSUME MarkersStarted PROVE OnePlace'
  BY <1>15, PlacesStay DEF MarkersStarted
<1>16. ASSUME StoppedMark PROVE OnePlace'
  <2>1. Builders = {}
    BY <1>16, OverMeansNone DEF TinyInv, CountInv, StoppedMark
  <2> QED
    BY <1>16, <2>1, SMTT(60)
    DEF StoppedMark, Builders, Building, TinyTypeOK, OnePlace, Own, Taken, InFree, ToSweep
<1>17. ASSUME FinishSweep PROVE OnePlace'
  BY <1>17, SMTT(60)
  DEF FinishSweep, TinyInv, PlaceInv, MarkedKept, CountInv, NoBuilderInCollection, Building, In,
      TinyTypeOK, OnePlace, Own, Taken, InFree, ToSweep
<1>18. ASSUME SuspendAfterWait PROVE OnePlace'
  BY <1>18, PlacesStay DEF SuspendAfterWait
<1>19. ASSUME WaitBuilder PROVE OnePlace'
  BY <1>19, PlacesStay DEF WaitBuilder
<1> QED
  BY <1>1, <1>2, <1>3, <1>4, <1>5, <1>6, <1>7, <1>8, <1>9, <1>10, <1>11,
     <1>12, <1>13, <1>14, <1>15, <1>16, <1>17, <1>18, <1>19, ZenonT(30)
  DEF TinyNext, HolderStep

-----------------------------------------------------------------------------
(* The theorems. *)

(* GC_init, with the marker threads still to come up, establishes the invariant. *)
LEMMA InitInv ==
    ASSUME TinyFreeListsAssumption, TinyInit
    PROVE  TinyInv
<1>1. TinyTypeOK
  <2>1. /\ tpc \in [TThr -> {"run", "many"} \cup Building]
        /\ tblk \in [TThr -> TBlk \cup {NoBlk}] /\ direct \in [TThr -> 0 .. NumDirect]
        /\ tiny \in [TThr -> SUBSET TObj] /\ using \in [TThr -> SUBSET TObj]
    BY DEF TinyInit, TinyFreeListsAssumption
  <2>2. builderAsleep \in BOOLEAN
    BY ZenonT(30) DEF TinyInit
  <2>3. /\ threadsIn \subseteq TThr /\ frozen \subseteq TThr
        /\ globalFl \subseteq TObj /\ tmarks \subseteq TObj
        /\ reclaimBlks \subseteq TBlk /\ freeBlks \subseteq TBlk
        /\ GC_fl_builder_count \in Int /\ markersUp \subseteq MarkThr
        /\ holder \in TThr \cup {NoOne} /\ phase \in Phases /\ (holder = NoOne <=> phase = "none")
        /\ target \in TThr \cup {NoOne} /\ (phase = "suspend" => target \in TThr)
    BY DEF TinyInit, TinyFreeListsAssumption, Phases
  <2> QED
    BY <2>1, <2>2, <2>3, Zenon DEF TinyTypeOK
<1>2. CountInv
  <2>1. Builders = {} /\ NotUp = MarkThr
    BY DEF TinyInit, Builders, NotUp, Building
  <2>2. CountExact
    BY <1>1, <2>1, CountFacts, FS_EmptySet DEF TinyInit, CountExact
  <2> QED
    BY <2>1, <2>2
    DEF TinyInit, CountInv, StartAlone, MarkersUpWhenStarted, NoBuilderInCollection
<1>3. PlaceInv
  BY ZenonT(30) DEF TinyInit, PlaceInv, ThreadsSane, MarkedKept, OnePlace, Own, Taken, InFree, ToSweep
<1> QED
  BY <1>1, <1>2, <1>3 DEF TinyInv

(* A step that changes nothing keeps it. *)
LEMMA StutterInv ==
    ASSUME TinyInv, UNCHANGED tinyVars
    PROVE  TinyInv'
<1> USE DEF tinyVars
<1>1. TinyTypeOK'
  BY DEF TinyInv, TinyTypeOK
<1>2. CountInv'
  BY DEF TinyInv, CountInv, CountExact, StartAlone, MarkersUpWhenStarted, NoBuilderInCollection,
         Builders, NotUp
<1>3. PlaceInv'
  BY DEF TinyInv, PlaceInv, ThreadsSane, MarkedKept, OnePlace, Own, Taken, InFree, ToSweep
<1> QED
  BY <1>1, <1>2, <1>3 DEF TinyInv

(* The invariant holds in every behaviour of GC_malloc, GC_generic_malloc_many,   *)
(* the collections, the suspensions and the start of the marker threads.          *)
THEOREM TinyInvariant == TinyFreeListsAssumption /\ TinySpec => []TinyInv
<1> SUFFICES ASSUME TinyFreeListsAssumption PROVE TinySpec => []TinyInv
  OBVIOUS
<1>1. TinyInit => TinyInv
  BY InitInv
<1>2. TinyInv /\ [TinyNext]_tinyVars => TinyInv'
  BY TypeStep, CountStep, SaneStep, OnePlaceStep, StutterInv DEF TinyInv, PlaceInv
<1> QED
  BY <1>1, <1>2, PTL DEF TinySpec

(* GC_FAST_MALLOC_GRANS takes objects from a thread's list, and                   *)
(* GC_generic_malloc_many sweeps and builds, without the allocator lock; still no *)
(* object is ever on two lists, in two hands, or both free and in use.            *)
THEOREM ObjectsInOnePlace == TinyFreeListsAssumption /\ TinySpec => []OnePlace
<1>1. TinyInv => OnePlace
  BY DEF TinyInv, PlaceInv
<1> QED
  BY <1>1, TinyInvariant, PTL

(* GC_wait_for_reclaim works: nobody builds a list while marks are made and the   *)
(* sweep is started, and GC_suspend_thread suspends nobody who builds.            *)
THEOREM WaitIsSufficient == TinyFreeListsAssumption /\ TinySpec => []NoBuilderInCollection
<1>1. TinyInv => NoBuilderInCollection
  BY DEF TinyInv, CountInv
<1> QED
  BY <1>1, TinyInvariant, PTL

(* GC_wait_for_markers_init returns with all markers up, although it adds their   *)
(* number to GC_fl_builder_count after some of them may have decremented it.      *)
THEOREM MarkersAreUp == TinyFreeListsAssumption /\ TinySpec => []MarkersUpWhenStarted
<1>1. TinyInv => MarkersUpWhenStarted
  BY DEF TinyInv, CountInv
<1> QED
  BY <1>1, TinyInvariant, PTL
=============================================================================
