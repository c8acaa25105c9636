---------------------------- MODULE Win32Events ----------------------------
(***************************************************************************)
(* The mark lock and the condition variables of win32_threads.c.  The lock *)
(* is a word exchanged atomically and an auto-reset event for those who    *)
(* find it taken; pthread_cond_wait and pthread_cond_broadcast are         *)
(* emulated with events that are reset by hand, one for each mark helper,  *)
(* one for the other markers (mark_cv) and one for those who wait for the  *)
(* builders of free lists (builder_cv).                                    *)
(*                                                                         *)
(* The users of the lock are the builders and the one who waits for them,  *)
(* and the marker and its helpers; what they do with the lock held is      *)
(* abstracted to the counts that they wait for.                            *)
(***************************************************************************)
EXTENDS Integers

CONSTANTS
    Builder,       \* threads that build free lists (GC_generic_malloc_many)
    Waiter,        \* the thread that holds the allocator lock and waits
    Marker_,       \* the thread that marks (GC_do_parallel_mark)
    Helper,        \* the mark helper threads
    MaxEventRounds \* bound on the lists built and waited for, and on
                   \* the markings

EThr == Builder \union Helper \union {Waiter, Marker_}

\* What is assumed of the constants: each part is played by a thread of its own.
Win32EventsAssumption ==
    /\ Waiter # Marker_ /\ {Waiter, Marker_} \cap (Builder \union Helper) = {}
    /\ Builder \cap Helper = {} /\ MaxEventRounds \in Nat

VARIABLES
    GC_mark_mutex_state, \* 0 unlocked, 1 locked, -1 waiters may exist
    mark_mutex_event, builder_cv, mark_cv, GC_marker_cv,
    pc, then,            \* where a thread is, and where it goes afterwards
    fl_builder_count, help_wanted, helper_count, mark_no, my_mark_no,
    builds

eventVars == <<GC_mark_mutex_state, mark_mutex_event, builder_cv, mark_cv,
               GC_marker_cv, pc, then, fl_builder_count, help_wanted,
               helper_count, mark_no, my_mark_no, builds>>

events == <<builder_cv, mark_cv, GC_marker_cv>>
lockWord == <<GC_mark_mutex_state, mark_mutex_event>>
counts == <<fl_builder_count, help_wanted, helper_count, mark_no, my_mark_no, builds>>

\* Places where a thread has the lock.
Critical == {"build", "built", "check", "post", "finish", "help", "helped", "unlock"}
Resting == {"idle", "waith"}
EventPcs == Critical \union Resting
            \union {"lock", "again", "wait", "signal", "building", "waitcv",
                    "mark", "waitmk", "notify", "helping"}

Win32EventsTypeOK ==
    /\ GC_mark_mutex_state \in {-1, 0, 1} /\ mark_mutex_event \in BOOLEAN
    /\ builder_cv \in BOOLEAN /\ mark_cv \in BOOLEAN
    /\ GC_marker_cv \in [Helper -> BOOLEAN]
    /\ pc \in [EThr -> EventPcs] /\ then \in [EThr -> EventPcs]
    /\ fl_builder_count \in Int /\ helper_count \in Int
    /\ help_wanted \in BOOLEAN /\ mark_no \in Nat /\ my_mark_no \in [Helper -> Nat]
    /\ builds \in 0 .. MaxEventRounds

Win32EventsInit ==
    /\ GC_mark_mutex_state = 0 /\ mark_mutex_event = FALSE
    /\ builder_cv = FALSE /\ mark_cv = FALSE
    /\ GC_marker_cv = [h \in Helper |-> FALSE]
    /\ pc = [t \in EThr |-> IF t \in Helper THEN "lock" ELSE "idle"]
    /\ then = [t \in EThr |-> IF t \in Helper THEN "help" ELSE "idle"]
    /\ fl_builder_count = 0 /\ help_wanted = FALSE /\ helper_count = 0
    /\ mark_no = 0 /\ my_mark_no = [h \in Helper |-> 0] /\ builds = 0

\* Calls GC_acquire_mark_lock or GC_release_mark_lock and then goes to a place.
Call(t, from, routine, place) ==
    /\ pc[t] = from /\ pc' = [pc EXCEPT ![t] = routine]
    /\ then' = [then EXCEPT ![t] = place]

-----------------------------------------------------------------------------
(* GC_acquire_mark_lock and GC_release_mark_lock.                          *)

FirstExchange(t) ==
    /\ pc[t] = "lock" /\ GC_mark_mutex_state' = 1
    /\ pc' = [pc EXCEPT ![t] = IF GC_mark_mutex_state = 0 THEN then[t] ELSE "again"]
    /\ UNCHANGED <<mark_mutex_event, events, then, counts>>

\* A mutant: who waits does not leave word that it does.
ExchangeAgainPlain(t) ==
    /\ pc[t] = "again" /\ GC_mark_mutex_state' = 1
    /\ pc' = [pc EXCEPT ![t] = IF GC_mark_mutex_state = 0 THEN then[t] ELSE "wait"]
    /\ UNCHANGED <<mark_mutex_event, events, then, counts>>

\* Exchanges MARK_MUTEX_WAITERS_EXIST until the lock was free.
ExchangeAgain(t) ==
    /\ pc[t] = "again" /\ GC_mark_mutex_state' = -1
    /\ pc' = [pc EXCEPT ![t] = IF GC_mark_mutex_state = 0 THEN then[t] ELSE "wait"]
    /\ UNCHANGED <<mark_mutex_event, events, then, counts>>

\* WaitForSingleObject(mark_mutex_event) resets the event.
AwaitMutex(t) ==
    /\ pc[t] = "wait" /\ mark_mutex_event /\ mark_mutex_event' = FALSE
    /\ pc' = [pc EXCEPT ![t] = "again"]
    /\ UNCHANGED <<GC_mark_mutex_state, events, then, counts>>

ReleaseExchange(t) ==
    /\ pc[t] = "unlock" /\ GC_mark_mutex_state' = 0
    /\ pc' = [pc EXCEPT ![t] = IF GC_mark_mutex_state < 0 THEN "signal" ELSE then[t]]
    /\ UNCHANGED <<mark_mutex_event, events, then, counts>>

WakeWaiter(t) ==
    /\ pc[t] = "signal" /\ mark_mutex_event' = TRUE
    /\ pc' = [pc EXCEPT ![t] = then[t]]
    /\ UNCHANGED <<GC_mark_mutex_state, events, then, counts>>

-----------------------------------------------------------------------------
(* The builders of free lists, and GC_wait_for_reclaim.                    *)

\* GC_generic_malloc_many begins with the allocator lock held.
BuilderBegins(t) ==
    /\ builds < MaxEventRounds /\ pc[Waiter] = "idle" /\ Call(t, "idle", "lock", "build")
    /\ builds' = builds + 1
    /\ UNCHANGED <<lockWord, events, fl_builder_count, help_wanted, helper_count,
                   mark_no, my_mark_no>>

BuilderCounts(t) ==
    /\ Call(t, "build", "unlock", "building")
    /\ fl_builder_count' = fl_builder_count + 1
    /\ UNCHANGED <<lockWord, events, help_wanted, helper_count, mark_no, my_mark_no, builds>>

BuilderEnds(t) ==
    /\ Call(t, "building", "lock", "built")
    /\ UNCHANGED <<lockWord, events, counts>>

\* GC_notify_all_builder if this was the last one.
BuilderNotifies(t) ==
    /\ Call(t, "built", "unlock", "idle")
    /\ fl_builder_count' = fl_builder_count - 1
    /\ builder_cv' = (builder_cv \/ fl_builder_count = 1)
    /\ UNCHANGED <<lockWord, mark_cv, GC_marker_cv, help_wanted, helper_count,
                   mark_no, my_mark_no, builds>>

\* The allocator lock keeps builders that have not counted yet from starting.
WaitBegins ==
    /\ \A b \in Builder : ~(pc[b] \in {"lock", "again", "wait"} /\ then[b] = "build")
                          /\ pc[b] # "build"
    /\ builds < MaxEventRounds /\ Call(Waiter, "idle", "lock", "check")
    /\ builds' = builds + 1
    /\ UNCHANGED <<lockWord, events, fl_builder_count, help_wanted, helper_count,
                   mark_no, my_mark_no>>

\* Looks at the count with the lock held, and resets the event with it.
GC_wait_for_reclaim ==
    /\ \/ /\ fl_builder_count = 0 /\ Call(Waiter, "check", "unlock", "idle")
          /\ UNCHANGED events
       \/ /\ fl_builder_count # 0 /\ Call(Waiter, "check", "unlock", "waitcv")
          /\ builder_cv' = FALSE /\ UNCHANGED <<mark_cv, GC_marker_cv>>
       \/ /\ builder_cv /\ Call(Waiter, "waitcv", "lock", "check")
          /\ UNCHANGED events
    /\ UNCHANGED <<lockWord, counts>>

-----------------------------------------------------------------------------
(* The marker and its helpers.                                             *)

\* GC_notify_all_marker: all helpers but oneself, and mark_cv if one is one.
GC_notify_all_marker(t) ==
    /\ GC_marker_cv' = [h \in Helper |-> h # t \/ GC_marker_cv[h]]
    /\ mark_cv' = (mark_cv \/ t \in Helper)

MarkBegins ==
    /\ mark_no < MaxEventRounds /\ Call(Marker_, "idle", "lock", "post")
    /\ UNCHANGED <<lockWord, events, counts>>

\* GC_do_parallel_mark asks for help,
MarkPosts ==
    /\ Call(Marker_, "post", "unlock", "mark")
    /\ help_wanted' = TRUE /\ helper_count' = 1 /\ GC_notify_all_marker(Marker_)
    /\ UNCHANGED <<lockWord, builder_cv, fl_builder_count, mark_no, my_mark_no, builds>>

\* marks, stops counting itself
MarkDone ==
    /\ Call(Marker_, "mark", "lock", "finish")
    /\ UNCHANGED <<lockWord, events, counts>>

\* and waits for the helpers (GC_wait_marker on mark_cv).  If it was the last
\* to leave GC_mark_local it has notified all.
MarkFinishes ==
    LET left == IF help_wanted THEN helper_count - 1 ELSE helper_count
    IN  /\ help_wanted' = FALSE /\ helper_count' = left
        /\ IF left > 0
           THEN /\ Call(Marker_, "finish", "unlock", "waitmk")
                /\ mark_cv' = FALSE /\ UNCHANGED <<GC_marker_cv, mark_no>>
           ELSE /\ Call(Marker_, "finish", "unlock", "notify")
                /\ mark_no' = mark_no + 1
                /\ IF help_wanted THEN GC_notify_all_marker(Marker_)
                   ELSE UNCHANGED <<mark_cv, GC_marker_cv>>
        /\ UNCHANGED <<lockWord, builder_cv, fl_builder_count, my_mark_no, builds>>

\* The last call of GC_do_parallel_mark is made without the lock.
MarkNotifies ==
    /\ Call(Marker_, "notify", "idle", "idle") /\ GC_notify_all_marker(Marker_)
    /\ UNCHANGED <<lockWord, builder_cv, counts>>

MarkWakes ==
    /\ mark_cv /\ Call(Marker_, "waitmk", "lock", "finish")
    /\ UNCHANGED <<lockWord, events, counts>>

\* GC_help_marker: waits on the helper's own event until it is wanted,
\* unless the marking it waits for is over.
HelpOrWait(t) ==
    /\ \/ /\ mark_no < my_mark_no[t] \/ (~help_wanted /\ mark_no = my_mark_no[t])
          /\ Call(t, "help", "unlock", "waith")
          /\ GC_marker_cv' = [GC_marker_cv EXCEPT ![t] = FALSE]
          /\ UNCHANGED <<my_mark_no, helper_count>>
       \/ /\ mark_no > my_mark_no[t]
          /\ pc[t] = "help" /\ UNCHANGED <<pc, then>>
          /\ my_mark_no' = [my_mark_no EXCEPT ![t] = @ + 1]
          /\ UNCHANGED <<GC_marker_cv, helper_count>>
       \/ /\ help_wanted /\ mark_no = my_mark_no[t]
          /\ Call(t, "help", "unlock", "helping")
          /\ helper_count' = helper_count + 1
          /\ UNCHANGED <<GC_marker_cv, my_mark_no>>
    /\ UNCHANGED <<lockWord, builder_cv, mark_cv, fl_builder_count, help_wanted,
                   mark_no, builds>>

HelperWakes(t) ==
    /\ GC_marker_cv[t] /\ Call(t, "waith", "lock", "help")
    /\ UNCHANGED <<lockWord, events, counts>>

HelperDone(t) ==
    /\ Call(t, "helping", "lock", "helped")
    /\ UNCHANGED <<lockWord, events, counts>>

\* The end of GC_mark_local: the last one notifies.  GC_mark_thread goes on
\* to the next marking with the lock held.
HelperLeaves(t) ==
    /\ pc[t] = "helped" /\ pc' = [pc EXCEPT ![t] = "help"] /\ UNCHANGED then
    /\ helper_count' = helper_count - 1
    /\ my_mark_no' = [my_mark_no EXCEPT ![t] = @ + 1]
    /\ IF helper_count = 1 THEN GC_notify_all_marker(t)
       ELSE UNCHANGED <<mark_cv, GC_marker_cv>>
    /\ UNCHANGED <<lockWord, builder_cv, fl_builder_count, help_wanted, mark_no, builds>>

-----------------------------------------------------------------------------

LockStep(t) ==
    FirstExchange(t) \/ ExchangeAgain(t) \/ AwaitMutex(t) \/ ReleaseExchange(t)
    \/ WakeWaiter(t)
BuilderStep(t) == BuilderCounts(t) \/ BuilderEnds(t) \/ BuilderNotifies(t)
MarkStep == MarkPosts \/ MarkDone \/ MarkFinishes \/ MarkNotifies \/ MarkWakes
HelperStep(t) == HelpOrWait(t) \/ HelperWakes(t) \/ HelperDone(t) \/ HelperLeaves(t)

Win32EventsNext ==
    \/ \E t \in EThr : LockStep(t)
    \/ \E t \in Builder : BuilderBegins(t) \/ BuilderStep(t)
    \/ \E t \in Helper : HelperStep(t)
    \/ WaitBegins \/ GC_wait_for_reclaim \/ MarkBegins \/ MarkStep

Win32EventsSpec == Win32EventsInit /\ [][Win32EventsNext]_eventVars

-----------------------------------------------------------------------------

\* The lock excludes: two threads never both have it (the assertion on
\* GC_mark_lock_holder in GC_acquire_mark_lock).
MarkLockExcludes ==
    \A t, u \in EThr : pc[t] \in Critical /\ pc[u] \in Critical => t = u

\* Who waits for the lock is woken: the event is set, or the holder's state
\* word says that there are waiters, or somebody is between the exchange that
\* overwrote the word and the next one, or about to set the event.
LockWakeups ==
    (\E t \in EThr : pc[t] = "wait") =>
        \/ mark_mutex_event \/ GC_mark_mutex_state = -1
        \/ \E u \in EThr : pc[u] \in {"again", "signal"}

\* Nobody sleeps on an event that stands for a condition that holds already:
\* the builders are done, the helpers have left, help is wanted or the
\* marking a helper waits for is over (unless the marker is yet to notify).
ConditionWakeups ==
    /\ pc[Waiter] = "waitcv" /\ fl_builder_count = 0 => builder_cv
    /\ pc[Marker_] = "waitmk" /\ helper_count = 0 => mark_cv
    /\ \A h \in Helper :
           pc[h] = "waith" /\ (mark_no > my_mark_no[h] \/ (help_wanted /\ mark_no = my_mark_no[h]))
               => GC_marker_cv[h] \/ then[Marker_] = "notify"

\* The emulation is sound: the lock excludes, and no wake-up is lost.
EmulationSound == MarkLockExcludes /\ LockWakeups /\ ConditionWakeups
=============================================================================
