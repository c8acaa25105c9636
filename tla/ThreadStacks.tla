---------------------------- MODULE ThreadStacks ----------------------------
(***************************************************************************)
(* What is scanned of the stack of a thread: GC_do_blocking,               *)
(* GC_call_with_gc_active and their traced stack sections, the stack       *)
(* pointer stored by the suspend handler, and GC_push_all_stacks.          *)
(*                                                                         *)
(* The stack is a sequence of frames, the coldest first; an address of it  *)
(* is the number of frames colder than it.  A frame of the client holds    *)
(* pointers to the heap ("client") unless it runs inside GC_do_blocking    *)
(* ("foreign").  The frames of the collector's own functions are           *)
(* "blocking", "active" (holds a stack section) and "plain".               *)
(***************************************************************************)
EXTENDS Integers, Sequences, SequencesExt, FiniteSets

CONSTANT MaxFrames      \* bound on the depth of the stack

\* What is assumed of the constants.
MaxFramesAssumption == MaxFrames \in Nat

VARIABLES
    frames,
    stack_end,            \* bottom of the part the collector knows
    stack_ptr,            \* stored by the thread or its suspend handler
    traced_stack_sect,    \* stack sections, the newest first
    blocking,             \* DO_BLOCKING
    stopped,              \* the world is stopped by another thread
    onAltStack            \* a handler of the client runs on the alternate stack

stackVars == <<frames, stack_end, stack_ptr, traced_stack_sect, blocking, stopped, onAltStack>>

Kind == {"client", "foreign", "blocking", "active", "plain"}
Sp == Len(frames)

\* Types of the stack and of the fields of its descriptor.
ThreadStacksTypeOK ==
    /\ frames \in Seq(Kind) /\ Len(frames) <= MaxFrames
    /\ stack_end \in 0 .. MaxFrames /\ stack_ptr \in 0 .. MaxFrames
    /\ traced_stack_sect \in Seq([at : 1 .. MaxFrames, saved_stack_ptr : 0 .. MaxFrames])
    /\ blocking \in BOOLEAN /\ stopped \in BOOLEAN /\ onAltStack \in BOOLEAN

\* The bottom is what the platform tells, or where the thread registered.
ThreadStacksInit ==
    /\ frames = <<"client">>
    /\ stack_end \in 0 .. 1
    /\ stack_ptr = 0 /\ traced_stack_sect = <<>>
    /\ blocking = FALSE /\ stopped = FALSE /\ onAltStack = FALSE

Unstopped == ~stopped /\ ~onAltStack
PushFrame(k) == Len(frames) < MaxFrames /\ frames' = Append(frames, k)

CallFrame ==
    /\ Unstopped /\ PushFrame(IF blocking THEN "foreign" ELSE "client")
    /\ UNCHANGED <<stack_end, stack_ptr, traced_stack_sect, blocking, stopped, onAltStack>>

ReturnFrame ==
    /\ Unstopped /\ Last(frames) \in {"client", "foreign", "plain"} /\ Len(frames) > 1
    /\ frames' = Front(frames)
    /\ UNCHANGED <<stack_end, stack_ptr, traced_stack_sect, blocking, stopped, onAltStack>>

\* GC_do_blocking, with do_blocking_enter.
BlockEnter ==
    /\ Unstopped /\ ~blocking /\ PushFrame("blocking")
    /\ stack_ptr' = Sp
    /\ blocking' = TRUE
    /\ UNCHANGED <<stack_end, traced_stack_sect, stopped, onAltStack>>

BlockLeave ==
    /\ Unstopped /\ blocking /\ Last(frames) = "blocking"
    /\ frames' = Front(frames)
    /\ blocking' = FALSE
    /\ UNCHANGED <<stack_end, stack_ptr, traced_stack_sect, stopped, onAltStack>>

\* Mutant: the new section does not remember the stack pointer of the blocking call.
ActiveEnterNoSave ==
    /\ Unstopped /\ PushFrame(IF blocking THEN "active" ELSE "plain")
    /\ stack_end' = IF stack_end > Sp THEN Sp ELSE stack_end
    /\ IF blocking
       THEN /\ traced_stack_sect' =
                   <<[at |-> Sp + 1, saved_stack_ptr |-> Sp]>> \o traced_stack_sect
            /\ blocking' = FALSE
       ELSE UNCHANGED <<traced_stack_sect, blocking>>
    /\ UNCHANGED <<stack_ptr, stopped, onAltStack>>

\* GC_call_with_gc_active, up to the call.
ActiveEnter ==
    /\ Unstopped /\ PushFrame(IF blocking THEN "active" ELSE "plain")
    /\ stack_end' = IF stack_end > Sp THEN Sp ELSE stack_end
    /\ IF blocking
       THEN /\ traced_stack_sect' =
                   <<[at |-> Sp + 1, saved_stack_ptr |-> stack_ptr]>> \o traced_stack_sect
            /\ blocking' = FALSE
       ELSE UNCHANGED <<traced_stack_sect, blocking>>
    /\ UNCHANGED <<stack_ptr, stopped, onAltStack>>

\* GC_call_with_gc_active after the call: the original section again.
ActiveLeave ==
    /\ Unstopped /\ ~blocking /\ Last(frames) = "active"
    /\ frames' = Front(frames)
    /\ stack_ptr' = Head(traced_stack_sect).saved_stack_ptr
    /\ traced_stack_sect' = Tail(traced_stack_sect)
    /\ blocking' = TRUE
    /\ UNCHANGED <<stack_end, stopped, onAltStack>>

\* GC_set_stackbottom, for a stack the thread has switched to.
GC_set_stackbottom(b) ==
    /\ Unstopped /\ ~blocking /\ traced_stack_sect = <<>> /\ b <= Sp
    /\ stack_end' = b
    /\ UNCHANGED <<frames, stack_ptr, traced_stack_sect, blocking, stopped, onAltStack>>

\* A signal of the client is handled on the alternate stack.
SwitchAltStack ==
    /\ ~stopped /\ onAltStack' = ~onAltStack
    /\ UNCHANGED <<frames, stack_end, stack_ptr, traced_stack_sect, blocking, stopped>>

\* Another thread stops the world.  GC_store_stack_ptr in the handler; a thread
\* that is blocking gets no signal.
StopThread ==
    /\ ~stopped /\ stopped' = TRUE
    /\ stack_ptr' = IF blocking \/ onAltStack THEN stack_ptr ELSE Sp
    /\ UNCHANGED <<frames, stack_end, traced_stack_sect, blocking, onAltStack>>

StartThread ==
    /\ stopped /\ stopped' = FALSE
    /\ UNCHANGED <<frames, stack_end, stack_ptr, traced_stack_sect, blocking, onAltStack>>

ThreadStacksNext ==
    \/ CallFrame \/ ReturnFrame \/ BlockEnter \/ BlockLeave \/ ActiveEnter \/ ActiveLeave
    \/ SwitchAltStack \/ StopThread \/ StartThread
    \/ \E b \in 0 .. MaxFrames : GC_set_stackbottom(b)

(***************************************************************************)
(* What is pushed.                                                         *)
(***************************************************************************)
\* The frames between two addresses.
Between(hot, cold) == (cold + 1) .. hot

\* GC_push_all_stack_sections.
GC_push_all_stack_sections(lo, hi, sects) ==
    LET los == <<lo>> \o [i \in DOMAIN sects |-> sects[i].saved_stack_ptr]
    IN Between(los[Len(los)], hi)
           \cup UNION {Between(los[i], sects[i].at) : i \in DOMAIN sects}

\* GC_push_all_stacks for this thread when another one collects.  On the
\* alternate stack nothing of the normal one is pushed.
Pushed ==
    IF onAltStack /\ ~blocking THEN {}
    ELSE LET sects == IF traced_stack_sect # <<>>
                         /\ Head(traced_stack_sect).saved_stack_ptr = stack_ptr
                      THEN Tail(traced_stack_sect) ELSE traced_stack_sect
         IN GC_push_all_stack_sections(stack_ptr, stack_end, sects)

\* The same when the thread collects itself.
PushedBySelf == GC_push_all_stack_sections(Sp, stack_end, traced_stack_sect)

(***************************************************************************)
(* Properties.                                                             *)
(***************************************************************************)
ClientFrames == {i \in DOMAIN frames : frames[i] = "client" /\ i > stack_end}

\* Whatever the nesting of blocking calls, of calls back into the client and of
\* suspensions, a collection scans every frame of the client's code on the
\* stack of a thread that does not run on its alternate stack.
ClientFramesScanned ==
    /\ stopped /\ (onAltStack => blocking) => ClientFrames \subseteq Pushed
    /\ ~stopped /\ ~blocking => ClientFrames \subseteq PushedBySelf

\* A collection reads no part of the stack that has been popped, nor a part
\* colder than the bottom, and it skips the code that runs while blocking.
NothingElseScanned ==
    stopped => \A i \in Pushed : i \in (stack_end + 1) .. Sp /\ frames[i] # "foreign"
=============================================================================
