------------------------------- MODULE Event -------------------------------
(***************************************************************************)
(* The event of src/library/event.h: a flag that is read without a lock    *)
(* and a semaphore of libogc with count 0 and limit 1, which every         *)
(* released waiter posts again for the next one.  Event_Init is the        *)
(* initial state; Event_Reset and Event_Destroy have no caller.            *)
(***************************************************************************)
EXTENDS Integers, Sequences

CONSTANTS
    Waiters,            \* threads that call Event_Wait
    Triggers            \* threads that call Event_Trigger

ASSUME ThreadsAssumption == Waiters \cap Triggers = {}

VARIABLES
    triggered,          \* event->triggered
    sem,                \* the count of event->sem
    queue,              \* threads blocked in LWP_SemWait, longest first
    call                  \* where each thread is in its call

eventVars == <<triggered, sem, queue, call>>

Threads == Waiters \cup Triggers

Event_Init ==
    /\ triggered = FALSE
    /\ sem = 0
    /\ queue = << >>
    /\ call = [t \in Threads |-> "idle"]

-----------------------------------------------------------------------------
(***************************************************************************)
(* The semaphore: a post hands over to the thread that has waited longest, *)
(* or raises the count unless it is at its limit, when the post fails.     *)
(***************************************************************************)
LWP_SemPost(t) ==
    IF queue = << >>
    THEN /\ sem' = 1
         /\ UNCHANGED queue
         /\ call' = [call EXCEPT ![t] = "done"]
    ELSE /\ UNCHANGED sem
         /\ queue' = Tail(queue)
         /\ call' = [call EXCEPT ![t] = "done", ![Head(queue)] = "post"]

LWP_SemWait(t) ==
    IF sem > 0
    THEN /\ sem' = sem - 1
         /\ UNCHANGED queue
         /\ call' = [call EXCEPT ![t] = "post"]
    ELSE /\ UNCHANGED sem
         /\ queue' = Append(queue, t)
         /\ call' = [call EXCEPT ![t] = "queued"]

-----------------------------------------------------------------------------
(* Event_Wait: read the flag; if it is clear, wait for and post the semaphore. *)

\* Mutant: the flag is taken to be set.
WaitFlag_Ignored(t) ==
    /\ call[t] = "idle"
    /\ call' = [call EXCEPT ![t] = "done"]
    /\ UNCHANGED <<triggered, sem, queue>>

WaitFlag(t) ==
    /\ call[t] = "idle"
    /\ call' = [call EXCEPT ![t] = IF triggered THEN "done" ELSE "wait"]
    /\ UNCHANGED <<triggered, sem, queue>>

WaitSem(t) ==
    /\ call[t] = "wait"
    /\ LWP_SemWait(t)
    /\ UNCHANGED triggered

\* Mutant: a released waiter returns without posting for the next one.
WaitPost_Missing(t) ==
    /\ call[t] = "post"
    /\ call' = [call EXCEPT ![t] = "done"]
    /\ UNCHANGED <<triggered, sem, queue>>

WaitPost(t) ==
    /\ call[t] = "post"
    /\ LWP_SemPost(t)
    /\ UNCHANGED triggered

(* Event_Trigger: set the flag, then post the semaphore. *)

TriggerFlag(t) ==
    /\ call[t] = "idle"
    /\ triggered' = TRUE
    /\ call' = [call EXCEPT ![t] = "trigger"]
    /\ UNCHANGED <<sem, queue>>

TriggerPost(t) ==
    /\ call[t] = "trigger"
    /\ LWP_SemPost(t)
    /\ UNCHANGED triggered

Event_Wait(t) == WaitFlag(t) \/ WaitSem(t) \/ WaitPost(t)
Event_Trigger(t) == TriggerFlag(t) \/ TriggerPost(t)

EventNext ==
    \/ \E t \in Waiters : Event_Wait(t)
    \/ \E t \in Triggers : Event_Trigger(t)

EventSafety == Event_Init /\ [][EventNext]_eventVars

\* A thread that is in a call and not blocked goes on; it need not begin one.
EventFairness ==
    /\ \A t \in Waiters : WF_eventVars(WaitSem(t) \/ WaitPost(t))
    /\ \A t \in Triggers : WF_eventVars(TriggerPost(t))

EventSpec == EventSafety /\ EventFairness

-----------------------------------------------------------------------------
(* Properties *)

\* Type invariant.
EventTypeOK ==
    /\ triggered \in BOOLEAN
    /\ sem \in 0 .. 1
    /\ queue \in Seq(Waiters)
    /\ call \in [Threads -> {"idle", "wait", "queued", "post", "trigger", "done"}]

(***************************************************************************)
(* No lost wake-up: when a trigger has returned and threads are blocked on *)
(* the semaphore, one released thread is about to post it.                 *)
(***************************************************************************)
NoLostWakeup ==
    (\E t \in Triggers : call[t] = "done") /\ queue # << >>
        => \E t \in Waiters : call[t] = "post"

(***************************************************************************)
(* The flag and the semaphore together are the latch that event.h          *)
(* promises: no wait returns before the event is triggered, and every wait *)
(* returns once it is.                                                     *)
(***************************************************************************)
L == INSTANCE Latch WITH
         Threads  <- Waiters,
         fired    <- triggered,
         waiting  <- {t \in Waiters : call[t] # "idle"},
         released <- {t \in Waiters : call[t] = "done"}

IsLatch == L!LatchSpec

=============================================================================
