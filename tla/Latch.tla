------------------------------- MODULE Latch -------------------------------
(***************************************************************************)
(* What the loader's events promise (src/library/event.h): "Threads can    *)
(* wait for an event, at which point they block until it is triggered.  An *)
(* event can be triggered by any thread, causing all waiting threads to be *)
(* released."                                                              *)
(***************************************************************************)
CONSTANT Threads        \* the threads that may wait

VARIABLES
    fired,              \* the event has been triggered
    waiting,            \* threads that have begun to wait
    released            \* threads whose wait has returned

latchVars == <<fired, waiting, released>>

LatchInit == fired = FALSE /\ waiting = {} /\ released = {}

Fire == fired' = TRUE /\ UNCHANGED <<waiting, released>>

Begin(t) ==
    /\ t \notin waiting
    /\ waiting' = waiting \cup {t}
    /\ UNCHANGED <<fired, released>>

\* A wait for an event that is triggered already may begin and return at once.
Release(t) ==
    /\ fired
    /\ t \notin released
    /\ waiting' = waiting \cup {t}
    /\ released' = released \cup {t}
    /\ UNCHANGED fired

LatchNext == Fire \/ \E t \in Threads : Begin(t) \/ Release(t)

LatchSafe == LatchInit /\ [][LatchNext]_latchVars

LatchSpec == LatchSafe /\ \A t \in Threads : WF_latchVars(t \in waiting /\ Release(t))

=============================================================================
