------------------------------ MODULE Startup ------------------------------
(***************************************************************************)
(* The start of the channel on two levels that do not share state: the     *)
(* four threads, which wait for each other at events that are latches      *)
(* (Loader), and one such event with its flag and its semaphore (Event).   *)
(* A behaviour is one of one part, the other rests.                        *)
(***************************************************************************)
EXTENDS Loader, Event

VARIABLE part

startupVars == <<vars, eventVars, part>>

StartupInit ==
    /\ Init /\ Event_Init
    /\ part \in {"loader", "event"}

StartupNext ==
    /\ UNCHANGED part
    /\ \/ part = "loader" /\ Next /\ UNCHANGED eventVars
       \/ part = "event" /\ EventNext /\ UNCHANGED vars

StartupSpec ==
    /\ StartupInit /\ [][StartupNext]_startupVars
    /\ part = "loader" => Fairness
    /\ part = "event" => EventFairness

-----------------------------------------------------------------------------
(* Properties *)

\* Ends, of the behaviours in which the threads run.
StartupEnds == part = "loader" => Ends
=============================================================================
