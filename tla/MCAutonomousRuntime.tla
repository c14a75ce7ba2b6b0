----------------------- MODULE MCAutonomousRuntime -----------------------
(* Small schedules for TLC: times are in minimum sleeps, Never is past the *)
(* last instant.                                                           *)
EXTENDS AutonomousRuntime

Never == 9

MCJobs == 1..3

\* A fixed job that is due already, a window and a condition.
MCShapes == {[timed |-> TRUE, due |-> 0, expires |-> Never],
             [timed |-> TRUE, due |-> 1, expires |-> 2],
             [timed |-> FALSE, due |-> 0, expires |-> Never]}
===========================================================================
