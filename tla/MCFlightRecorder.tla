--------------------------- MODULE MCFlightRecorder ---------------------------
(* Names of timers, enough for two threads and one switch; the threads are  *)
(* alike, which a run of safety properties uses; and a constraint for       *)
(* WrittenInTime, which says nothing of what follows once the context was   *)
(* left, so that its run need not follow it.                                *)
EXTENDS FlightRecorder

MCTimers == {"f1", "f2", "f3", "f4", "f5"}
Symmetry == Permutations(Threads)
StillInside == inside
==============================================================================
