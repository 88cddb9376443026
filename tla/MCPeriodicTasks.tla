--------------------------- MODULE MCPeriodicTasks ---------------------------
(* Two sessions: the timer of the first may outlive it, and the thread ids   *)
(* of the second meet those that the first left.                            *)
EXTENDS PeriodicTasks

ASSUME InstanceAssumption == MaxSessions > 1
=============================================================================
