------------------------ MODULE MCDelayedTaskManager -----------------------
(* Small instances of DelayedTaskManager for TLC. *)
EXTENDS DelayedTaskManager

CONSTANTS t1, t2, t3, starter, service

\* Two tasks ripe at the same time and one before them.
RunTimes == [t \in Tasks |-> IF t = t3 THEN 1 ELSE 2]
SequenceNums == [t \in Tasks |-> CASE t = t1 -> 1 [] t = t2 -> 2 [] OTHER -> 3]
=============================================================================
