--------------------------- MODULE MCObstacleAlarm ---------------------------
(* ObstacleAlarm with the values of the uninitialised cnt that make a difference. *)
EXTENDS ObstacleAlarm

\* A late first alarm, a timely one, one short of an alarm, and beyond it.
GarbageValues == {-2, 0, 2, 9}
=============================================================================
