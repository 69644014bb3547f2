\* Alarms after 3 reads of up to 2 bytes, 4 bytes on the way.
SPECIFICATION Spec
CONSTANTS
  MAXLINE = 2
  AlarmAfter = 3
  Room = 4
  Garbage <- GarbageValues
INVARIANTS TypeOK CountsReports AlarmKept
PROPERTIES NearSounds FallsSilent
