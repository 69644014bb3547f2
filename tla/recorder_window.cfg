\* Slide 23, item 3: ten seconds later the dump is stopped.  A window of four
\* processes, for the code's thousand pids, and players that never fail.
SPECIFICATION Spec
CONSTANTS
  Pause = 2
  Length = 20
  Grace = 6
  Lag = 1
  Window = 4
  MaxAlarms = 4
  MaxFailures = 0
INVARIANT DumpIsStopped
