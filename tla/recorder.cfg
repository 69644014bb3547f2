\* The code's sleeps of 1, 10 and 3 s in ticks of half a second; two players may fail.
SPECIFICATION Spec
CONSTANTS
  Pause = 2
  Length = 20
  Grace = 6
  Lag = 1
  Window = 100
  MaxAlarms = 4
  MaxFailures = 2
INVARIANTS TypeOK DumpIsStopped SavedWhole VideoIsBack
PROPERTY Ends
