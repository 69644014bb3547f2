\* Presses at any time, segments down to 5 bytes; "go" and "halt" stand for any two commands.
SPECIFICATION Spec
CONSTANTS
  Commands = {go, halt}
  Nul = Nul
  MaxPresses = 5
  Grain = 5
INVARIANTS TypeOK NoTwoInARow
PROPERTIES InOrderAtMostOnce NothingSkipped EachPressDispatched
CHECK_DEADLOCK FALSE
