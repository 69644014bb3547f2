\* Slide 20: what is sent is carried out.  A burst of two presses refutes it.
SPECIFICATION Spec
CONSTANTS
  Commands = {go, halt}
  Nul = Nul
  MaxPresses = 2
  Grain = 30
INVARIANT AllExecutedWhenDrained
CHECK_DEADLOCK FALSE
