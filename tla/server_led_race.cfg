\* Slide 14: the lights work as the car moves.  A thread that loaded cmd early
\* sets the light late.
SPECIFICATION Spec
CONSTANTS
  Buttons = {"3", "4"}
  MaxPresses = 2
  Grain = 30
  MaxThreads = 4
  LedLoaded = {TRUE}
INVARIANT LightsFollowCar
