\* Slide 14, with a process that can make four threads in all.
SPECIFICATION Spec
CONSTANTS
  Buttons = {"1", "3"}
  MaxPresses = 3
  Grain = 30
  MaxThreads = 4
  LedLoaded = {TRUE}
INVARIANT LightsFollowButtons
