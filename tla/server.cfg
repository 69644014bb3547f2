\* Presses at any time, with and without led.ko.
SPECIFICATION Spec
CONSTANTS
  Buttons = {"1", "2", "3"}
  MaxPresses = 2
  Grain = 30
  MaxThreads = 4
  LedLoaded = {TRUE, FALSE}
INVARIANTS TypeOK LightsFollowButtons CarFollowsButtons CarObeysDispatched DeathLeavesCarSane
PROPERTIES EachPressServed ComesToRest
