\* Three threads in the driver at once, in every interleaving with the timer.
SPECIFICATION FairSpec
CONSTANT Threads = {t1, t2, t3}
INVARIANTS TypeOK LightsFollowFlag
PROPERTIES StaleLightGoesOut BlinksOn
