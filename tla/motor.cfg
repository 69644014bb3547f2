\* Every sequence of commands, the process dying between any two ioctls.
SPECIFICATION Spec
CONSTANT NoCommand = NoCommand
INVARIANTS TypeOK HBridgeSettled ChannelsFree
PROPERTIES DrivesTheCar OverlapIsBrief
