\* Ends, restarts and losses of power without bound, a backlog of three.
SPECIFICATION Spec
CONSTANT Backlog = 3
INVARIANT TypeOK
PROPERTY Recovers
CHECK_DEADLOCK FALSE
