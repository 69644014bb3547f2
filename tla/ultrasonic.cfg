\* A clock of 16 units, echoes of 1 (near) and 2 or 3 units (far).
SPECIFICATION Spec
CONSTANTS
  Wrap = 16
  Near = 2
  MaxEcho = 3
  MaxDelay = 2
  MaxOpens = 2
  CountCap = 6
INVARIANTS TypeOK CountsOnlyDoubt
PROPERTIES NearIsReported FarIsForgotten
