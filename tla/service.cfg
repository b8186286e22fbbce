SPECIFICATION Spec
CONSTANTS
  r1 = r1
  r2 = r2
  r3 = r3
  Requests <- MCRequests
  Setups <- MCSetups
  max = 1
  Window = 2
  MaxClock = 3
  Latency = 0
INVARIANTS RefusedUntouched BurstBounded
PROPERTIES ServedAsDocumented ShutdownEnds
CHECK_DEADLOCK FALSE
