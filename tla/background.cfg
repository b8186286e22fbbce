SPECIFICATION BackgroundFairSpec
CONSTANTS
  c1 = c1  c2 = c2  j1 = j1  j2 = j2
  Calls = {c1, c2}
  ttl = 2
  Latencies = {1, 3}
  MaxTime = 8
  MaxRotations = 2
  Jobs = {j1, j2}
  None = None
INVARIANT FreshIsRecent
PROPERTIES MovesForward SecretCatchesUp TroubleIsTold
\* The rates stop at MaxTime.
CHECK_DEADLOCK FALSE
