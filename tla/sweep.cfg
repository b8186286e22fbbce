SPECIFICATION FairSpec
CONSTANTS
  p1 = p1  p2 = p2
  Passes = {p1}
  maxAttempts = 2
  Interruptible <- BeforeBroadcast
  Reverts = FALSE
  MaxTxs = 8
  MaxRetries = 1
  NoJob = NoJob
  NoTx = NoTx
  NoStatus = NoStatus
\* A terminal job is a legitimate end.
CHECK_DEADLOCK FALSE
INVARIANTS SweptMeansCollected SentOnce
PROPERTIES ImplementsPipeline SweepEnds
