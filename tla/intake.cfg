SPECIFICATION Spec
CONSTANTS
  o1 = o1  o2 = o2  o3 = o3  k1 = k1
  Requests = {o1, o2, o3}
  keyOf <- MCkeyOf
  price = 10
  maxDelta = 1
  ttl = 1
  tolerance = 1
  hdStartIndex = 5
  MaxClock = 2
  MaxTransfers = 2
  None = None
INVARIANTS OneOrderPerKey TransferSettlesOnce DepositIsOwn
CHECK_DEADLOCK FALSE
