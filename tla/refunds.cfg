SPECIFICATION Spec
CONSTANTS
  r1 = r1  r2 = r2  t1 = t1  t2 = t2  t3 = t3  i1 = i1  i2 = i2
  Amount = 2
  RefundNos = {r1, r2}
  Tasks = {t1, t2}
  Instances = {i1}
  InstanceOf <- MCOneInstance
  Interruptible <- BeforeEffects
  NoTask = NoTask
  NoReq = NoReq
  NoOrder = NoOrder
SYMMETRY Symmetry
\* Every refund number used and every result taken is a legitimate end.
CHECK_DEADLOCK FALSE
INVARIANTS NeverOverRefunded LedgerMatchesRefunds SettledAtProvider
PROPERTY ImplementsRefundLedger
