SPECIFICATION Spec
CONSTANTS
  n1 = n1  n2 = n2  N1 = N1  N2 = N2  k1 = k1  k2 = k2  k3 = k3
  Kinds = {"orders", "users", "merchants", "refunds", "deposits", "jobs", "audit"}
  Ids = {1, 2}
  Names = {n1, n2}
  Lower <- MCLower
  Keys = {k1, k2, k3}
  Times = {1, 2}
  amountOf <- MCAmount
  maxEntries = 1
  None = None  Blank = Blank
SYMMETRY KeysAndNamesAlike
INVARIANTS SameOutcome FindersAgree ListsAgree ReportsAgree
CHECK_DEADLOCK FALSE
