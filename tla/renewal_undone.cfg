SPECIFICATION SqlSpec
CONSTANTS
  o1 = o1  o2 = o2  o3 = o3  u1 = u1  u2 = u2  p1 = p1  p2 = p2
  Orders = {o1, o2, o3}
  Users = {u1, u2}
  UserOf <- MCUserOf
  Days <- MCDays
  Passes = {p1, p2}
  reminderWindow = 1
  MaxClock = 3
  NoRow = NoRow
INVARIANT PurchasesStack
