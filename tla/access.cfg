SPECIFICATION FairSpec
CONSTANTS
  o1 = o1  o2 = o2  o3 = o3  u1 = u1  u2 = u2  p1 = p1  p2 = p2
  Orders = {o1, o2}
  Users = {u1}
  UserOf <- MCUser
  Days <- MCSamePlans
  Passes = {p1, p2}
  reminderWindow = 1
  MaxClock = 3
  NoRow = NoRow
INVARIANTS PurchasesStackSerially LastsAsListed MarkIsOfPeriod
PROPERTIES MarkEndsReminders LapsedIsClosed RefusedOnlyOverLapsed
