SPECIFICATION Spec
CONSTANTS
  o1 = o1  o2 = o2  u1 = u1  u2 = u2  n1 = n1  n2 = n2
  t1 = t1  t2 = t2  t3 = t3  i1 = i1  i2 = i2
  Orders = {o1}
  Users = {u1}
  UserOf <- MCOneUser
  Notices = {n1}
  NoticeOf <- MCNoticesO1
  Tasks = {t1, t2}
  Instances = {i1}
  InstanceOf <- MCOneInstance
  PromptCreate = TRUE
  Faults = TRUE
  ActiveIndex = TRUE
  NoTask = NoTask
  NoReq = NoReq
  NoNotice = NoNotice
  NoSub = NoSub
INVARIANT AckedMeansSettled
