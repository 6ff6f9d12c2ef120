SPECIFICATION MCSpec
CONSTANTS
  t1 = t1
  t2 = t2
  Tasks = {t1, t2}
  Caps = {0, 2}
  MaxCap = 2
  Requests = {1, 2}
  MaxEpoch = 2
  MaxFree = 1
  NoObject = NoObject
  l1 = l1
  l2 = l2
  Leases = {l1, l2}
  Objects = {1, 2, 3, 4, 5, 6, 7, 8, 9}
  MaxPolicies = 0
  u1 = u1
  u2 = u2
  r1 = r1
  r2 = r2
  r3 = r3
  Users = {u1, u2}
  RelayTasks = {r1, r2, r3}
  Owner <- MCOwner
  UserCap = 2
  CidrCap = 3
  Borrow = 1
  Sends = {1, 2}
  LeaseEpochs = 1
  Direct = {1}
  Middle = {2}
  Limit = 2
  Overshoot = 1
  Sizes = {1, 2}
  Savers = {1, 2}
  Second <- MCSecond
  MaxResets = 1
  MaxCrashes = 1
  Sessions = {1, 2}
  MaxMarks = 3
  MaxPressure = 2
  Views = {"registry"}
SYMMETRY Symmetry
INVARIANT OneBucketPerSubnet
CHECK_DEADLOCK FALSE
