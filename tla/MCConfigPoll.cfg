SPECIFICATION MCSpec
CONSTANTS
  Addrs = {1, 2}
  MaxReloads = 1
  MaxPermits = 1
  MaxUpsets = 0
  Users = {1, 2}
  Ops <- StoreOps
  Files = {"main", "inc"}
  Owner <- SectionOwner
  Start <- StartTables
  Reqs = {"a", "b"}
  Matches = {TRUE, FALSE}
  Gates = {"ok", "refused"}
  MaxOps = 2
  MaxDrops = 1
  MaxEdits = 1
  Views = {"watch_poll"}
CHECK_DEADLOCK FALSE
PROPERTY PolledEditsReachService
