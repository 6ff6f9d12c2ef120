SPECIFICATION RegimeSpec
CONSTANTS
  a1 = a1
  a2 = a2
  Sessions = {s1, s2}
  Users = {"alice", "bob"}
  Ips = {a1, a2}
  Drainers = {"maintenance"}
  ConnLimit <- MCConnLimit
  IpLimit = 1
  DefaultLimit = 1
  Modes = {"active", "time"}
  MaxActive = 2
  MaxRecent = 1
  BatchLimit = 1
INVARIANT DisabledUserHasNoRelay
