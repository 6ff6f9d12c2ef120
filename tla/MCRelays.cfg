SPECIFICATION MCSpec
CONSTANTS
  Leases = {l1, l2}
  l2 = l2
  Quiet = {l2}
  Unit = 2
  HardLimit = 6
  FloorMin = 2
  IncrementMin = 2
  RecoverySamples = 1
  MinimumTotal = 2
  RequestSizes <- MCRequestSizes
  MemTotal = 100
  MemAvailable = {90}
  ConnectionPcts = {50, 90}
  ConntrackPressure = {FALSE}
  CeilC2S = 1
  CeilS2C = 4
  BaseC2S = 1
  BaseS2C = 1
  MaxConnections = 0
INVARIANTS DesiredCovered
PROPERTIES  GateFollowsRoute RelaysFollowTheRoute  ConnectionEnds
CHECK_DEADLOCK FALSE
