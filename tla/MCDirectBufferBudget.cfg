SPECIFICATION MCSpec
CONSTANTS
  Leases = {l1, l2, l3}
  Unit = 2
  HardLimit = 12
  FloorMin = 4
  IncrementMin = 2
  RecoverySamples = 2
  MinimumTotal = 3
  RequestSizes = {3, 6}
  MemTotal = 100
  MemAvailable = {20, 60}
  ConnectionPcts = {50, 90}
  ConntrackPressure = {FALSE}
  Gens = {1, 2}
  Ips = {"a", "b", "c"}
  Requests = {1, 2}
  Shard <- ShardOf
  Shards = 2
  Ttl = 2
  SweepInterval = 1
  MaxIps = 2
  StartTime = 1
  MaxTime = 3
SYMMETRY LeaseSymmetry
INVARIANTS BudgetInv ReaderFaithful  BoundShapeIsOwn  MaskSeesClientStream 
CHECK_DEADLOCK FALSE
