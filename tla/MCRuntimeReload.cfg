SPECIFICATION MCSpec
CONSTANTS
  Addrs = {1, 2}
  MaxReloads = 2
  MaxPermits = 1
  MaxUpsets = 1
  Users = {1, 2}
  Ops <- StoreOps
  Files = {"main", "inc"}
  Owner <- SectionOwner
  Start <- StartTables
  Reqs = {"a", "b"}
  Matches = {TRUE, FALSE}
  Gates = {"ok", "refused"}
  MaxOps = 2
  MaxDrops = 1
  MaxEdits = 1
  Views = {"reload", "store", "store_dropped", "watch", "watch_includes", "watch_poll", "load",
           "startup", "upstreams", "nft", "iptables", "two_controllers", "two_callers",
           "servers_change"}
CHECK_DEADLOCK FALSE
INVARIANTS NothingOutlivesItsGeneration ServiceRestored  
PROPERTIES ReloadsConclude StoreIsAtomic EditsReachService StartupSettles CheckedUpstreamRecovers 
