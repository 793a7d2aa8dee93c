SPECIFICATION FairSpec
CONSTANTS
  c1 = c1
  c2 = c2
  c3 = c3
  p1 = p1
  p2 = p2
  i1 = i1
  i2 = i2
  Calls = {c1, c2}
  Methods <- AllMethods
  Peers = {p1}
  NoPeer = NoPeer
  Inbound = {i1, i2}
  InboundKinds = {"artifact", "build", "idle_metric", "blockchain", "build_status", "build_topic", "blockchain_topic"}
  MaxKeys = 1
  MaxActive = 2
  Faults = {"incoming", "dht", "cancel", "late"}
INVARIANTS KeptWhileRunning QueriesPending DialsWatched
PROPERTY CallsReturn
CHECK_DEADLOCK FALSE
