SPECIFICATION FairSpec
CONSTANTS
  Torn = Torn
  f = f
  r1 = r1
  r2 = r2
  Node = {f, r1, r2}
  First = f
  Writers = {f}
  BootPeer <- BootFromReplica
  Unstable = {}
  Faults = {}
  MaxLogs = 3
PROPERTY StaysIndexed
CHECK_DEADLOCK FALSE
