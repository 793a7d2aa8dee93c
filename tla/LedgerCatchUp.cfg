SPECIFICATION FairSpec
CONSTANTS
  Torn = Torn
  f = f
  r1 = r1
  r2 = r2
  Node = {f, r1}
  First = f
  Writers = {f}
  BootPeer <- BootFromFirst
  Unstable = {}
  Faults = {}
  MaxLogs = 4
PROPERTIES CatchesUp StaysIndexed
CHECK_DEADLOCK FALSE
