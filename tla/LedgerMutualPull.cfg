SPECIFICATION FairSpec
CONSTANTS
  Torn = Torn
  f = f
  r1 = r1
  r2 = r2
  Node = {f, r1, r2}
  First = f
  Writers = {f}
  BootPeer <- BootMutual
  Unstable = {f, r1, r2}
  Faults = {}
  MaxLogs = 2
PROPERTY PullTerminates
CHECK_DEADLOCK FALSE
