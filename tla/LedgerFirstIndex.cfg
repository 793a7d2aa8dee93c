SPECIFICATION Spec
CONSTANTS
  Torn = Torn
  f = f
  r1 = r1
  r2 = r2
  Node = {f}
  First = f
  Writers = {f}
  BootPeer <- BootFromFirst
  Unstable = {f}
  Faults = {}
  MaxLogs = 2
INVARIANT FirstIndexed
CHECK_DEADLOCK FALSE
