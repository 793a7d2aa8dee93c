SPECIFICATION Spec
CONSTANTS
  Torn = Torn
  f = f
  r1 = r1
  r2 = r2
  Node = {f, r1}
  First = f
  Writers = {f, r1}
  BootPeer <- BootFromFirst
  Unstable = {}
  Faults = {}
  MaxLogs = 4
INVARIANT HashLinked
CHECK_DEADLOCK FALSE
