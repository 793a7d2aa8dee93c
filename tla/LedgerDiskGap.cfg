SPECIFICATION Spec
CONSTANTS
  Torn = Torn
  f = f
  r1 = r1
  r2 = r2
  Node = {f}
  First = f
  Writers = {f}
  BootPeer <- BootFromFirst
  Unstable = {f}
  Faults = {"disk"}
  MaxLogs = 4
INVARIANT HashLinked
CHECK_DEADLOCK FALSE
