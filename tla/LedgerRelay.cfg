SPECIFICATION Spec
CONSTANTS
  Torn = Torn
  f = f
  r1 = r1
  r2 = r2
  Node = {f, r1, r2}
  First = f
  Writers = {f}
  BootPeer <- BootFromReplica
  Unstable = {r1}
  Faults = {}
  MaxLogs = 3
INVARIANTS PrefixOfFirst BootIndexed
CHECK_DEADLOCK FALSE
