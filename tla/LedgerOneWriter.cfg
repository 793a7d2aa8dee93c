SPECIFICATION Spec
CONSTANTS
  Torn = Torn
  f = f
  r1 = r1
  r2 = r2
  Node = {f, r1}
  First = f
  Writers = {f}
  BootPeer <- BootFromFirst
  Unstable = {f, r1}
  Faults = {"publish", "request", "loss", "reorder", "duplicate"}
  MaxLogs = 4
INVARIANTS PrefixOfFirst HashLinked IndexBacked BootIndexed
PROPERTY ImplementsAppendOnly
CHECK_DEADLOCK FALSE
