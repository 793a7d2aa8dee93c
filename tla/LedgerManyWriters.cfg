SPECIFICATION Spec
CONSTANTS
  Torn = Torn
  f = f
  r1 = r1
  r2 = r2
  Node = {f, r1}
  First = f
  Writers = {f, r1}
  BootPeer <- BootFromFirst
  Unstable = {f, r1}
  Faults = {"disk", "db", "publish", "reorder"}
  MaxLogs = 3
INVARIANTS TypeOK OrdinalsConsecutive GenesisAgreement
CHECK_DEADLOCK FALSE
