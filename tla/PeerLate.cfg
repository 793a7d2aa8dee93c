SPECIFICATION Spec
CONSTANTS
  c1 = c1
  c2 = c2
  c3 = c3
  p1 = p1
  p2 = p2
  i1 = i1
  i2 = i2
  Calls = {c1, c2}
  Methods = {"RequestBuild"}
  Peers = {p1}
  NoPeer = NoPeer
  Inbound = {i1}
  InboundKinds = {"build"}
  MaxKeys = 1
  MaxActive = 2
  Faults = {"late"}
INVARIANT ConnectionStillOpen
CHECK_DEADLOCK FALSE
