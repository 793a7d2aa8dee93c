SPECIFICATION Spec
CONSTANTS
  p = p
  q = q
  r1 = r1
  r2 = r2
  r3 = r3
  r4 = r4
  b1 = b1
  b2 = b2
  b3 = b3
  Packages = {p, q}
  NumArtifacts <- TwoAndOne
  Requests = {r1, r2}
  RequestKind <- LocalKinds
  RequestPackage <- SamePackage
  Authorized = {"self"}
  BuildIds = {b1, b2}
  Faults = {}
INVARIANT NoDuplicatedBuilds
CHECK_DEADLOCK FALSE
