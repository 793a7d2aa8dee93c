SPECIFICATION Spec
CONSTANTS
  p = p
  n = n
  b1 = b1
  b2 = b2
  c1 = c1
  c2 = c2
  Builds = {b1, b2}
  Local = {b1, b2}
  PackageOf <- Same
  NumArtifacts = 2
  Additions = {c1, c2}
  NodeOf <- OneNode
  MaxTime = 2
  CanFail = FALSE
INVARIANT LastIsWhole
CHECK_DEADLOCK FALSE
