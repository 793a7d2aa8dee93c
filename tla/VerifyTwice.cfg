SPECIFICATION Spec
CONSTANTS
  p = p
  q = q
  a = a
  b = b
  h = h
  g = g
  s1 = s1
  s2 = s2
  s3 = s3
  s4 = s4
  s5 = s5
  Packages = {p, q}
  Artifacts = {a, b}
  Hashes = {h, g}
  Submissions = {s1, s2, s3}
  Transaction <- OneTwice
  BuildIds = {1, 2}
  CanRefuse = FALSE
INVARIANT VerifiesWholePackage
CHECK_DEADLOCK FALSE
