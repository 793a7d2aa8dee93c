SPECIFICATION Spec
CONSTANTS
  FirstNode = TRUE
  MaxKeys = 40
  Faults = {"crash", "setup"}
INVARIANTS IdentityKept CommitterIsPeer
CHECK_DEADLOCK FALSE
