SPECIFICATION FairSpec
CONSTANTS
  b = b
  n = n
  m = m
  t1 = t1
  t2 = t2
  t3 = t3
  Nodes = {b, n, m}
  Builder = b
  Gets = {t1}
  Home <- OneOnN
  Load <- Loads
  Threshold = 2
  MaxStops = 1
  Faults = {"crash"}
PROPERTY EventuallyServed
CHECK_DEADLOCK FALSE
