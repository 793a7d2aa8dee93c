SPECIFICATION FairSpec
CONSTANTS
  b = b
  n = n
  m = m
  t1 = t1
  t2 = t2
  t3 = t3
  Nodes = {b, n, m}
  Builder = b
  Gets = {t1, t2, t3}
  Home <- TwoOnN
  Load <- Loads
  Threshold = 2
  MaxStops = 1
  Faults = {"request", "disk", "crash"}
INVARIANTS ProvidersHaveIt IdleOrLowest
PROPERTIES WholeStays ServedUnlessTorn
CHECK_DEADLOCK FALSE
