SPECIFICATION FairSpec
CONSTANTS
  Messages <- AllButMetric
  IdLimit = 2
  DataLimit = 4
  BlockLimit = 3
  MetricSize = 3
INVARIANTS ReadIsWritten ArrivedIsRead
PROPERTY ReaderEnds
CHECK_DEADLOCK FALSE
