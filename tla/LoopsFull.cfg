SPECIFICATION FairSpec
CONSTANTS
  t1 = t1
  t2 = t2
  t3 = t3
  t4 = t4
  Slots <- Tight
  Tasks = {t1}
  TaskKind <- BootOnly
  PeerEvents = {"BlockBroadcast"}
  MaxMessages = 3
PROPERTY TasksReturn
CHECK_DEADLOCK FALSE
