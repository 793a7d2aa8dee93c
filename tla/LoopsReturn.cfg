SPECIFICATION FairSpec
CONSTANTS
  t1 = t1
  t2 = t2
  t3 = t3
  t4 = t4
  Slots <- Roomy
  Tasks = {t1, t2, t3}
  TaskKind <- ThreeTasks
  PeerEvents = {"RequestArtifact", "RequestBuild", "VerifyBuild", "BlockchainRequest", "BlockBroadcast"}
  MaxMessages = 1
INVARIANTS NoWaitCycle
PROPERTIES TasksReturn MainReturns
CHECK_DEADLOCK FALSE
