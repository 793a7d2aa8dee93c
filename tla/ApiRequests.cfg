SPECIFICATION Spec
CONSTANTS
  Clients = {"c1", "c2"}
  Commands <- AllCommands
  Local = "self"
  Peers = {"self", "other"}
  FirstNodes = {}
  Urls <- AllPackages
  PullsOf <- AllPulls
  MaxBuilds = 1
  Unlucky = {"c2"}
  Faults = {"log", "p2p", "connection", "start", "build", "fetch"}
  Digests = {"hash", "layer"}
PROPERTY PulledOnceBuilt
CHECK_DEADLOCK FALSE
