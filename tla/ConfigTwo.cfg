SPECIFICATION Spec
CONSTANTS
  Processes = {"p1", "p2"}
  Hosts = {"localhost", "example.org", "two words"}
  ValidHosts = {"localhost", "example.org"}
  Ports = {65535, 65536}
  Disks = {0, 4096}
  MayCrash = TRUE
INVARIANTS TypeOK StoredIsValid
CHECK_DEADLOCK FALSE
