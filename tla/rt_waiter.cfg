CONSTANTS
  r1 = r1
  r2 = r2
  k1 = k1
  k2 = k2
  p1 = p1
  p2 = p2
  None = None
  Foreign = Foreign
  Runs = {r1}
  Clients = {k1}
  Pids = {p1}
  ForeignPids = {}
  Detached = {r1}
  Embedded = {}
  MaxCrashes = 0
  MaxFaults = 0
SPECIFICATION FairSpec
PROPERTIES DeathIsRecorded
CHECK_DEADLOCK FALSE
