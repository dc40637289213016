CONSTANTS
  r1 = r1
  r2 = r2
  k1 = k1
  k2 = k2
  p1 = p1
  p2 = p2
  None = None
  Foreign = Foreign
  Runs = {r1, r2}
  Clients = {k1, k2}
  Pids = {p1, p2}
  ForeignPids = {p1, p2}
  Detached = {r2}
  Embedded = {}
  MaxCrashes = 1
  MaxFaults = 1
SPECIFICATION Spec
INVARIANTS ExitedIsDead FinalOnlyWhenReleased LiveIsReadable IInv
PROPERTIES RemovedStaysRemoved ImplementsLifecycle
SYMMETRY Symmetry
CHECK_DEADLOCK FALSE
