CONSTANTS
  i1 = i1
  i2 = i2
  i3 = i3
  o1 = o1
  o2 = o2
  None = None
  NoDir = NoDir
  Killed = Killed
  Starting = Starting
  me = i1
  Inits = {i1, i2}
  MaxFaults = 1
  MaxCrashes = 1
  Workload = workload
  Orphans = {o1}
  Signals = {2, 15}
  Codes = {0, 1}
SPECIFICATION HelperSpec
INVARIANTS OldRootIsGone FailureHasReason ImageIsTidy HelperInv ProcessesAreConfined
PROPERTIES ExitTellsWorkload OrphansAreReaped SignalHasEffect
CHECK_DEADLOCK FALSE
