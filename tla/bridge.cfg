CONSTANTS
  r1 = r1
  r2 = r2
  r3 = r3
  Runs = {r1, r2, r3}
  VethOf <- SharedName
  MaxMishaps = 1
SPECIFICATION FairSpec
INVARIANTS BridgeInv StaysConnected FailureHasReason NoPairLeft
PROPERTIES BridgeGetsReady
CHECK_DEADLOCK FALSE
