CONSTANTS
  r1 = r1
  r2 = r2
  r3 = r3
  k1 = k1
  k2 = k2
  ip1 = ip1
  AnyIP = AnyIP
  HostIPs = {ip1}
  Words = {}
  MaxPort = 2
  Runs = {r1, r2}
  Clients = {k1, k2}
  Publish <- PublishAll
  HostNet = {r1}
  IPOf <- SharedIP
  MaxStops = 1
  MaxMishaps = 1
SPECIFICATION Spec
INVARIANTS ConflictNeedsRace RulesStay RulesGo
CHECK_DEADLOCK FALSE
SYMMETRY Symmetry
