CONSTANTS
  ip1 = ip1
  ip2 = ip2
  w1 = w1
  AnyIP = AnyIP
  ContainerIP = ContainerIP
  OtherIP = OtherIP
  HostIPs = {ip1, ip2}
  Words = {w1}
  MaxPort = 3
  Ports = {1, 2}
SPECIFICATION Spec
INVARIANTS RulesAreAccepted
