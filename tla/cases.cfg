CONSTANTS
  ip1 = ip1
  ip2 = ip2
  w1 = w1
  AnyIP = AnyIP
  ContainerIP = ContainerIP
  OtherIP = OtherIP
  HostIPs = {ip1, ip2}
  Words = {w1}
  MaxPort = 3
  Ports = {1, 2}
  CommandLines <- SmallCommandLines
  Published = {"80", "80:80", "81"}
  Binding <- SmallBinding
  OtherModes = {"--net=none"}
  OtherDashed = {"-f"}
SPECIFICATION CasesSpec
INVARIANTS ConflictIsOverlap ConnectionsReachContainer ParseInvertsWriting OptionsAsGiven InitRunsCommand
