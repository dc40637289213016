CONSTANTS
  r1 = r1
  r2 = r2
  k1 = k1
  k2 = k2
  None = None
  Hole = Hole
  Runs = {r1, r2}
  Detached = {{}, {r1}}
  Starts <- AllApart
  Clients = {k1, k2}
  Commands <- LogsAndRm
  MaxWrites <- SomeWrites
  Unlucky = {r1}
  MaxMishaps = 1
SPECIFICATION Spec
INVARIANTS IInv LogTellsWorkload LogsAreCurrent
PROPERTIES ResolvesAmongHeld
CHECK_DEADLOCK FALSE
