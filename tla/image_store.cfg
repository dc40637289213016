CONSTANTS
  i1 = i1
  i2 = i2
  i3 = i3
  r1 = r1
  k1 = k1
  None = None
  Installs = {i1, i2}
  Runs = {r1}
  Removers = {k1}
  Name <- OneName
  Dir <- DirOfName
  MaxMishaps = 1
SPECIFICATION Spec
INVARIANTS IInv MetaTellsContent
PROPERTIES RmiTakesUsedOnlyByRace StartsOnWholeImage
SYMMETRY Symmetry
CHECK_DEADLOCK FALSE
