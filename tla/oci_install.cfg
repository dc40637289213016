CONSTANTS
  None = None
  Paths <- SmallTree
  Images <- SmallImages
  Hashes <- SmallHashes
  Layouts <- SmallLayouts
  Stores <- SmallStores
SPECIFICATION InstallSpec
INVARIANTS ExtractsOverlay InstallsWellFormed RejectedKeepsImage InstalledIsTold
CHECK_DEADLOCK FALSE
