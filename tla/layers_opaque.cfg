CONSTANTS
  Paths <- SmallTree
  Images <- SmallImages
SPECIFICATION Spec
INVARIANTS OpaqueIsHonored
CHECK_DEADLOCK FALSE
