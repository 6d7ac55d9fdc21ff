SPECIFICATION Spec
CONSTANTS
  Val = {0, 1}
  Site = {"s1", "s2"}
  Depth <- MCDepth
  JumpVal = {1}
  Guarded = TRUE
PROPERTIES
  MaskRestored
