SPECIFICATION Spec
CONSTANTS
  Sig <- MCSig
  Alarm = 14
  Leftover <- MCLeftover
  MaxDepth = 2
  MaxUndefined = 1
INVARIANTS
  TypeOK
  MaskIsMains
  HandlersReturn
