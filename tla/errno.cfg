SPECIFICATION Spec
CONSTANTS
  Failure = {4, 34, 35}
  MaxDepth = 2
INVARIANTS
  TypeOK
  ErrnoIsMine
PROPERTIES
  PerrorNames
