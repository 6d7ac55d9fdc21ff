SPECIFICATION Spec
CONSTANTS
  Thread = {"t1", "t2"}
  Path = {"a", "b"}
  FD <- MCFD
  OutFd = 3
  TmpFiles = TRUE
  MaxCalls = 3
INVARIANTS
  TypeOK
  LineNamesFile
  LinesInOutput
