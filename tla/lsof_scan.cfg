SPECIFICATION FairSpec
CONSTANTS
  Dir = "/"
  Exe = {"sh", "su"}
  Lib = {"libdeleted"}
  Data = {"log", "data"}
  Opening <- MCOpening
  Kind <- MCKind
  Anon = "anon"
  MapLines <- MCMapLines
  SaysDeleted = {"libdeleted"}
  FD = {"0"}
  Unlinks = {"libdeleted"}
  Procs = 3
  Limit = 2
  ShownCommand = {"sh"}
  ShownType = {"REG", "CHR"}
  ShownName = {"libdeleted", "sh", "log"}
INVARIANTS
  TypeOK
  SpecialComplete
  MappedOnce
  OneHeldPerProcess
PROPERTIES
  ReadableIsListed
  RowShowsTarget
  ScanEnds
