SPECIFICATION Spec
CONSTANTS
  Dir = "/"
  Exe = {"sh", "su"}
  Lib = {"libc"}
  Data = {"log", "data"}
  Opening <- MCOpening
  Kind <- MCKind
  Anon = "anon"
  MapLines <- MCMapLines
  SaysDeleted = {}
  FD = {"0"}
  Unlinks = {"libc"}
  Procs = 1
  Limit = 1
  ShownCommand = {"sh"}
  ShownType = {"REG", "CHR"}
  ShownName = {"libc", "sh", "log"}
PROPERTIES
  DeletedIsDEL
