SPECIFICATION Spec
CONSTANTS
  Addr <- MCAddr
  Byte <- MCByte
  CC = "cc"
  Code <- MCCode
  Size <- MCSize
  Succ <- MCSucc
  Insn <- MCInsn
  MayExit <- MCMayExit
  SignalAddrs = {1, 2, 3, 4, 5, 6, 8}
  EntryRip = 8
  Kills = TRUE
  WordSize = 3
  TextBegin = 1
  TextEnd = 7
  Unset = 99
  BreakArgs = {1, 2, 3, 5, 6, 8}
  JumpArgs = {0, 2, 9}
  Rebreak = FALSE
  MaxBreakpoints = 2
INVARIANTS
  TableMatchesMemory
PROPERTIES
  NoMissedBreakpoint
