SPECIFICATION Spec
CONSTANTS
  Addr <- MCAddr
  Byte <- MCByte
  CC = "cc"
  Code <- MCCode
  Size <- MCSize
  Succ <- MCSucc
  Insn <- MCInsn
  MayExit <- MCMayExit
  SignalAddrs = {1, 3, 5, 6}
  EntryRip = 8
  Kills = TRUE
  WordSize = 3
  TextBegin = 1
  TextEnd = 7
  Unset = 99
  BreakArgs = {1, 3, 6, 8}
  JumpArgs = {0, 1, 5}
  Rebreak = TRUE
  MaxBreakpoints = 3
INVARIANTS
  SavedCodeIsOriginal
