SPECIFICATION PersistentSpec
CONSTANTS
  Addr <- MCAddr
  Byte <- MCByte
  CC = "cc"
  Code <- MCCode
  Size <- MCSize
  Succ <- StraightSucc
  Insn <- MCInsn
  MayExit <- MCMayExit
  SignalAddrs = {}
  EntryRip = 8
  Kills = FALSE
  WordSize = 3
  TextBegin = 1
  TextEnd = 7
  Unset = 99
  BreakArgs = {1, 3, 6, 8}
  JumpArgs = {}
  Rebreak = FALSE
  MaxBreakpoints = 3
PROPERTIES
  StepReturns
  SessionEnds
