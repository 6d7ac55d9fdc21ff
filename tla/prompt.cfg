SPECIFICATION Spec
CONSTANTS
  Word = {"get", "set", "disasm", "exit", "rax", "0", "2", "9", "-1", "-3"}
  Number <- MCNumber
  Reg = {"rax"}
  MaxLine = 6
  Half = 8
  WordSize = 4
  N_DISASM_INS = 3
  Files <- MCFiles
INVARIANTS
  TypeOK
  CmdsAreWords
  GetAnswersSet
  ListingIsProgram
PROPERTIES
  LineAnswered
