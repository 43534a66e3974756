SPECIFICATION MmSpec
CONSTANTS
  Proc = {p1, p2}
  InitProc = p1
  NFRAME = 16
  PGSIZE = 2
  NPT = 2
  WORD_SIZE = 16
  USERBASE = 2
  USERTOP = 12
  USTACKSIZE = 6
  StackPages = 2
  MaxKmalloc = 4
  MaxCalls = 4
  Program <- MCProgram
INVARIANTS MemoryExact AreasCoverPages UserMemExact
PROPERTY ForkCopies
CHECK_DEADLOCK FALSE
