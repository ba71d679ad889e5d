SPECIFICATION SocSpec
CONSTANTS
  NumM = 3
  NumS = 3
  Space = 8
  Half = 4
  Lanes <- MCLanes
  Bytes <- MCBytes
  RamWords = 2
  LedWords = 2
  LedStates = 2
  VMem <- MCVMem
  NoData = NoData
  base_addr <- MCBase
  size <- MCSize
  Commands <- MCCommands
  MayAsk <- MCMayAsk
  Stallable = {}
  MaxOutstanding = 2
  StallIdle = FALSE
  Watched = 1
INVARIANTS
  SocTypeOK
PROPERTIES
  AtomicMemory
  ComponentsFit
