SPECIFICATION FairSpec
CONSTANTS
  NumM = 2
  NumS = 2
  Space = 8
  Half = 4
  Lanes <- MCLanes
  base_addr <- TwoBase
  size <- TwoSize
  Commands <- TwoUnmapped
  MayAsk <- MCMayAsk
  Stallable = {}
  MaxOutstanding = 2
  StallIdle = FALSE
PROPERTIES
  EveryStbAnswered
