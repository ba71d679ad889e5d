SPECIFICATION FairSpec
CONSTANTS
  NumM = 3
  NumS = 2
  Space = 8
  Half = 4
  Lanes <- MCLanes
  base_addr <- TwoBase
  size <- TwoSize
  Commands <- TwoMapped
  MayAsk <- MCMayAsk
  Stallable = {1}
  MaxOutstanding = 2
  StallIdle = FALSE
INVARIANTS
  CountsExact
  AnswerReachesOwner
  AnswerMatchesRequest
  AcceptedOnce
PROPERTIES
  AnsweredNextCycle
  ServedAfterOthers
