SPECIFICATION Spec
CONSTANTS
  SyncStages = 2
  Sims = {"debug"}
  Scripts <- RealScript
  NumIdle = 8
  HalfPeriod = 10
  TimeLimit = 10000
  DefaultLimit = 60
  TapGarbage <- ZeroState
  StateGarbage <- ZeroState
  IntGarbage = {0}
INVARIANTS
  FrontExists
CHECK_DEADLOCK FALSE
