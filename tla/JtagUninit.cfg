SPECIFICATION Spec
CONSTANTS
  SyncStages = 2
  Sims = {"debug"}
  Scripts <- MCScripts
  NumIdle = 8
  HalfPeriod = 10
  TimeLimit = 10000
  DefaultLimit = 60
  TapGarbage <- ZeroState
  StateGarbage <- AnyState
  IntGarbage <- MCIntGarbage
INVARIANTS
  DeliveredInOrder
CHECK_DEADLOCK FALSE
