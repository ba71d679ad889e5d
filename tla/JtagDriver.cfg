SPECIFICATION Spec
CONSTANTS
  SyncStages = 2
  Sims = {"debug", "default"}
  Scripts <- MCScripts
  NumIdle = 8
  HalfPeriod = 10
  TimeLimit = 10000
  DefaultLimit = 60
  TapGarbage <- AnyTapState
  StateGarbage <- ZeroState
  IntGarbage <- MCIntGarbage
INVARIANTS
  TypeOK
  InStep
  ResetSynchronised
  ScansAfterReset
  DeliveredInOrder
  BusyAvoided
  ScriptFits
CHECK_DEADLOCK FALSE
