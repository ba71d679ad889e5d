SPECIFICATION Spec
CONSTANTS
  a1 = a1
  a2 = a2
  d1 = d1
  None = None
  Lanes <- MCLanes
  Half = 16
  MaxOwed = 16
  ErrAnswers = FALSE
  Commands <- MCOneCommand
INVARIANTS
  PendingSupported
