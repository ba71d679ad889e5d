SPECIFICATION Spec
CONSTANTS
  a1 = a1
  a2 = a2
  d1 = d1
  None = None
  Lanes <- MCLanes
  Half = 4
  MaxOwed = 3
  ErrAnswers = TRUE
  Commands <- MCOneCommand
INVARIANTS
  CycFrames
