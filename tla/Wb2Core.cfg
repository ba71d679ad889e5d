SPECIFICATION Spec
CONSTANTS
  a1 = a1
  a2 = a2
  d1 = d1
  Half = 16
  Lanes <- MCLanes
  Commands <- MCCommands
  MaxWaiting = 2
  Prompt = TRUE
INVARIANTS
  AnswersOwner
