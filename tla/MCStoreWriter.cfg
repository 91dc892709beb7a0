SPECIFICATION Spec
CONSTANTS
  Commands = {c1, c2, c3}
  Capacity = 1
  Delays <- MCDelays
  Budget = 4
  MaxSendTime = 1
INVARIANTS
  AnswersAreTrue
PROPERTIES
  CommandsAreAnswered
CHECK_DEADLOCK FALSE
