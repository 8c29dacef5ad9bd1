\* What the reward and the tool protocol say of a terminal answer.
CONSTANTS
  MaxSteps = 3
  MaxHandles = 3
  MaxErrorsPerType = 2
  Items = {}
  Facts = {f}
SPECIFICATION Spec
INVARIANT CorrectAnswerIsResident
CHECK_DEADLOCK FALSE
