\* The adaptive-K configuration scores with the binary profile.
CONSTANTS
  NumPrompts = 1
  K = 2
  MaxGroup = 4
  MaxSteps = 2
  Profile = "binary"
SPECIFICATION Spec
INVARIANT NoSignalOnlyAtCap
CHECK_DEADLOCK FALSE
