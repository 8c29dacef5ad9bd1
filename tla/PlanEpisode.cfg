\* The plan tool with one item over three steps.
CONSTANTS
  MaxSteps = 3
  MaxHandles = 3
  MaxErrorsPerType = 2
  Items = {p}
  Facts = {f}
SPECIFICATION Spec
PROPERTIES RejectionChangesNothingVisible
CHECK_DEADLOCK FALSE
