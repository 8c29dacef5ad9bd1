\* Two prompts of two rows, extended up to five in steps of two.
CONSTANTS
  NumPrompts = 2
  K = 2
  MaxGroup = 5
  MaxSteps = 1
  Profile = "binary"
SPECIFICATION Spec
INVARIANTS IndicesGapless HomogeneousOnlyAtCap
PROPERTIES MixedNeverExtended KeepsGroupSampling
CHECK_DEADLOCK FALSE
