\* One prompt, episodes of up to three turns, the profile that trains on truncated carriers.
CONSTANTS
  NumPrompts = 1
  K = 2
  MaxGroup = 3
  MaxSteps = 3
  Profile = "four-level"
SPECIFICATION Spec
INVARIANTS TypeOK TurnsAligned
PROPERTIES CollectEnds
CHECK_DEADLOCK FALSE
