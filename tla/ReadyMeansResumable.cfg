\* Four updates, the gate after the second, a checkpoint after each, one death.
CONSTANTS
  Steps = 4
  GateStep = 2
  SaveSteps = 1
  MaxDeaths = 1
SPECIFICATION Spec
INVARIANTS ReadyMeansResumable
CHECK_DEADLOCK FALSE
