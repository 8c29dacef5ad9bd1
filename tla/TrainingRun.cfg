\* Four updates, the gate after the second, a checkpoint after each, three deaths.
CONSTANTS
  Steps = 4
  GateStep = 2
  SaveSteps = 1
  MaxDeaths = 3
SPECIFICATION Spec
INVARIANTS TypeOK NoStepBeyondGate ExactLineage PassMeansLineage PassedRunResumes
PROPERTIES CollectsOnPolicy
CHECK_DEADLOCK FALSE
