\* Three ranks, two layers, three updates of up to three microbatches.
CONSTANTS
  Rank = {r0, r1, r2}
  Main = r0
  Layer = {l1, l2}
  Steps = 3
  MaxMicro = 3
SPECIFICATION Spec
INVARIANTS TypeOK RolloutsOnPolicy CollectivesPair OccupiedUntouched
PROPERTIES EveryRankEnds KeepsOnPolicy
CHECK_DEADLOCK FALSE
