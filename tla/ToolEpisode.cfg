\* Relations, caches, timeouts and answers over four steps; no plan items.
CONSTANTS
  MaxSteps = 4
  MaxHandles = 4
  MaxErrorsPerType = 2
  Items = {}
  Facts = {f}
SPECIFICATION Spec
INVARIANTS TypeOK HarnessCoherent HandlesGrounded HistoryIsLegal VerdictExplained
PROPERTIES TimeoutPreservesState HandlesAreForever KeepsEpisodePromise
CHECK_DEADLOCK FALSE
