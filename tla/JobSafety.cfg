CONSTANTS
  i1 = i1
  i2 = i2
  j1 = j1
  Instance = {i1, i2}
  Job = {j1}
  MaxActive = 1
  Batch = 1
  MaxCrashes = 0
  Allowed = {"throw", "engine", "cancel", "delete"}
SYMMETRY Instances
SPECIFICATION Spec
INVARIANTS
  EngineCalledAtMostOnce
  TimelineMatchesStatus
  CompletedScrapeHasPage
PROPERTIES
  ViewAdvances
  ImplementsJobSpec
CHECK_DEADLOCK FALSE
