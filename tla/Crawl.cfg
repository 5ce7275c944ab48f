CONSTANTS
  i1 = i1
  i2 = i2
  a = a
  b = b
  Instance = {i1, i2}
  Page = {a, b}
  PageSize = 1
  PerCall = 1
  Rounds = 1
  Faults = {"engine", "forget", "throw", "cancel", "late"}
  MaxFaults = 1
SPECIFICATION Spec
INVARIANTS
  CompletedCrawlIsComplete
  CountersMatchRows
  FiguresAgree
PROPERTIES
  ViewAdvances
SYMMETRY Symmetry
CHECK_DEADLOCK FALSE
