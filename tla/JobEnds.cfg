CONSTANTS
  i1 = i1
  i2 = i2
  j1 = j1
  Instance = {i1, i2}
  Job = {j1}
  MaxActive = 1
  Batch = 1
  MaxCrashes = 1
  Allowed = {"engine"}
SPECIFICATION FairSpec
PROPERTIES
  EveryJobEnds
CHECK_DEADLOCK FALSE
