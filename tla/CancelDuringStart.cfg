CONSTANTS
  i1 = i1
  i2 = i2
  j1 = j1
  j2 = j2
  Instance = {i1}
  Job = {j1}
  MaxActive = 1
  Batch = 1
  MaxCrashes = 0
  Allowed = {"cancel"}
SPECIFICATION Spec
INVARIANTS CancelledCrawlIsStopped
CHECK_DEADLOCK FALSE
