CONSTANTS
  d = d
  a = a
  finalize = finalize
  w1 = w1
  c = c
  Domain = {d}
  PerDomain = 2
  Collector = {a}
  Finalize = finalize
  Worker = {w1}
  Client = {c}
  Cap <- CapOne
  Attempts <- AttemptsFew
  Defers = 1
  Sweep = 1
  Faults = {"throw"}
  MaxCrashes = 1
SPECIFICATION FairSpec
PROPERTIES
  EveryRunEndsOrIsLost
CHECK_DEADLOCK FALSE
