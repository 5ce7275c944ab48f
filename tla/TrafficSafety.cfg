CONSTANTS
  d = d
  a = a
  b = b
  finalize = finalize
  w1 = w1
  w2 = w2
  c1 = c1
  c2 = c2
  Domain = {d}
  PerDomain = 2
  Collector = {a, b}
  Finalize = finalize
  Worker = {w1, w2}
  Client = {c1, c2}
  Cap <- CapOne
  Attempts <- CapOne
  Defers = 0
  Sweep = 1
  Faults = {"late"}
  MaxCrashes = 0
SPECIFICATION Spec
INVARIANTS
  RunningWithinCap
  OneCollectingRun
  EstimateUsesEverySource
PROPERTIES
  EndedRunStaysEnded
SYMMETRY Symmetry
CHECK_DEADLOCK FALSE
