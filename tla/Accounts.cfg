SPECIFICATION Spec
CONSTANTS
  Users = {u1, u2}
  MaxSessions = 1
  Keys = {k1, k2}
  Projects = {p1, p2}
  Jobs = {j1, j2}
  Requests = {r1, r2}
  MaxActiveKeys = 1
  MaxActiveJobs = 1
  Bodies <- SomeBodies
  Limits <- ServerLimits
  Policy <- ServerPolicy
  Answer <- Public
  NULL = NULL
SYMMETRY Symmetry
INVARIANTS TypeOK LimitsOverrunBounded StoredOptionsFit
PROPERTY OwnersOnly
CHECK_DEADLOCK FALSE
