SPECIFICATION Spec
CONSTANTS
  j1 = j1  u1 = u1  u2 = u2  u3 = u3
  w1 = w1  w2 = w2  w3 = w3  w4 = w4
  Job <- Jobs
  Writer <- Writers
  JobOf <- MCJobOf
  UrlOf <- MCUrlOf
  PageSize = 2
  MaxBytes = 3
  Slack = 1
  Faults = {"storage", "crash"}
INVARIANTS
  RowHasBlob
  NothingLeftBehind
  DeletedResultsAreGone
  ReadingMissesNothing
SYMMETRY Symmetry
CHECK_DEADLOCK FALSE
