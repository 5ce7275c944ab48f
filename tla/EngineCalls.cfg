SPECIFICATION CallSpec
\* 5 s is one unit of time; OrphanLimit is the least the assumption admits.
CONSTANTS
  ScrapeTimeout = 3
  Request = 6
  Probe = 4
  Catalog = 3
  Fetch = 2
  Grace = 1
  MinFetch = 1
  Sitemap = 4
  OrphanLimit = 19
  Size = 2
  Parallel = 2
  Budgets <- SmallBudgets
  ShopSizes <- SmallShops
  OtherPages <- FewPages
  d1 = d1
  d2 = d2
  Domain = {d1, d2}
  Invalid = Invalid
  Chunk = 1
  Timeout = 1
  Wait = 2
  Poll = 1
  MaxRuns = 2
INVARIANTS
  CallSettlesInTime
  ScrapeKeepsSuccess
  CatalogIsWhole
  BudgetIsFilled
  TrafficAnswerIsCurrent
SYMMETRY Symmetry
CHECK_DEADLOCK FALSE
