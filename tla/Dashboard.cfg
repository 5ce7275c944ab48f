SPECIFICATION DashSpec
CONSTANTS
  Urls <- SomeUrls
  Offered <- SomeFormats
  Seconds <- SomeSeconds
  Counts <- SomeCounts
  Patterns <- SomePatterns
  Domains <- SomeDomains
  Limits <- ServerLimits
  Policy <- ServerPolicy
  Answer <- Public
  Outcomes = {"completed"}
  MaxTyped = 2
  MaxPages = 1
  MaxJobs = 2
INVARIANTS FormAgreesWithApi OneJobPerAnswer QuietPageIsFresh
PROPERTY EventuallyShowsEnd
CHECK_DEADLOCK FALSE
