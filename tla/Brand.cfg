CONSTANTS
  r1 = r1  r2 = r2
  Call <- TwoCalls
  Shade <- MCShade
  Delta <- MCDelta
  Page <- MCPage
  MaxConcurrency = 1
  MaxRestarts = 1
SPECIFICATION FairSpec
INVARIANTS
  SlotsAreUsed
  LogoImageIsOfChosen
  RolesAreBrandColors
PROPERTIES
  EveryCallSettles
CHECK_DEADLOCK FALSE
