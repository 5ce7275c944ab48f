CONSTANTS
  c1 = c1  c2 = c2
  Client <- TwoClients
  Targets <- MCTargets
  Answers <- MCAnswers
  Config <- MCConfig
  MaxTunnels = 1
SPECIFICATION FairSpec
INVARIANTS
  TunnelsCounted
  ConnectsOnlyToVetted
  PreflightAgrees
PROPERTIES
  EveryRequestSettles
CHECK_DEADLOCK FALSE
