SPECIFICATION FairValidatorSpec
CONSTANTS
  p1 = p1
  p2 = p2
  none = none
  Proposers <- MCProposers
  NoProposer = none
  Timeout = 1
  MaxGames = 3
  FaultyClaims = {TRUE, FALSE}
  MaxForeign = 1
  MaxTime = 1
  Span = 2
  InitialSafe = {5}
  MaxSafe = 5
  MaxCrashes = 1
  MaxFailures = 0
  Configs <- MCConfigs
  Provers = 1
  MaxErrors = 1
INVARIANTS
  NoFaultForgotten
  WorkFindsItsData
PROPERTIES
  FaultIsRefuted
CHECK_DEADLOCK FALSE
