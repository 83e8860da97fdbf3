SPECIFICATION MCSpec
CONSTANTS
  me = me
  r1 = r1
  none = none
  Me = me
  Proposers <- MCProposers
  NoProposer = none
  Timeout = 1
  MaxGames = 5
  FaultyClaims = {TRUE, FALSE}
  MaxForeign = 0
  MaxTime = 1
  Span = 2
  InitialSafe = {0, 5}
  MaxSafe = 5
  MaxCrashes = 1
  MaxFailures = 0
  Vanguard = r1
  Advantage = 1
  ProposalTime = 0
  Limit = 128
  MaxRivalGames = 2
  MaxTimeouts = 1
INVARIANTS
  BlamesOnlyFaulty
  BondIsSafe
  ProposesOnlyNeeded
PROPERTIES
  ResolvesWhatIsDue
CHECK_DEADLOCK FALSE
