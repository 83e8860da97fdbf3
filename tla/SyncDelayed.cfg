SPECIFICATION RpcSpec
CONSTANTS
  p1 = p1
  p2 = p2
  none = none
  Proposers <- MCProposers
  NoProposer = none
  Timeout = 1
  MaxGames = 3
  FaultyClaims = {FALSE}
  MaxForeign = 0
  MaxTime = 1
  Span = 3
  InitialSafe = {0}
  MaxSafe = 6
  MaxCrashes = 0
  MaxFailures = 0
INVARIANTS
  DelayedStaysQueued
SYMMETRY MCSymmetry
CHECK_DEADLOCK FALSE
