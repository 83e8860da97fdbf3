SPECIFICATION RpcSpec
CONSTANTS
  p1 = p1
  p2 = p2
  none = none
  Proposers <- MCProposers
  NoProposer = none
  Timeout = 1
  MaxGames = 4
  FaultyClaims = {FALSE}
  MaxForeign = 1
  MaxTime = 1
  Span = 2
  InitialSafe = {7}
  MaxSafe = 7
  MaxCrashes = 1
  MaxFailures = 1
INVARIANTS
  SuccessorIsSurvivor
  EliminationsAgreeWithTreasury
  TipExtendsResolved
  AnswersBecomeFinal
SYMMETRY MCSymmetry
CHECK_DEADLOCK FALSE
