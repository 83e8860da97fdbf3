SPECIFICATION Spec
CONSTANTS
  o = o
  a1 = a1
  a2 = a2
  a3 = a3
  q1 = q1
  ok = ok
  bad = bad
  none = none
  nosig = nosig
  Accounts <- MCAccounts
  Owner = o
  NoAccount = none
  MaxGames = 5
  Deposits = {0}
  BondAmounts = {}
  InitialBond = 0
  Vanguards = {}
  Advantages = {}
  MaxClock = 1
  Sigs <- MCSigs
  NoSig = nosig
  ValidSig = ok
  OutputFaulty <- MCOutputFaulty
  TrailFaulty <- MCTrailFaulty
  ClaimOf <- MCClaimOf
  Proposers <- MCProposers
  Provers <- MCProvers
  MaxTime = 3
  ProposalTime = 1
  LastProposal = 3
  MaxSteps = 2
INVARIANTS
  ResolvedFormOneChain
  HonestNeverEliminated
  EliminateNeverBlocks
  ResolvedIsSoleSurvivor
  IInv
PROPERTIES
  DecisionIsFinal
SYMMETRY MCSymmetry
CHECK_DEADLOCK FALSE
