SPECIFICATION ContractsSpec
CONSTANTS
  o = o
  a1 = a1
  a2 = a2
  a3 = a3
  q1 = q1
  ok = ok
  bad = bad
  none = none
  nosig = nosig
  Accounts <- MCTwoAccounts
  Owner = o
  NoAccount = none
  MaxGames = 4
  Deposits = {0, 1}
  BondAmounts = {2}
  InitialBond = 1
  Vanguards = {a1}
  Advantages = {1}
  MaxClock = 1
  Sigs <- MCSigs
  NoSig = nosig
  ValidSig = ok
  OutputFaulty = {}
  TrailFaulty <- MCOutputFaulty
  ClaimOf <- MCSameClaim
  Proposers <- MCTwoProposers
  Provers <- MCProvers
  MaxTime = 3
  ProposalTime = 1
  LastProposal = 3
  MaxSteps = 1
  MaxChildren = 3
  MaxCreated = 1
  MaxLimit = 6
  Signatures = {s1, s2}
INVARIANTS
  LoopComputesOutcome
  ProgressIsResumable
  ResolveLimitSettles
  BondsBacked
PROPERTIES
  CallTerminates
  EliminationIsBonded
  SlashedBondOnlyToProver
CHECK_DEADLOCK FALSE
