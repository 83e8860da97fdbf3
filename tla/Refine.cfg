SPECIFICATION TimelySpec
CONSTANTS
  o = o
  a1 = a1
  a2 = a2
  a3 = a3
  q1 = q1
  ok = ok
  bad = bad
  none = none
  nosig = nosig
  Accounts <- MCAccounts
  Owner = o
  NoAccount = none
  MaxGames = 4
  Deposits = {0}
  BondAmounts = {}
  InitialBond = 0
  Vanguards = {}
  Advantages = {}
  MaxClock = 2
  Sigs <- MCSigs
  NoSig = nosig
  ValidSig = ok
  OutputFaulty <- MCOutputFaulty
  TrailFaulty <- MCTrailFaulty
  ClaimOf <- MCClaimOf
  Proposers <- MCProposers
  Provers <- MCProvers
  MaxTime = 5
  ProposalTime = 1
  LastProposal = 4
  MaxSteps = 2
PROPERTIES
  ImplementsLedger
SYMMETRY MCSymmetry
CHECK_DEADLOCK FALSE
