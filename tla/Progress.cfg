SPECIFICATION FairSpec
CONSTANTS
  o = o
  a1 = a1
  a2 = a2
  a3 = a3
  q1 = q1
  ok = ok
  bad = bad
  none = none
  nosig = nosig
  Accounts <- MCTwoAccounts
  Owner = o
  NoAccount = none
  MaxGames = 4
  Deposits = {0}
  BondAmounts = {}
  InitialBond = 0
  Vanguards = {}
  Advantages = {}
  MaxClock = 1
  Sigs <- MCSigs
  NoSig = nosig
  ValidSig = ok
  OutputFaulty <- MCOutputFaulty
  TrailFaulty <- MCTrailFaulty
  ClaimOf <- MCClaimOf
  Proposers <- MCTwoProposers
  Provers <- MCProvers
  MaxTime = 4
  ProposalTime = 1
  LastProposal = 3
  MaxSteps = 1
PROPERTIES
  CorrectProposalDecidesTournament
CHECK_DEADLOCK FALSE
