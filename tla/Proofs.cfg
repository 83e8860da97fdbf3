SPECIFICATION ProofsSpec
CONSTANTS
  key1 = key1
  key2 = key2
  local1 = local1
  HashKeys = {key1, key2}
  LocalKeys = {local1}
  Wrong = wrong
  NoKey = none
  SizeOf <- MCSizes
  ShardSizes = {1, 2, 3}
  MaxReads = 5
  MaxRepeats = 3
  Forgeries <- MCForgeries
  FieldsPerBlob = 2
  Modulus = 13
  Hosts <- MCHosts
  Shapes <- MCShapes
  Elements <- MCElements
  Claims <- MCClaims
  call1 = call1
  call2 = call2
  r1 = r1
  r2 = r2
  Requests <- MCRequests
  Workers = 2
  Calls = {call1, call2}
  NoCall = none
  Services <- MCServices
  Chain <- MCChain
  Permits = 1
INVARIANTS
  AnswersAreBinding
  ReplayServesAll
  ProvenOutputsAreDerived
  ProvenPreconditionsHold
  WellFormedIsProvable
  StatusIsRight
  ProofsAreAccepted
  PartsTile
  NeverPanics
  DoneIsProven
  FailsForCause
  NoNeedlessOrder
PROPERTIES
  ProverEnds
  CallsEnd
CHECK_DEADLOCK FALSE
