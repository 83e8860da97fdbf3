SPECIFICATION GuestSpec
CONSTANTS
  key1 = key1
  key2 = key2
  local1 = local1
  HashKeys = {key1, key2}
  LocalKeys = {local1}
  Wrong = wrong
  NoKey = none
  SizeOf <- MCSizes
  ShardSizes = {1, 2, 3}
  MaxReads = 5
  MaxRepeats = 3
  Forgeries <- MCForgeries
  FieldsPerBlob = 2
  Modulus = 13
  Hosts <- MCHosts
  Shapes <- MCShapes
  Elements <- MCElements
  Claims <- MCClaims
INVARIANTS
  EveryProofIsAccepted
CHECK_DEADLOCK FALSE
