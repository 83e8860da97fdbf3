SPECIFICATION ProvingSpec
CONSTANTS
  call1 = call1
  call2 = call2
  r1 = r1
  r2 = r2
  Requests <- MCRequests
  Workers = 2
  Calls = {call1, call2}
  NoCall = none
  Services <- MCServices
  Chain <- MCChain
  Permits = 1
INVARIANT
  SingleBlockIsForced
CHECK_DEADLOCK FALSE
