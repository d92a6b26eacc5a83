SPECIFICATION FairSpec
CONSTANTS
  Sessions = {s1, s2}
  Conns = {c1, c2}
  None = None
  Life = 1
  Configured = 1
  DefaultTimeout = 11
  Skew = 1
INVARIANTS TypeOK NeverUnauthorized PoolHoldsOnlyValidated WaitsForItsAnswer
PROPERTIES SendsToFreshTee OverrunIsBounded RequestsAreTrusted CallsEnd HealthyCallsAreServed
