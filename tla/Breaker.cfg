SPECIFICATION LiveBreakerSpec
CONSTANTS
  t1 = t1
  t2 = t2
  t3 = t3
  Threads <- ThreeThreads
  FailMax = 3
INVARIANTS
  NeverOverAsked
  RefusedOnlyWhenSpent
PROPERTIES
  FailsFast
  Recovers
