SPECIFICATION LiveSpec
CONSTANTS
  t1 = t1
  t2 = t2
  t3 = t3
  Threads <- ThreeThreads
  MaxFaults = 2
INVARIANTS
  FailOpen
  StampedeBounded
PROPERTIES
  Refilled
