SPECIFICATION LiveSpec
CONSTANTS
  n1 = n1
  p1 = p1
  x1 = x1
  i1 = i1
  o1 = o1
  o2 = o2
  o3 = o3
  u1 = u1
  c1 = c1
  c2 = c2
  c3 = c3
  Normal <- JustNormal
  Poison <- JustPoison
  Crash <- None
  Idempotent <- None
  Ordered <- None
  Unknown <- None
  Consumers <- ThreeConsumers
  Containers = 2
  MaxFaults = 1
INVARIANTS
  BuriedAfterAllAttempts
  CopiesBounded
PROPERTIES
  ImplementsDelivery
  EveryMessageSettles
\* the system rests when every queue is empty
CHECK_DEADLOCK FALSE
