SPECIFICATION Spec
CONSTANTS
  n1 = n1
  p1 = p1
  x1 = x1
  i1 = i1
  o1 = o1
  o2 = o2
  o3 = o3
  u1 = u1
  c1 = c1
  c2 = c2
  c3 = c3
  Normal <- None
  Poison <- None
  Crash <- JustCrash
  Idempotent <- JustIdempotent
  Ordered <- ThreeOrdered
  Unknown <- JustUnknown
  Consumers <- ThreeConsumers
  Containers = 1
  MaxFaults = 1
SYMMETRY Symmetry
INVARIANTS
  CompletedInOrder
  NothingLost
  IdempotentOnce
\* the system rests when every queue is empty
CHECK_DEADLOCK FALSE
