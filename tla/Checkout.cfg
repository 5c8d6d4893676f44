SPECIFICATION LiveSpec
CONSTANTS
  r1 = r1
  r2 = r2
  x1 = x1
  c1 = c1
  c2 = c2
  Requests <- TwoRequests
  Malformed <- OneMalformed
  Consumers <- TwoConsumers
  MaxFaults = 2
INVARIANTS
  AnswersTrue
  LoggedAgainByFault
PROPERTIES
  ImplementsDelivery
  AnsweredLogged
\* the system rests when every checkout is answered and the queue is empty
CHECK_DEADLOCK FALSE
