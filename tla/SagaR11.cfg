SPECIFICATION LiveSpec
CONSTANTS
  o1 = o1
  p1 = p1
  p2 = p2
  c1 = c1
  c2 = c2
  NoMember = NoMember
  Orders <- OneOrder
  Payers <- OnePayer
  Confirmers <- OneConfirmer
  Reconnects = FALSE
  MaxFaults = 1
PROPERTIES
  EveryOrderDecided
\* the system rests once every order is decided and every offset committed
CHECK_DEADLOCK FALSE
