SPECIFICATION LiveSpec
CONSTANTS
  o1 = o1
  p1 = p1
  p2 = p2
  c1 = c1
  c2 = c2
  NoMember = NoMember
  Orders <- OneOrder
  Payers <- TwoPayers
  Confirmers <- TwoConfirmers
  Reconnects = TRUE
  MaxFaults = 3
INVARIANTS
  CommittedProcessed
  SagaConsistent
  ChargedOnce
  EventNeverLost
  IInv
PROPERTIES
  ImplementsSaga
  EveryOrderDecided
\* the system rests once every order is decided and every offset committed
CHECK_DEADLOCK FALSE
