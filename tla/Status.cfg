SPECIFICATION LiveSpec
CONSTANTS
  o1 = o1
  k1 = k1
  k2 = k2
  Orders <- OneOrder
  Clients <- TwoClients
  MaxAttempts = 2
  MaxFailovers = 1
INVARIANTS
  DecisionsTrue
  AcknowledgedOnce
PROPERTIES
  DbAnswersFresh
  CacheForgets
  RequestsEnd
