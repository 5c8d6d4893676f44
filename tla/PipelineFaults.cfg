SPECIFICATION LiveSpec
CONSTANTS
  v1 = v1
  b1 = b1
  c1 = c1
  c2 = c2
  MaxReceives = 3
  BatchSize = 2
  Valid <- OneValid
  Invalid <- OneInvalid
  Consumers <- TwoConsumers
  MaxFaults = 3
INVARIANTS
  BuriedByFaultsOnly
  ArchivedUnlessFaults
PROPERTIES
  ImplementsDelivery
  EventsSettle
CHECK_DEADLOCK FALSE
