SPECIFICATION FairSpec
CONSTANTS
  Setups <- MCSetups
  Chunks = 4
  ReadCap = 2
  EventCap = 2
  BufCap = 3

INVARIANTS UsageSettled EverythingDelivered ReplayExact
PROPERTIES GoroutinesEnd RequestReturns DeliveryImplemented
\* a finished request has no further step
CHECK_DEADLOCK FALSE
