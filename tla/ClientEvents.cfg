CONSTANTS
  max_events = 2
  Concurrent = FALSE
  MaxEvents = 4
  MaxRequests = 3
  MaxWakeups = 1
SPECIFICATION FairSpec
CHECK_DEADLOCK FALSE
INVARIANTS
  RepliesSafe
  RepliesInOrder
  LossReported
  NoLostWakeup
  CallbackAnnounces
PROPERTY WaitsEnd
