CONSTANTS
  max_events = 2
  Concurrent = TRUE
  MaxEvents = 1
  MaxRequests = 1
  MaxWakeups = 0
SPECIFICATION Spec
CHECK_DEADLOCK FALSE
INVARIANT NoLostWakeup
