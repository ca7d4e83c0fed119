SPECIFICATION Spec
CONSTANTS
  Params = {p1}
  Forced = forced
  None = None
  Pauses <- Both
  EventFds <- Condition
  MaxDelay = 1
  MaxVsyncs = 2
INVARIANT RedrawPending
