SPECIFICATION Spec
CONSTANTS
  Params = {p1, p2}
  Forced = forced
  None = None
  Pauses <- Both
  EventFds <- Both
  MaxDelay = 1
  MaxVsyncs = 2
SYMMETRY Symmetry
INVARIANT QueueAsserts
INVARIANT NoLostWakeup
INVARIANT DrawsMatchPool
PROPERTY OldFramesForgotten
