SPECIFICATION Spec
CONSTANTS
  Params = {p1}
  Forced = forced
  None = None
  Pauses <- Unpause
  EventFds <- Condition
  MaxDelay = 1
  MaxVsyncs = 2
PROPERTY FirstFrameVisible
