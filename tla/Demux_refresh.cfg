CONSTANTS
  v = v
  a = a
  Streams = {v, a}
  File <- Interleaved
  MinSecs = 3
  MaxPacks = 9
  MaxSeeks = 0
  MaxSwitches = 1
SPECIFICATION Spec
CHECK_DEADLOCK FALSE
PROPERTY RefreshGrabsMissing
