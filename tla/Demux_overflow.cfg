CONSTANTS
  v = v
  a = a
  Streams = {v, a}
  File <- Short
  MinSecs = 1
  MaxPacks = 1
  MaxSeeks = 0
  MaxSwitches = 0
SPECIFICATION Spec
CHECK_DEADLOCK FALSE
INVARIANT NoMissedCallback
