CONSTANTS
  v = v
  a = a
  Streams = {v, a}
  File <- Short
  MinSecs = 1
  MaxPacks = 9
  MaxSeeks = 1
  MaxSwitches = 0
SPECIFICATION Spec
CHECK_DEADLOCK FALSE
INVARIANT EofIsReal
