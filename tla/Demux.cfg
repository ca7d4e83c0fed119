CONSTANTS
  v = v
  a = a
  Streams = {v, a}
  File <- Short
  MinSecs = 1
  MaxPacks = 2
  MaxSeeks = 1
  MaxSwitches = 1
SPECIFICATION FairSpec
CHECK_DEADLOCK FALSE
INVARIANTS
  NoLostWakeup
  PausedMeansStopped
  PacketsInOrder
  NoMissedPacket
PROPERTY RequestsServed
