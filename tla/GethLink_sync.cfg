CONSTANTS
  Units <- MCUnits
  MaxImages = 3
  Size = 2
  Ok = Ok
  Failed = Failed
  Null = Null
  Packets = 2
  MaxFailures = 0
  IdlePolls = 1
  SyncFrames = 3
SPECIFICATION Spec
INVARIANT SyncTables
CHECK_DEADLOCK FALSE
