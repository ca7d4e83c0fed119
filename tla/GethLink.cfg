CONSTANTS
  Units <- MCUnits
  MaxImages = 3
  Size = 2
  Ok = Ok
  Failed = Failed
  Null = Null
  Packets = 2
  MaxFailures = 1
  IdlePolls = 1
  SyncFrames = 1
SPECIFICATION FairSpec
INVARIANTS CopiesOwned ScreenCleared
PROPERTIES ImplementsFifo GoesBlank DeinitEnds
CHECK_DEADLOCK FALSE
