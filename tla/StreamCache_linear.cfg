CONSTANTS
  FileSize = 6
  Kinds = {FALSE}
  Size = 3
  Sizes = {2, 3}
  ShrinkLinear = TRUE
  BackBuffer = 2
  SeekMin = 2
  ReadChunk = 2
  Initial = 1
  ReadLens = {2}
  SeekPos = {1, 4}
  MaxCalls = 3
  MaxFails = 0
  MayCancel = FALSE
SPECIFICATION Spec
CHECK_DEADLOCK FALSE
INVARIANT BytesIntact
