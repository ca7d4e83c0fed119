CONSTANTS
  c1 = c1
  c2 = c2
  p1 = p1
  p2 = p2
  Converters = {c1, c2}
  IMG_QUEUE_SIZE_YUV = 1
  IMG_QUEUE_SIZE_RGB = 1
  IdHalf = 4
  Params = {p1}
  NoImage = NoImage
  None = None
  MaxFrames = 3
SPECIFICATION Spec
CHECK_DEADLOCK FALSE
INVARIANT RgbUnitsKept
