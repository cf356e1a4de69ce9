SPECIFICATION Spec
CONSTANTS
  MinChunk = 4
  SegChunk = 4
  MState = 4
  SmallLimit = 8
  Granularity = 24
  TrimThreshold = 20
  MmapThreshold = 18
  CheckRate = 2
  Space = 96
  Requests = {3, 5, 9, 20}
  MaxLive = 2
  None = None
INVARIANTS TypeOK Tiled TagsAgree Filing BlocksKept
PROPERTY Apart
