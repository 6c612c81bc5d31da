SPECIFICATION Spec
CONSTANTS
  Hashes = {0, 7}
  NoReq = NoReq
  Sizes = {2, 8}
  NoClear = NoClear
  Begin = 2
  MemSize = 10
  WordBytes = 2
  FifoDepth = 2
  StallAt = 1
  CountMax = 2
  PendingMax = 2
  IdDepth = 3
  ExtBeats = {1, 2}
PROPERTIES OnlyBitmapWritten
INVARIANTS TypeOK FlushedIsExact PendingMatchesBus DataMeetAddress
