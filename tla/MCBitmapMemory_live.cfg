SPECIFICATION FairSpec
CONSTANTS
  Hashes = {0}
  NoReq = NoReq
  Sizes = {2}
  NoClear = NoClear
  Begin = 2
  MemSize = 4
  WordBytes = 2
  FifoDepth = 2
  StallAt = 1
  CountMax = 1
  PendingMax = 1
  IdDepth = 2
  ExtBeats = {1}
PROPERTIES HitsReachMemory ClearEnds
