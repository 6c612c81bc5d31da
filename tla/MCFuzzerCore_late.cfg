SPECIFICATION Spec
CONSTANTS
  GoodSizes = {2}
  BadSizes = {}
  Timeouts = {0, 2}
  MaxCount = 4
  Hashes = {0}
  Skip = Skip
  NoEvent = NoEvent
  InDepth = 1
  ToHashDepth = 1
  Stages = 1
  OutDepth = 1
  NoReq = NoReq
  NoClear = NoClear
  Begin = 2
  MemSize = 4
  WordBytes = 2
  FifoDepth = 1
  StallAt = 1
  CountMax = 2
  PendingMax = 1
  IdDepth = 2
  LateExits = TRUE
INVARIANTS IrqHasCause
