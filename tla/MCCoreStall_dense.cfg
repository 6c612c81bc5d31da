SPECIFICATION StallSpec
CONSTANTS
  Hashes = {h}
  Skip = Skip
  NoEvent = NoEvent
  InDepth = 2
  ToHashDepth = 5
  Stages = 5
  OutDepth = 2
  FifoDepth = 10
  StallAt = 7
  BranchEvery = 1
INVARIANTS NoBranchLost
