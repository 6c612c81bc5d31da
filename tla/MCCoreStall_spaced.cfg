SPECIFICATION StallFairSpec
CONSTANTS
  Hashes = {h1, h2}
  Skip = Skip
  NoEvent = NoEvent
  InDepth = 2
  ToHashDepth = 5
  Stages = 5
  OutDepth = 2
  FifoDepth = 10
  StallAt = 7
  BranchEvery = 2
INVARIANTS NoBranchLost ResetBetweenRuns
PROPERTIES IsQueue Drains
