SPECIFICATION FairSpec
CONSTANTS
  RespMax = 3
  BeatMax = 7
  FifoDepth = 2
  MinLen = 0
  MaxLen = 2
  CoreReads = 1
  CoreWrites = 1
PROPERTIES ResetEnds
