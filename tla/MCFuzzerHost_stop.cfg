SPECIFICATION FairSpec
CONSTANTS
  MaxThreads = 2
  MaxSims = 2
  ShmemLen = 4096
  BitmapLens = {4096, 8192}
  InputLens = {16, 5000}
  Retvals = {0, 5}
INVARIANTS TypeOK AnswerIsOwn NoOrphan BrokerOutlives
PROPERTIES StopEnds
CHECK_DEADLOCK FALSE
