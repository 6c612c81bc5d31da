SPECIFICATION Spec
CONSTANTS
  RespMax = 3
  BeatMax = 7
  FifoDepth = 3
  MinLen = 1
  MaxLen = 2
  CoreReads = 2
  CoreWrites = 2
INVARIANTS TypeOK CountersMatchBus NoForgottenRead NoForgottenWrite BurstsComplete OffersKept OnlyDummiesMasked
