SPECIFICATION Spec
CONSTANTS
  MaxTasks = 3
  DramPEs = {d1}
  HbmPEs = {}
  BramPEs = {b1}
  RiscvPEs = {}
  NoPE = NoPE
  File = 8450032
  InstmemNonzero = 65536
  Inputs = {1, 17}
  BitmapLen = 8192
INVARIANTS TypeOK ResultIsOwn AllFreed NoStaleCache
CHECK_DEADLOCK FALSE
PROPERTIES SharesPEs
