SPECIFICATION FairSpec
CONSTANTS
  Lines = 6
  Overlap = FALSE
INVARIANTS NoStaleRun
PROPERTIES StartWaitsForFlush StartHappens
