SPECIFICATION Spec
CONSTANTS
  Lines = 6
  Overlap = TRUE
PROPERTIES StartWaitsForFlush
