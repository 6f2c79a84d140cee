SPECIFICATION FairSpec
CONSTANTS
  Commanders = {c1}
  Camera = Camera
  Resolutions = {1, 2}
  MaxSession = 3
  DvTimings = TRUE
  Faults = TRUE
INVARIANTS TypeOK StreamsWhole CopiesFit
PROPERTIES PauseEnds
CHECK_DEADLOCK FALSE
