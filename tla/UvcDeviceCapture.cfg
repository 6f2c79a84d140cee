SPECIFICATION FairSpec
CONSTANTS
  Commanders = {c1}
  Camera = Camera
  Resolutions = {1, 2}
  MaxSession = 2
  DvTimings = FALSE
  Faults = FALSE
INVARIANT CaptureSurvives
CHECK_DEADLOCK FALSE
