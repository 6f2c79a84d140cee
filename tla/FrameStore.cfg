SPECIFICATION FairSpec
CONSTANTS
  s1 = s1
  s2 = s2
  n1 = n1
  Streamers = {s1}
  Snapshotters = {n1}
  Camera = Camera
  Nobody = Nobody
  MaxGrab = 4
  Every = 2
  SmallFrames = {3}
  FramePeriod = 2
  WantTimestamp = FALSE
  Spurious = TRUE
INVARIANTS TypeOK MutualExclusion WholePicture StreamInOrder
PROPERTIES SoftFpsSpacing LatestPicture EveryWaiterServed
