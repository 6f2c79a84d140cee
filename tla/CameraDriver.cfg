SPECIFICATION FairSpec
CONSTANTS
  Lengths = {1, 6}
  MaxPicture = 4
INVARIANTS TypeOK FreshCapture NoStrayByte
PROPERTIES TestPasses CaptureReturns
CHECK_DEADLOCK FALSE
