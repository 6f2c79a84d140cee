SPECIFICATION FairSpec
CONSTANTS
  Pictures <- MCPictures
  BUFFER_SIZE = 9
  NETBUFFER_SIZE = 3
  MaxPictures = 2
  MaxConnects = 2
INVARIANTS TypeOK LengthInBounds
PROPERTIES FaithfulRelay PicturePublished WorkerLeaves
CHECK_DEADLOCK FALSE
