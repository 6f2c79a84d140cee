SPECIFICATION FairSpec
CONSTANTS
  Input = Input
  Output = Output
  Nobody = Nobody
  MemoryFails = TRUE
  Files = {1, 2, 3}
  Folders = {{2}, {1, 3}, {1, 2}}
  Jpg = {1, 3}
  Modes = {"existing", "new"}
  Removing = {TRUE, FALSE}
  Wanted = {1, 2}
  MaxReads = 3
  MaxWrites = 1
  Names = {n1}
  NoName = NoName
  MaxRequests = 1
INVARIANTS TypeOK
PROPERTIES ServedInTurn LatestPicture RequestAnswered
CHECK_DEADLOCK FALSE
