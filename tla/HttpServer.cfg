SPECIFICATION FairSpec
CONSTANTS
  p1 = p1
  p2 = p2
  Nobody = Nobody
  MaxFailures = 1
  Sockets = {0}
  Descriptors = {7, 8}
  Peers = {p1, p2}
  Requests <- MCRequests
  Options <- MCOptions
INVARIANTS TypeOK ChildForEveryClient Denied OneAnswer
PROPERTIES Served
CHECK_DEADLOCK FALSE
