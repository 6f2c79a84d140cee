SPECIFICATION Spec
CONSTANTS
  Worker = Worker
  Nobody = Nobody
  t1 = t1
  Takers = {t1}
  Sizes = {1}
  Slack = 0
  RingSizes <- MCRingSizes
  Exceeds = {0, 2}
  MaxOld = 3
  MaxPicture = 3
  MaxTime = 2
INVARIANTS TypeOK RingBounded
PROPERTIES KeepsMostRecent
CHECK_DEADLOCK FALSE
