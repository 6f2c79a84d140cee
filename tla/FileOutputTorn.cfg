SPECIFICATION Spec
CONSTANTS
  Worker = Worker
  Nobody = Nobody
  t1 = t1
  Takers = {t1}
  Sizes = {1, 2}
  Slack = 0
  RingSizes = {2}
  Exceeds = {0}
  MaxOld = 3
  MaxPicture = 3
  MaxTime = 2
INVARIANT SavedWhole
CHECK_DEADLOCK FALSE
