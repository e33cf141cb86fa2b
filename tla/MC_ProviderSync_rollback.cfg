SPECIFICATION Spec
CONSTANTS
  e1 = e1
  e2 = e2
  Engines = {e1, e2}
  MaxGrants = 3
  MaxTime = 1
PROPERTIES FileNeverRollsBack
CHECK_DEADLOCK TRUE
