SPECIFICATION BusySpec
CONSTANTS
  p1 = p1
  p2 = p2
  p3 = p3
  Procs <- ThreeProcs
  NoFile = NoFile
  Stale = 1
  Margin = 1
  MaxHold = 1
  Timely = FALSE
  MaxFaults = 1
INVARIANTS MutexUntilBroken
PROPERTIES CallReturns OrphanRemoved
CHECK_DEADLOCK TRUE
