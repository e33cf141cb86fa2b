SPECIFICATION Spec
CONSTANTS
  p1 = p1
  p2 = p2
  p3 = p3
  Procs <- ThreeProcs
  NoFile = NoFile
  Stale = 2
  Margin = 1
  MaxHold = 2
  Timely = TRUE
  MaxFaults = 1
PROPERTIES LiveHolderKeepsFile
CHECK_DEADLOCK TRUE
