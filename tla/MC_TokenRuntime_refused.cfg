SPECIFICATION Spec
CONSTANTS
  p1 = p1
  p2 = p2
  c1 = c1
  c2 = c2
  c3 = c3
  Procs = {p1, p2}
  Callers <- TwoCallers
  ProcOf <- RunsIn
  NoFile = NoFile
  Stale = 2
  Margin = 1
  MaxHold = 2
  Timely = TRUE
  MaxFaults = 0
  HttpTimeout = 1
  Discovers = FALSE
  Patient = TRUE
  LongLived = TRUE
  MaxGrants = 2
  MaxTroubles = 0
PROPERTIES NeverPresentedTwice
CHECK_DEADLOCK TRUE
