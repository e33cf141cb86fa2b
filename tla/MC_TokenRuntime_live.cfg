\* Holders of any slowness, one crash or failing lock file, waits that give up.
SPECIFICATION FairSpec
CONSTANTS
  p1 = p1
  p2 = p2
  c1 = c1
  c2 = c2
  c3 = c3
  Procs = {p1, p2}
  Callers <- TwoCallers
  ProcOf <- RunsIn
  NoFile = NoFile
  Stale = 1
  Margin = 1
  MaxHold = 0
  Timely = FALSE
  MaxFaults = 1
  HttpTimeout = 1
  Discovers = FALSE
  Patient = FALSE
  LongLived = TRUE
  MaxGrants = 1
  MaxTroubles = 0
INVARIANTS NothingLeaks
 
CHECK_DEADLOCK TRUE
