SPECIFICATION WaitingSpec
CONSTANTS
  None = None
  p1 = p1
  p2 = p2
  p3 = p3
  c1 = c1
  c2 = c2
  c3 = c3
  m1 = m1
  b1 = b1
  b2 = b2
  b3 = b3
  a1 = a1
  a2 = a2
  e1 = e1
  e2 = e2
  e3 = e3
  g1 = g1
  g2 = g2
  Procs = {p1, p2, p3}
  NoFile = NoFile
  Stale = 2
  Margin = 1
  MaxHold = 2
  Timely = TRUE
  MaxFaults = 0
  Callers = {c1, c2, c3}
  Scope = "model"
  Model <- OneModel
  RawTiers <- ThreeTiers
  Answers <- SixAnswers
  Batches = {b1, b2, b3}
  Attributes = {a1, a2}
  MaxTokens = 2
  Endpoints = {e1, e2, e3}
  Plugins = {e1, e2}
  Pinned = {e3}
  MayExit = {e1, e2}
  Leftovers <- TwoLeftovers
  Dials = {d1, d2}
  MaxEvents = 2
  MaxMishaps = 1
  Logins = {g1, g2}
  Flows <- FourFlows
  Timeout = 1
  CallbackWait = 2
  ExpiresIn = 4
  Intervals = {1, 3}
  Cap = 2
INVARIANTS
  TimersBoundWaits
  FailClosed
PROPERTIES
  ImplementsAdvisoryLock
  WaitersMoveOn
  BatchesEnd
  NewcomerIsAccepted EverybodyAttaches
  LinkHeals NoDialWhileStopped
  LoginsEnd PollsKeepTheInterval
CHECK_DEADLOCK TRUE
