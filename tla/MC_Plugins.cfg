SPECIFICATION Spec
CONSTANTS
  None = None
  Nothing = Nothing
  c1 = c1
  c2 = c2
  s1 = s1
  t1 = t1
  p1 = p1
  Sessions = {s1}
  Messages = {c1, c2}
  ToolCalls = {t1}
  Permissions = {p1}
  Owner <- OwnerOf
  Filtered = {}
  MaxLines = 1
  Hosts = {h1}
  Tasks = {"config", "config again", "refresh"}
  Ttl = 0
  MaxClock = 1
  MaxVersion = 2
  pa = pa
  pb = pb
  pc = pc
  x = x
  y = y
  i1 = i1
  i2 = i2
  Chats = {c1, c2}
  Providers = {pa, pb, pc}
  Configs <- ThreeConfigs
  MaxBuilds = 2
  MaxResets = 1
  OAuth = {o1, o2}
  Lightbridge = {l1}
  Signatures = {sa, sb}
  Commands = {c1, c2}
  Groups = {g1}
  MaxRebuilds = 1
  Requests = {c1, c2}
  Tabs = {tab1, tab2}
SYMMETRY Symmetry
INVARIANTS
  CountedOnce NoSpanIsLost NothingOfADeletedSession
  FetchedAtIsHonest OneScheduler
  OneExchangePerMiss 
  BannerOnlyWhileDriven 
  SurfacesEndWithTheirRequest
CHECK_DEADLOCK TRUE
