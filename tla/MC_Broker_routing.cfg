SPECIFICATION Spec
CONSTANTS
  Browsers = {b1, b2}
  Agents = {a1, a2}
  Locals = {a1}
  Groups = {g1}
  Conns = {c1, c2}
  Reqs = {r1, r2}
  Nobody = nobody
SYMMETRY Symmetry
CHECK_DEADLOCK FALSE
INVARIANTS RegistryConsistent OwnershipIsCurrent PendingOwnsGroup StrandedOnlyByReplacement
PROPERTIES NoTakeover
