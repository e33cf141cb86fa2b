SPECIFICATION Spec
CONSTANTS
  Browsers = {b1}
  Agents = {a1}
  Locals = {a1}
  Groups = {g1}
  Conns = {c1, c2}
  Reqs = {r1, r2}
  Nobody = nobody
CHECK_DEADLOCK FALSE
INVARIANTS NoneStranded
