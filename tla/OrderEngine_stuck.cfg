SPECIFICATION Spec
CONSTANTS
  t1 = t1
  t2 = t2
  t3 = t3
  r1 = r1
  r2 = r2
  Items = {t1, t2, t3}
  Produced = {t1, t2, t3}
  Requests = {r1, r2}
  NoRequest = NoRequest
SYMMETRY Symmetry
CHECK_DEADLOCK FALSE
INVARIANTS
  RollupKeptUp
