SPECIFICATION Spec
CONSTANTS
  p1 = p1
  p2 = p2
  c1 = c1
  c2 = c2
  v1 = v1
  v2 = v2
  i1 = i1
  i2 = i2
  u1 = u1
  None = None
  Papers = {p1, p2}
  Contents = {c1}
  Profiles = {v1, v2}
  Importers = {i1, i2}
  Retrying = {}
  Creators = {u1}
  MaxMishaps = 1
SYMMETRY StoreSymmetry
INVARIANTS
  RegisteredHasOriginal
  IndexedIsActive
CHECK_DEADLOCK FALSE
