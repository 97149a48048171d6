SPECIFICATION AmbiguousSpec
CONSTANTS
  exe = exe
  lic = lic
  r1 = r1
  r2 = r2
  m1 = m1
  RuntimeImporters = {r1, r2}
  ModelImporters = {m1}
  Files = {exe, lic}
  License = lic
  Foreign = Foreign
  Absent = Absent
  Runner = Runner
  MaxMeddling = 0
  MaxFaults = 1
SYMMETRY ImportSymmetry
CHECK_DEADLOCK FALSE
INVARIANT PlainErrorLeavesNothing
