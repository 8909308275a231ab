SPECIFICATION Spec
CONSTANTS
  Callers = {c1}
  Starters = {s1, s2}
  Codes = {k1, k2}
  Old = Old
  Capacity = 1
  None = None
SYMMETRY Symmetry
INVARIANTS
  OneLiveClaim
  InUseIsOnDisk
