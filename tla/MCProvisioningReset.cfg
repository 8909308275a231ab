SPECIFICATION Spec
CONSTANTS
  Callers = {c1}
  Starters = {s1}
  Codes = {k1}
  Old = Old
  Capacity = 1
  None = None
INVARIANTS
  ResetRemovesSecret
