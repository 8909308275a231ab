SPECIFICATION Spec
CONSTANTS
  Daemons = {d1}
INVARIANTS
  StopReturnsOk
CHECK_DEADLOCK FALSE
