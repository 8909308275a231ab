SPECIFICATION AgentSpec
CONSTANTS
  Tasks = {t1, t2}
  packet_count = 2
  MaxWaiting = 2
  MaxDrops = 2
  Conns = {n1, n2}
  EventRoom = 1
  Callers = {c1}
  Starters = {s1}
  Codes = {k1}
  Old = Old
  Capacity = 1
  None = None
  Procs = {p1, p2}
  Rounds = 2
INVARIANTS
  RegisteredOrWoken
  ClientsAreAccounted
  SessionFileIsSound
  VerdictsAgree
PROPERTIES
  WokenByTraffic
  PipesEndInTime
  ProvisioningReturns
  DecidedCommandsEnd
CHECK_DEADLOCK FALSE
