SPECIFICATION ControlSpec
CONSTANTS
  f1 = f1
  f2 = f2
  f3 = f3
  None = None
  Flows <- MCFlows
  Host <- MCHost
  Targets = {"t1", "t2"}
  MaxFailures = 4
  Daemons = {d1, d2}
  Managed = TRUE
INVARIANTS
  WatchdogArmed
  HardReconnectEarned
PROPERTIES
  NothingIsForgotten
  ConnectedIsUsable
  DeadSessionIsRebuilt
  CommandsEnd
  ResetTakesEffect
CHECK_DEADLOCK FALSE
