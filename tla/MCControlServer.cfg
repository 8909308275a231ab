SPECIFICATION ServerSpec
CONSTANTS
  f1 = f1
  f2 = f2
  None = None
  Flows <- MCFlows
  Host <- MCHost
  Targets = {"t1", "t2"}
  MaxFailures = 3
PROPERTIES
  SessionRecovers
