SPECIFICATION HostFairSpec
CONSTANTS
  Daemons = {d1, d2}
INVARIANTS
  EndedIsClean
  EndpointIsKept
  StoppedHasNoChild
PROPERTIES
  StopsEnd
CHECK_DEADLOCK FALSE
