SPECIFICATION FairSpec
CONSTANTS
  None = None
INVARIANTS
  NoStaleAgent
  EventsMatchCache
  WaitingIsServed
PROPERTIES
  ShutdownCompletes
