SPECIFICATION FairSpec
CONSTANTS
  None = None
PROPERTIES
  KeepsRetrying
