SPECIFICATION FairSpec
CONSTANTS
  Fields <- MCFields
  Capacity = 1
  Room = 1
  MaxWrites = 2
  MaxCalls = 3
INVARIANTS
  AnswerIsFresh
  SubscriberConverges
PROPERTIES
  CallsReturn
CHECK_DEADLOCK FALSE
