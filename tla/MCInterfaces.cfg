SPECIFICATION InterfacesSpec
CONSTANTS
  Secrets = {s1, s2}
  None = None
  Absent = Absent
  Garbage = Garbage
  RetryAfter = {240}
  Agents = {a1, a2}
  Requesters = {c1}
  Ids = {i1}
  RequestRoom = 1
  ResponseRoom = 1
  MaxEvents = 1
INVARIANTS
  RetriesAreSafe
  AnswersAreTrue
  DecodesWhatWasSent
  NothingIsLost
PROPERTIES
  ImplementsStore
  MenuFollowsService
CHECK_DEADLOCK FALSE
