SPECIFICATION Spec
CONSTANTS
  None = none
  Watched = {"list", "detail", "mine", "me"}
  TTL = 1
  MaxTime = 1
  MaxWrites = 1
  MaxFaults = 1
  RetryMax = 1
  StartPages = {"mockUpdate", "mockCreate", "takerProfile", "makerCreate"}
  StartTokens = {"member"}
  MaxGestures = 2
CHECK_DEADLOCK FALSE
INVARIANTS
  OwnWritesReachTheCopies
  ProfileIsTheSessions
PROPERTIES
  AnswersAreRecent
  FetchesEnd
