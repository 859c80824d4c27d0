CONSTANTS
  Conversation = {c1, c2}
  None = None
  Profile <- Profiles
  MaxRequests = 3
  MaxUpsets = 1
  Tab = {tab}
  MaxOpens = 3
  Process = {p1, p2}
  Nobody = Nobody
  Keep = 1
  Available = 2
  BatchLimit = 2
  MinBatch = 2
  MaxPasses = 2
  MaxMessages = 5
  MaxMishaps = 1
SPECIFICATION Spec
INVARIANTS
  TypeOK
  NothingPassed
  ContextIsWhole
PROPERTIES
  
  RefinesTurnQueue
  SentWhereShown
  OnlyTheLeaseholderCommits
CHECK_DEADLOCK FALSE
