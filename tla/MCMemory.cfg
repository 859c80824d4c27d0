CONSTANTS
  Key <- Keys
  Title = {"t1", "t2"}
  FreshKey <- FreshKeys
  About = {"place", "absence"}
  Object = {"home", "office"}
  None = "none"
  ClaimsTold <- ToldClaims
  EventsTold <- ToldEvents
  MaxTime = 3
  MaxClock = 2
  MaxCalls = 4
  MaxScore = 2
  DefaultScore = 1
  MaxDelta = 1
  Threshold = 2
  Rule = {r1, r2}
  DefaultRules = {r1}
  Gone = Gone
  Trigger <- Triggers
  MaxWrites = 4
  Entity = {"a", "b", "c"}
  Nil = "nil"
  Stored <- ToldRecords
  MaxEvents = 3
  MaxClaims = 2
  MaxRepairs = 2
  MaxRequests = 4
  Source = {"s1", "s2", "long", "many", "none"}
  Empty = "none"
  TooMany = {"many"}
  TooLong = {"long"}
  Unwritten = ""
  Caller = {c1, c2}
  MaxGenerations = 4
SPECIFICATION Spec
INVARIANTS
  TypeOK
  OneCurrentClaim
  
  
  
  NothingLeftUnindexed
  MergedEntitiesResolve
PROPERTIES
  KnownStaysKnown
  UpdateKeepsThePast
  NewestGenerationWrites
CHECK_DEADLOCK FALSE
