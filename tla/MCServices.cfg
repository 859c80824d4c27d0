SPECIFICATION MCSpec
CONSTANTS
  k1 = k1
  k2 = k2
  Key = {k1, k2}
  NoBody = NoBody
  Observation <- TwoJobs
  Write <- FieldWrites
  MaxAttempts = 2
  MaxCrashes = 1
  MaxWrites = 2
  scene = scene
  fact = fact
  rumour = rumour
  anna = anna
  ben = ben
  Event = {scene, fact, rumour}
  Name = {anna, ben}
  Kind <- KindOf
  Plans = {fact}
  About <- AboutOf
  Edge <- Edges
  FanOut = 2
  Question <- Questions
  Ranking <- Rankings
  MaxFollowUps = 1
  TopK = 2
  MinFilter = 2
  MinKeep = 1
  MaxWritten = 1
  MaxQueries = 2
  MaxMemoryCalls = 1
  MaxToolEvents = 2
  ToolFanOut = 1
  Caller = {r1, r2}
  MaxModelTurns = 2
  MaxToolCalls = 1
  MaxAsked = 2
  MaxPieces = 2
  Worker = {w1, w2}
  MaxSandboxes = 3
  MaxDeaths = 1
  MaxTasks = 3
  Turn = {t1, t2}
  MaxVersions = 2
  MaxConnections = 3
  MaxToolRuns = 1
\* a client may send nothing more
CHECK_DEADLOCK FALSE
INVARIANTS
  MCTypeOK
  OneExtractionPerJob
  ObservationFollowsJob
  FieldWrittenOnce
  
  
  ShownOnce
  EachTaskOnce
  
  CalledAsLookedUp
PROPERTIES
  EndedStaysEnded
  EveryJobEnds
  RunEnds
