SPECIFICATION Spec
CONSTANTS
  a = a
  b = b
  c = c
  w1 = w1
  w2 = w2
  Node = {a, b, c}
  Worker = {w1, w2}
  NoWorker = NoWorker
  Plans <- AllPlans
  PatchModes <- AnyMode
  MaxAttempts = 1
  MaxReplans = 2
  MaxConcurrency = 2
  AutoReplan = TRUE
  MaxStalls = 1
SYMMETRY Symmetric
\* a finished run has nothing left to do
CHECK_DEADLOCK FALSE

  
  
  
PROPERTIES
  OnlyHolderCommits
