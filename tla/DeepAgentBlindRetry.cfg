SPECIFICATION Spec
CONSTANTS
  a = a
  b = b
  c = c
  w1 = w1
  w2 = w2
  Node = {a, b, c}
  Worker = {w1, w2}
  NoWorker = NoWorker
  Plans <- LivePlans
  PatchModes <- SafeMode
  MaxAttempts = 1
  MaxReplans = 0
  MaxConcurrency = 1
  AutoReplan = TRUE
  MaxStalls = 0
CHECK_DEADLOCK FALSE
PROPERTIES
  UncertainWriteIsReconciled
