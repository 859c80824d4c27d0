SPECIFICATION Spec
CONSTANTS
  k1 = k1
  k2 = k2
  Key = {k1}
  NoBody = NoBody
  Observation = {}
  Write <- Revisions
  MaxAttempts = 1
  MaxCrashes = 0
  MaxWrites = 2
CHECK_DEADLOCK FALSE
INVARIANTS
  WrittenOnce
