SPECIFICATION Spec
CONSTANTS
  s1 = s1
  s2 = s2
  NoScope = NoScope
  Scope = {s1}
  c0 = c0
  c1 = c1
  Call = {c0, c1}
  StartCall = c0
  Config <- TwoConfigs
  MaxVersion <- Versions
  MaxFaults = 0
  MaxCrashes = 0
INVARIANTS
  SucceededIsCurrent
