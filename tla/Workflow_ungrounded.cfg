CONSTANTS
  i1 = i1
  i2 = i2
  Incidents = {i1, i2}
  Log <- LogRerun
  MaxIterations = 3
  MaxTokens = 2
  MaxAnswer = 1
  Threshold = 1
  MaxCooldowns = 0
  MaxFaults = 0
SPECIFICATION Spec
INVARIANTS
  UngroundedEscalates
CHECK_DEADLOCK FALSE
