CONSTANTS
  i1 = i1
  i2 = i2
  Incidents = {i1, i2}
  Log <- LogRerun
  MaxIterations = 3
  MaxTokens = 2
  MaxAnswer = 1
  Threshold = 1
  MaxCooldowns = 1
  MaxFaults = 1
SPECIFICATION Spec
INVARIANTS
  TypeOK
  VettedProposals
  OverrunBounded
  StalePlanNeedsRerun
  RecordsAccounted
CHECK_DEADLOCK FALSE
