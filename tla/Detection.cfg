CONSTANTS
  Workers = {w1, w2}
  s1 = s1
  s2 = s2
  s3 = s3
  Signals = {s1, s2, s3}
  Service <- ThreeServices
  Severity <- ThreeRanks
  Alerts <- TheAlerts
  Edges <- Dependencies
  MaxTokens = 2
  MaxFaults = 2
SPECIFICATION Spec
INVARIANTS
  TypeOK
  IncidentsCoverSignals
  SplitNeedsRace
  EventsMatchRows
PROPERTIES
  ReopenNeedsRace
CHECK_DEADLOCK FALSE
