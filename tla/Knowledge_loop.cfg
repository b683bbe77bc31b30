CONSTANTS
  i1 = i1
  i2 = i2
  Requests = {r1}
  Texts <- Versions
  MaxChars = 3
  Overlap = 1
  Incidents = {i1}
  Services = {"api", "db"}
  Service <- OneService
  MaxStarts = 3
SPECIFICATION Spec
INVARIANTS
  LearnedPrecedent
CHECK_DEADLOCK FALSE
