CONSTANTS
  Requests = {r1, r2}
  Runs = {o1, o2}
  MaxPlans = 2
  MaxFaults = 1
SPECIFICATION Spec
INVARIANTS
  TypeOK
  AtMostOnePlan
  AnswersTrue
PROPERTIES
  EveryUnitEnds
CHECK_DEADLOCK FALSE
