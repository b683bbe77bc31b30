CONSTANTS
  Requests = {r1, r2}
  Runs = {o1}
  MaxPlans = 1
  MaxFaults = 0
SPECIFICATION Spec
PROPERTIES
  RejectedNeverStarts
CHECK_DEADLOCK FALSE
