CONSTANTS
  Workers = {w1, w2}
  N = 3
  Reversible = {1, 3}
  Log <- LogPassed
  Threshold = 2
  MaxFaults = 2
SPECIFICATION Spec
INVARIANTS
  TypeOK
  UndoneResolvedNeedsRedelivery
  ResolvedBacked
  RepeatNeedsLossOrOverlap
PROPERTIES
  AppliedInOrder
  ApprovalAnswered
CHECK_DEADLOCK FALSE
