CONSTANTS
  Members = {m1, m2}
  Stoppable = {m2}
  Partitions = {p1, p2}
  Capacity = 2
  MaxFailures = 1
  MaxResets = 1
SPECIFICATION Spec
INVARIANTS
  TypeOK
  NoRecordSkipped
  RedeliveryNeedsReset
PROPERTIES
  BusyStops
  ImplementsDelivery
  EveryRecordEnds
CHECK_DEADLOCK FALSE
