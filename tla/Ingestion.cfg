CONSTANTS
  r1 = r1
  r2 = r2
  f1 = f1
  f2 = f2
  Requests = {r1, r2}
  Prints = {f1, f2}
  Batch <- TwoBatches
  MaxRetries = 2
  MaxExpiries = 1
  MaxFaults = 2
SPECIFICATION Spec
INVARIANTS
  TypeOK
  OncePerWindow
  AcknowledgedAccounted
CHECK_DEADLOCK FALSE
