CONSTANTS
  Writers = {w1, w2, w3}
  Payloads = {a, b}
  Genesis = genesis
  Hash <- PerfectHash
  MaxRows = 3
  MaxRollbacks = 2
SPECIFICATION Spec
INVARIANTS
  TypeOK
  ChainVerifies
PROPERTIES
  ChainGrows
  ImplementsLog
CHECK_DEADLOCK FALSE
