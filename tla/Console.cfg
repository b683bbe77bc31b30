SPECIFICATION ConsoleSpec
CONSTANTS
  Conns = {c1, c2}
  MaxEvents = 3
  MaxBreaks = 1
INVARIANTS
  ConsoleTypeOK
  InStep
PROPERTIES
  EventsReachClients
  NobodyWaitsForEver
CHECK_DEADLOCK FALSE
