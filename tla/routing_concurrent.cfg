SPECIFICATION RoutingSpec
CONSTANTS
  Runs = {r1, r2}
  Faults <- MCEveryFault
  MayToggle = TRUE
  MaxEvents = 2
  Batch = 2
  MaxRestarts = 1
INVARIANTS
  NeverAskedTwice
  AskedWithoutAgent
CHECK_DEADLOCK FALSE
