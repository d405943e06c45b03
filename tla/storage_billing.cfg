SPECIFICATION FairSpec
CONSTANTS
  Contracts = {c1}
  Manual = {g1}
  Tick = tick
  Deciders = {d1, d2}
  DaysPerMonth = 2
  LastDay = 3
  Dates <- MCDates
  MaxDraws = 5
  MaxCrashes = 1
  MaxFailures = 1
  Serial = TRUE
INVARIANTS
  BilledOncePerMonth
  NumbersBurned
  SentWasMailed
PROPERTIES
  PaymentStands
  DueIsBilled
CHECK_DEADLOCK FALSE
