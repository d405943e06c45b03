SPECIFICATION FairSpec
CONSTANTS
  MaxEvents = 4
  Batch = 2
  MaxRestarts = 2
INVARIANTS
  MissedOnlyByRestart
  UnseenIsKept
PROPERTIES
  DeliverySpec
  BacklogDrains
CHECK_DEADLOCK FALSE
