SPECIFICATION FairSpec
CONSTANTS
  Estimations = {e1, e2}
  Interventions = {"delete", "edit"}
  MaxMishaps = 1
INVARIANTS
  VolumeIsBacked
  OneResultPerMedium
  ClipsAddUp
PROPERTIES
  CompletedStays
  EstimationEnds
CHECK_DEADLOCK FALSE
