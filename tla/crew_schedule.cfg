SPECIFICATION CrewSpec
CONSTANTS
  Employees = {e1}
  Requests = {r1, r2}
  MaxDay = 3
  MaxEdits = 4
SYMMETRY Symmetry
INVARIANTS
  CrewInSpan
PROPERTIES
  RecordedStays
  CrewTravels
CHECK_DEADLOCK FALSE
