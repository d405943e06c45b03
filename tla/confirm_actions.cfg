SPECIFICATION FairSpec
CONSTANTS
  Actions = {a1, a2}
  MaxTaps = 1
  MaxRestarts = 1
  Faults = {"post", "tool", "note", "resolve"}
INVARIANTS
  NotesAreTrue
  LostOnlyByRestart
PROPERTIES
  ApprovalSpec
  EveryActionEnds
CHECK_DEADLOCK FALSE
