SPECIFICATION Spec
CONSTANTS
  Drafts = {d1, d2}
  Senders = {s1, s2}
  MaxTexts = 3
  MaxMails = 2
  MaxRestarts = 1
  Faults = {"insert", "post", "smtp", "mark", "llm", "edit"}
SYMMETRY Symmetry
INVARIANTS
  UntouchedIsSound
PROPERTIES
  FinalIsFinal
CHECK_DEADLOCK FALSE
