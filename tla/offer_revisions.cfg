SPECIFICATION Spec
CONSTANTS
  Runs = {r1, r2, r3}
  MaxRestarts = 1
  MaxSet = 1
  Faults = {"upload", "smtp", "write"}
SYMMETRY Symmetry
INVARIANTS
  OneActiveOffer
  DocumentMatchesRow
  NumbersDistinct
  SentShowsTheMail
CHECK_DEADLOCK FALSE
