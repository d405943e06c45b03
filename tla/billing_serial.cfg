SPECIFICATION Spec
CONSTANTS
  Calls = {c1, c2, c3, c4, c5}
  a = a
  s = s
  Invoices <- MCOne
  Part <- MCOnePart
  Ops <- MCRegister
  RawStatuses <- MCVoid
  JobStatuses <- MCBack
  Serial = TRUE
SYMMETRY Symmetry
INVARIANTS
  LadderInOrder
  PaidIsQuiet
CHECK_DEADLOCK FALSE
