SPECIFICATION Spec
CONSTANTS
  Requests = {r1, r2, r3}
  Inquiries = {i1}
  Periods = {p1}
  Years <- MCYears
  MaxNum = 4
  Kinds <- MCEveryKind
  Forms <- MCTyped
  MayRewind = FALSE
SYMMETRY Symmetry
INVARIANTS
  NumberAccounted
  CounterCovers
  TextUnique
PROPERTIES
  BookSpec
CHECK_DEADLOCK FALSE
