SPECIFICATION Spec
CONSTANTS
  Calls = {c1, c2, c3}
  a = a
  s = s
  Invoices <- MCPair
  Part <- MCPairPart
  Ops <- MCAllOps
  RawStatuses <- MCVoid
  JobStatuses <- MCByHand
  Serial = FALSE
SYMMETRY Symmetry
INVARIANTS
  AllPaidSettles
PROPERTIES
  LedgerSpec
CHECK_DEADLOCK FALSE
