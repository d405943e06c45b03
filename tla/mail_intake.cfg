SPECIFICATION IntakeFairSpec
CONSTANTS
  k1 = k1
  k2 = k2
  address = address
  date = date
  Customers <- MCCustomers
  Facts <- MCFacts
  Letters <- MCLetters
  Office = Office
  Batch = 2
  MaxLetters = 3
  MaxMishaps = 2
INVARIANTS
  EachMailOnce
  CompleteBecomesInquiry
PROPERTIES
  EveryMailArrives
CHECK_DEADLOCK FALSE
