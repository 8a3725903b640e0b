SPECIFICATION FairSpec
CONSTANTS
  m1 = m1
  m2 = m2
  l1 = l1
  l2 = l2
  Runners = {m1, m2}
  Shared = shared
  Lookups = {l1, l2}
  PageSize = 2
  FloorPages = 2
  MaxIssued = 5
  Null = Null
  Environments <- MCEnvironments
INVARIANTS IndexIsTrue AbsenceIsProof
PROPERTY CatchesUp
CHECK_DEADLOCK FALSE
