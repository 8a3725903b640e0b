SPECIFICATION FairSpec
CONSTANTS
  b1 = b1
  b2 = b2
  e1 = e1
  e2 = e2
  Branches = {b1, b2}
  Runs = {e1, e2}
  MaxStock = 3
  Null = Null
  Environments <- MCEnvironments
PROPERTIES HeldIsNotRaised StockGoesForward NoSharedWrite Converges
