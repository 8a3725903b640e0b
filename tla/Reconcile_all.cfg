SPECIFICATION FairSpec
CONSTANTS
  w1 = w1
  w2 = w2
  Workers = {w1, w2}
  Admins = {a1}
  Pages = 2
  Environments <- MCEnvironments
INVARIANTS OneChain PageOnce
PROPERTY ChainsFinish
CHECK_DEADLOCK FALSE
