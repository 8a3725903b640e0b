\* Two runs of any two jobs of one return; runs may outlive their claims.
SPECIFICATION Spec
CONSTANTS
  Workers = {w1, w2}
  MaxClaims = 3
  AttemptCap = 3
  MaxTries = 2
  LongTries = 3
  MaxFaults = 1
  MaxCrashes = 1
  Stalls = TRUE
INVARIANT RefundInv
PROPERTIES SettledStays ImplementsAtMostOnce
CHECK_DEADLOCK FALSE
