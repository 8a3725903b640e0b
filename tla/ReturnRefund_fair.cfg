\* No run outlives the lease of its claim: review also stops requests in flight.
SPECIFICATION MCSpec
CONSTANTS
  w1 = w1
  w2 = w2
  Workers = {w1, w2}
  MaxClaims = 12
  AttemptCap = 3
  MaxTries = 4
  LongTries = 2
  MaxFaults = 1
  MaxCrashes = 1
  Stalls = FALSE
PROPERTIES NoMoneyAfterReview UnknownIsResolved UnknownIsPursued
CHECK_DEADLOCK FALSE
