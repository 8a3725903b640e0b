\* No claim outlives its lease while its own attempt still runs.
SPECIFICATION MCSpec
CONSTANTS
  w1 = w1
  w2 = w2
  o1 = o1
  Workers = {w1, w2}
  Operators = {o1}
  Tokens = {t1, t2}
  StaffIds = {s1}
  NoId = NoId
  Stalls = FALSE
  MaxCrashes = 1
INVARIANT ClaimInv
PROPERTIES ImplementsAtMostOnce UncertainIsResolved
