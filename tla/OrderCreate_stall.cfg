\* A worker may be suspended past its claim's lease.
SPECIFICATION Spec
CONSTANTS
  Workers = {w1, w2}
  Operators = {}
  Tokens = {t1, t2}
  StaffIds = {}
  NoId = NoId
  Stalls = TRUE
  MaxCrashes = 0
INVARIANT NoBlindResend
