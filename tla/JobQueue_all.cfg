SPECIFICATION FairSpec
CONSTANTS
  c1 = c1
  c2 = c2
  w1 = w1
  w2 = w2
  Events = {e1}
  Callers = {c1, c2}
  Workers = {w1, w2}
  Attempts = 2
  None = None
  Environments <- MCEnvironments
INVARIANT RecordsAgree
PROPERTIES DisabledIsObeyed StoredIsSettled
CHECK_DEADLOCK FALSE
