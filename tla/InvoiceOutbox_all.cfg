SPECIFICATION FairSpec
CONSTANTS
  w1 = w1
  w2 = w2
  a1 = a1
  Callers = {c1}
  Workers = {w1, w2}
  Admins = {a1}
  Attempts = 2
  Environments <- MCEnvironments
INVARIANT RunsAreSingle
PROPERTIES OutcomeIsKept OrderIsServed
CHECK_DEADLOCK FALSE
