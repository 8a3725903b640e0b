SPECIFICATION FairSpec
CONSTANTS
  r1 = r1
  r2 = r2
  t1 = t1
  t2 = t2
  t3 = t3
  s1 = s1
  Runs = {r1, r2}
  Served = {r1}
  Verifiers = {v1}
  Tokens = {t1, t2, t3}
  StaffInvoices = {s1}
  None = None
  Environments <- MCEnvironments
INVARIANT InvoiceInv
PROPERTIES ImplementsAtMostOnce MadeIsFound
CHECK_DEADLOCK FALSE
