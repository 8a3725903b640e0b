SPECIFICATION MCSpec
CONSTANTS
  Attempts = 2
  Customers = TRUE
  Staff = TRUE
  App = TRUE
  ad = ad
  Admins = {ad}
  None = None
  Cases <- MCCases
INVARIANTS NoSilentDisagreement PlainIsInvoiced
PROPERTIES InvoiceIsNoShipment RightUnits CollectedCoversIt OverrideIsSeen CreatedIsTrue
CHECK_DEADLOCK FALSE
